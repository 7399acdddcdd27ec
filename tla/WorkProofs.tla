------------------------------ MODULE WorkProofs ------------------------------
(* Proofs about what is done on request: campaigns, the runs of a worker, its link *)
(* to the server, what is learnt from talk, and the task tools.                    *)
EXTENDS Campaigns, Execution, WorkerLink, Learning, TaskDesk, FiniteSetTheorems,
        WellFoundedInduction, TLAPS

--------------------------------------------------------------------------------
(* Campaigns: a target's row that differs from its profile will be written by a    *)
(* call under way, and whom a call counts as told was reached.                     *)

CallRows   == [pc : {"idle", "affected", "read", "write", "list", "check", "notify"},
               kind : {"none", "fill", "create", "get", "remind"}, member : Members \cup {"none"},
               read : [Members -> SUBSET Required], left : SUBSET Members, sent : SUBSET Members]
TargetRows == [is : BOOLEAN, status : {"pending", "completed"}, missing : SUBSET Required, notified : BOOLEAN]

CampaignTyped ==
  /\ info \in [Members -> SUBSET Required]
  /\ targetRow \in [Members -> TargetRows]
  /\ calling \in [Askers -> CallRows]

\* A row that differs from its profile will be written by a call that is under way.
Mends(c, m) ==
  \/ calling[c].pc = "affected" /\ calling[c].member = m
  \/ calling[c].pc = "read"
  \/ calling[c].pc = "write" /\ m \in calling[c].left
RowIsTrue(m) == targetRow[m].status = StatusOf(info[m]) /\ targetRow[m].missing = missingRequiredFields(info[m])
RowsAreMended ==
  campaign = "active" => \A m \in Targets \ excused : RowIsTrue(m) \/ \E c \in Askers : Mends(c, m)

\* Whom a call counts as told was reached.
SentWereReached == \A c \in Askers : calling[c].sent \subseteq delivered

CampaignInv == CampaignTyped /\ RowsAreMended /\ NotifiedWereReached /\ SentWereReached

LEMMA BlankCall == NoCall \in CallRows /\ NoCall.pc = "idle" /\ NoCall.sent = {} /\ NoTarget \in TargetRows
BY DEF NoCall, CallRows, NoTarget, TargetRows

LEMMA CampaignInitial == CampaignInit => CampaignInv
<1> SUFFICES ASSUME CampaignInit PROVE CampaignInv
  OBVIOUS
<1>1. CampaignTyped
  BY BlankCall DEF CampaignInit, CampaignTyped
<1>2. \A m \in Members : targetRow[m] = NoTarget
  BY DEF CampaignInit
<1>3. Targets = {} /\ NotifiedWereReached
  BY <1>2 DEF Targets, NoTarget, NotifiedWereReached
<1> QED BY <1>1, <1>3, BlankCall DEF CampaignInit, CampaignInv, RowsAreMended, SentWereReached

\* A step of one call that leaves the rows and what they show to others.
LEMMA OneCallMoves ==
  ASSUME CampaignInv, NEW c \in Askers, NEW call \in CallRows, calling' = [calling EXCEPT ![c] = call],
         info' \in [Members -> SUBSET Required], targetRow' \in [Members -> TargetRows],
         delivered \subseteq delivered', call.sent \subseteq delivered',
         \A m \in Members : targetRow'[m].notified => m \in delivered',
         campaign' = "active" =>
           \A m \in Targets' \ excused' :
             \/ RowIsTrue(m)' \/ Mends(c, m)'
             \/ /\ campaign = "active" /\ m \in Targets \ excused /\ ~Mends(c, m)
                /\ RowIsTrue(m) => RowIsTrue(m)'
  PROVE  CampaignInv'
<1>1. /\ calling' \in [Askers -> CallRows] /\ calling'[c] = call
      /\ \A d \in Askers : d # c => calling'[d] = calling[d]
  BY DEF CampaignInv, CampaignTyped
<1>2. CampaignTyped' /\ NotifiedWereReached'
  BY <1>1 DEF CampaignTyped, NotifiedWereReached
<1>3. SentWereReached'
  BY <1>1 DEF CampaignInv, SentWereReached
<1>4. RowsAreMended'
  <2> SUFFICES ASSUME campaign' = "active", NEW m \in Targets' \ excused', ~RowIsTrue(m)', ~Mends(c, m)'
               PROVE  \E d \in Askers : Mends(d, m)'
    BY DEF RowsAreMended
  <2>1. campaign = "active" /\ m \in Targets \ excused /\ ~Mends(c, m) /\ ~RowIsTrue(m)
    OBVIOUS
  <2> PICK d \in Askers : Mends(d, m)
    BY <2>1 DEF CampaignInv, RowsAreMended
  <2>2. d # c
    BY <2>1
  <2>3. Mends(d, m)'
    BY <1>1, <2>2 DEF Mends
  <2> QED BY <2>3
<1> QED BY <1>2, <1>3, <1>4 DEF CampaignInv

LEMMA CallAt == ASSUME CampaignInv, NEW c \in Askers PROVE calling[c] \in CallRows /\ calling[c].sent \subseteq delivered
BY DEF CampaignInv, CampaignTyped, SentWereReached

CallKinds  == {"none", "fill", "create", "get", "remind"}
CallPhases == {"idle", "affected", "read", "write", "list", "check", "notify"}

LEMMA KindsAndPhases == {"fill", "create", "get", "remind"} \subseteq CallKinds /\ {"affected", "read"} \subseteq CallPhases
BY DEF CallKinds, CallPhases

LEMMA StartMoves ==
  ASSUME CampaignInv, NEW c \in Askers, NEW kind \in CallKinds, NEW member \in Members \cup {"none"}, NEW pc \in CallPhases,
         Starts(c, kind, member, pc)
  PROVE  \E call \in CallRows :
           /\ calling' = [calling EXCEPT ![c] = call] /\ call.pc = pc /\ call.member = member /\ call.sent = {}
           /\ calling[c].pc = "idle"
<1>1. [NoCall EXCEPT !.pc = pc, !.kind = kind, !.member = member] \in CallRows
  BY BlankCall DEF CallRows, CallKinds, CallPhases
<1>2. calling' = [calling EXCEPT ![c] = [NoCall EXCEPT !.pc = pc, !.kind = kind, !.member = member]]
      /\ calling[c] = NoCall
  BY DEF Starts
<1> QED BY <1>1, <1>2, BlankCall DEF CallRows, NoCall

\* The fields a call of an operation leaves as they were.
LEMMA RowsStill ==
  ASSUME CampaignInv, UNCHANGED <<info, targetRow>>, excused \subseteq excused', delivered \subseteq delivered'
  PROVE  /\ info' \in [Members -> SUBSET Required] /\ targetRow' \in [Members -> TargetRows]
         /\ \A m \in Members : targetRow'[m].notified => m \in delivered'
         /\ Targets' = Targets /\ \A m \in Members : RowIsTrue(m)' = RowIsTrue(m)
BY DEF CampaignInv, CampaignTyped, NotifiedWereReached, Targets, RowIsTrue

\* A call moves on and what it would have mended is mended by it still, or excused.
LEMMA CallMoves ==
  ASSUME CampaignInv, NEW c \in Askers, NEW call \in CallRows, calling' = [calling EXCEPT ![c] = call],
         UNCHANGED <<info, targetRow>>, campaign' = "active" => campaign = "active",
         excused \subseteq excused', delivered \subseteq delivered', call.sent \subseteq delivered',
         campaign = "active" => \A m \in Targets \ excused' : Mends(c, m) => Mends(c, m)'
  PROVE  CampaignInv'
<1>1. \A m \in Members : RowIsTrue(m)' = RowIsTrue(m)
  BY RowsStill
<1>2. Targets' = Targets /\ Targets \subseteq Members
  BY RowsStill DEF Targets
<1>3. campaign' = "active" =>
        \A m \in Targets' \ excused' :
          \/ RowIsTrue(m)' \/ Mends(c, m)'
          \/ campaign = "active" /\ m \in Targets \ excused /\ ~Mends(c, m) /\ (RowIsTrue(m) => RowIsTrue(m)')
  BY <1>1, <1>2
<1> QED BY <1>3, RowsStill, OneCallMoves

LEMMA UpdateInfoKeeps ==
  ASSUME CampaignInv, NEW c \in Askers, NEW m \in Members, NEW filled \in SUBSET Required, UpdateUserInfo(c, m, filled)
  PROVE  CampaignInv'
<1>1. Starts(c, "fill", m, "affected") /\ info' = [info EXCEPT ![m] = filled]
      /\ UNCHANGED <<campaign, targetRow, delivered, excused>>
  BY DEF UpdateUserInfo
<1> PICK call \in CallRows : /\ calling' = [calling EXCEPT ![c] = call] /\ call.pc = "affected" /\ call.member = m
                             /\ call.sent = {} /\ calling[c].pc = "idle"
  BY <1>1, StartMoves, KindsAndPhases
<1>2. /\ info' \in [Members -> SUBSET Required] /\ \A o \in Members : o # m => info'[o] = info[o]
      /\ targetRow' \in [Members -> TargetRows]
  BY <1>1 DEF CampaignInv, CampaignTyped
<1>3. calling'[c] = call
  BY DEF CampaignInv, CampaignTyped
<1>4. Mends(c, m)'
  BY <1>3 DEF Mends
<1>5. \A o \in Members : o # m => RowIsTrue(o)' = RowIsTrue(o)
  BY <1>1, <1>2 DEF RowIsTrue
<1>6. \A o \in Members : ~Mends(c, o)
  BY DEF Mends
<1>7. campaign' = "active" =>
        \A o \in Targets' \ excused' :
          \/ RowIsTrue(o)' \/ Mends(c, o)'
          \/ campaign = "active" /\ o \in Targets \ excused /\ ~Mends(c, o) /\ (RowIsTrue(o) => RowIsTrue(o)')
  BY <1>1, <1>4, <1>5, <1>6 DEF Targets
<1>8. \A o \in Members : targetRow'[o].notified => o \in delivered'
  BY <1>1 DEF CampaignInv, NotifiedWereReached
<1> QED BY <1>1, <1>2, <1>7, <1>8, OneCallMoves

LEMMA RefreshForUserKeeps ==
  ASSUME CampaignInv, NEW c \in Askers, RefreshDataCollectionCampaignsForUser(c)
  PROVE  CampaignInv'
<1>1. calling[c].pc = "affected" /\ UNCHANGED <<info, campaign, targetRow, called, delivered, excused>>
  BY DEF RefreshDataCollectionCampaignsForUser
<1>2. calling[c] \in CallRows /\ calling[c].sent \subseteq delivered
  BY CallAt
<1>3. CASE Refreshes(calling[c].member) /\ StepsTo(c, "read")
  <2> PICK call : call = [calling[c] EXCEPT !.pc = "read"]
    OBVIOUS
  <2>1. call \in CallRows /\ call.pc = "read" /\ call.sent = calling[c].sent
    BY <1>2 DEF CallRows
  <2>2. calling' = [calling EXCEPT ![c] = call]
    BY <1>3 DEF StepsTo
  <2>3. calling'[c] = call
    BY <2>2 DEF CampaignInv, CampaignTyped
  <2>4. \A m \in Members : Mends(c, m)'
    BY <2>1, <2>3 DEF Mends
  <2> QED BY <1>1, <1>2, <2>1, <2>2, <2>4, CallMoves DEF Targets
<1>4. CASE ~Refreshes(calling[c].member) /\ CallOver(c)
  <2>1. campaign = "active" => \A m \in Targets : ~Mends(c, m)
    BY <1>1, <1>4 DEF Mends, Refreshes
  <2> QED BY <1>1, <1>4, <2>1, BlankCall, CallMoves DEF CallOver
<1> QED BY <1>3, <1>4 DEF RefreshDataCollectionCampaignsForUser

LEMMA ReadInfosKeeps ==
  ASSUME CampaignInv, NEW c \in Askers, ReadInfos(c)
  PROVE  CampaignInv'
<1>1. calling[c].pc = "read" /\ UNCHANGED <<info, campaign, targetRow, called, delivered, excused>>
  BY DEF ReadInfos
<1>2. calling[c] \in CallRows /\ calling[c].sent \subseteq delivered /\ info \in [Members -> SUBSET Required]
  BY CallAt DEF CampaignInv, CampaignTyped
<1> PICK call : call = [calling[c] EXCEPT !.pc = "write", !.read = info, !.left = Targets]
  OBVIOUS
<1>3. call \in CallRows /\ call.pc = "write" /\ call.sent = calling[c].sent /\ call.left = Targets
  <2>1. Targets \in SUBSET Members
    BY DEF Targets
  <2> QED BY <1>2, <2>1 DEF CallRows
<1>4. calling' = [calling EXCEPT ![c] = call]
  BY DEF ReadInfos, CampaignInv, CampaignTyped
<1>5. calling'[c] = call
  BY <1>4 DEF CampaignInv, CampaignTyped
<1>6. \A m \in Targets : Mends(c, m)'
  BY <1>3, <1>5 DEF Mends
<1> QED BY <1>1, <1>2, <1>3, <1>4, <1>6, CallMoves

\* What is written is what the profile says, or the member is excused.
LEMMA WriteTargetKeeps ==
  ASSUME CampaignInv, NEW c \in Askers, NEW m \in Members, WriteTarget(c, m)
  PROVE  CampaignInv'
<1>1. calling[c].pc = "write" /\ m \in calling[c].left /\ UNCHANGED <<info, campaign, called, delivered>>
  BY DEF WriteTarget
<1>2. calling[c] \in CallRows /\ calling[c].sent \subseteq delivered /\ targetRow \in [Members -> TargetRows]
  BY CallAt DEF CampaignInv, CampaignTyped
<1> PICK read \in SUBSET Required : read = calling[c].read[m]
  BY <1>2 DEF CallRows
<1> PICK row : row = [targetRow[m] EXCEPT !.status = StatusOf(read), !.missing = missingRequiredFields(read)]
  OBVIOUS
<1>3. /\ row \in TargetRows /\ row.is = targetRow[m].is /\ row.notified = targetRow[m].notified
      /\ row.status = StatusOf(read) /\ row.missing = missingRequiredFields(read)
  <2>1. StatusOf(read) \in {"pending", "completed"} /\ missingRequiredFields(read) \in SUBSET Required
    BY DEF StatusOf, missingRequiredFields
  <2>2. targetRow[m] \in TargetRows
    BY <1>2
  <2> QED BY <2>1, <2>2 DEF TargetRows
<1>4. targetRow' = [targetRow EXCEPT ![m] = row]
  BY <1>2 DEF WriteTarget
<1>5. targetRow' \in [Members -> TargetRows] /\ targetRow'[m] = row /\ \A o \in Members : o # m => targetRow'[o] = targetRow[o]
  BY <1>2, <1>3, <1>4
<1> PICK call : call = [calling[c] EXCEPT !.left = @ \ {m}]
  OBVIOUS
<1>6. call \in CallRows /\ call.pc = "write" /\ call.sent = calling[c].sent /\ call.left = calling[c].left \ {m}
  BY <1>1, <1>2 DEF CallRows
<1>7. calling' = [calling EXCEPT ![c] = call]
  BY DEF WriteTarget
<1>8. calling'[c] = call
  BY <1>7 DEF CampaignInv, CampaignTyped
<1>9. \A o \in Members : o # m => (Mends(c, o) <=> Mends(c, o)') /\ (RowIsTrue(o) <=> RowIsTrue(o)') /\ (o \in Targets <=> o \in Targets')
  BY <1>1, <1>5, <1>6, <1>8 DEF Mends, RowIsTrue, Targets
<1>10. (m \in Targets' \ excused') => RowIsTrue(m)'
  <2>1. CASE read = info[m]
    BY <1>1, <1>3, <1>5, <2>1 DEF RowIsTrue, StatusOf, missingRequiredFields
  <2>2. CASE read # info[m]
    BY <2>2 DEF WriteTarget
  <2> QED BY <2>1, <2>2
<1>11. \A o \in Members : o # m => (o \in excused <=> o \in excused')
  BY DEF WriteTarget
<1>12. \A o \in Members : targetRow'[o].notified => o \in delivered'
  BY <1>1, <1>3, <1>5 DEF CampaignInv, NotifiedWereReached
<1>13. campaign' = "active" =>
        \A o \in Targets' \ excused' :
          \/ RowIsTrue(o)' \/ Mends(c, o)'
          \/ campaign = "active" /\ o \in Targets \ excused /\ ~Mends(c, o) /\ (RowIsTrue(o) => RowIsTrue(o)')
  <2>1. Targets' \subseteq Members
    BY DEF Targets
  <2> QED BY <1>1, <1>9, <1>10, <1>11, <2>1
<1>14. info' \in [Members -> SUBSET Required]
  BY <1>1 DEF CampaignInv, CampaignTyped
<1> QED BY <1>1, <1>2, <1>5, <1>6, <1>7, <1>12, <1>13, <1>14, OneCallMoves

LEMMA RefreshedKeeps ==
  ASSUME CampaignInv, NEW c \in Askers, Refreshed(c)
  PROVE  CampaignInv'
<1>1. calling[c].pc = "write" /\ calling[c].left = {} /\ UNCHANGED <<info, campaign, targetRow, called, delivered, excused>>
  BY DEF Refreshed
<1>2. calling[c] \in CallRows /\ calling[c].sent \subseteq delivered
  BY CallAt
<1>3. \A m \in Members : ~Mends(c, m)
  BY <1>1 DEF Mends
<1>4. Targets \subseteq Members
  BY DEF Targets
<1>5. CASE CallOver(c)
  BY <1>1, <1>3, <1>4, <1>5, BlankCall, CallMoves DEF CallOver
<1>6. CASE AfterRefresh(calling[c].kind) # "over"
           /\ calling' = [calling EXCEPT ![c].pc = AfterRefresh(calling[c].kind), ![c].read = NoCall.read]
  <2> PICK call : call = [calling[c] EXCEPT !.pc = AfterRefresh(calling[c].kind), !.read = NoCall.read]
    OBVIOUS
  <2>1. AfterRefresh(calling[c].kind) \in {"list", "check"}
    BY <1>6 DEF AfterRefresh
  <2>2. NoCall.read \in [Members -> SUBSET Required]
    BY DEF NoCall
  <2>3. call \in CallRows /\ call.sent = calling[c].sent
    BY <1>2, <2>1, <2>2 DEF CallRows
  <2>4. calling' = [calling EXCEPT ![c] = call]
    BY <1>6 DEF CampaignInv, CampaignTyped
  <2> QED BY <1>1, <1>2, <1>3, <1>4, <2>3, <2>4, CallMoves
<1> QED BY <1>5, <1>6 DEF Refreshed

LEMMA CreateKeeps ==
  ASSUME CampaignInv, NEW c \in Askers, NEW members \in SUBSET Members, CreateDataCollectionCampaign(c, members)
  PROVE  CampaignInv'
<1>1. /\ Starts(c, "create", "none", "read") /\ UNCHANGED <<info, delivered, excused>>
      /\ targetRow' = [m \in Members |-> [NoTarget EXCEPT !.is = m \in members]]
  BY DEF CreateDataCollectionCampaign
<1> PICK call \in CallRows : calling' = [calling EXCEPT ![c] = call] /\ call.pc = "read" /\ call.sent = {}
  BY <1>1, StartMoves, KindsAndPhases, SMTT(30)
<1>2. \A m \in Members : targetRow'[m] \in TargetRows /\ ~targetRow'[m].notified
  <2> TAKE m \in Members
  <2> PICK is \in BOOLEAN : is <=> m \in members
    OBVIOUS
  <2>1. targetRow'[m] = [NoTarget EXCEPT !.is = is]
    BY <1>1
  <2> QED BY <2>1 DEF NoTarget, TargetRows
<1>3. targetRow' \in [Members -> TargetRows]
  <2>1. DOMAIN targetRow' = Members /\ targetRow' = [m \in Members |-> targetRow'[m]]
    BY <1>1
  <2> QED BY <1>2, <2>1
<1>4. calling'[c] = call
  BY DEF CampaignInv, CampaignTyped
<1>5. \A m \in Members : Mends(c, m)'
  BY <1>4 DEF Mends
<1>6. info' \in [Members -> SUBSET Required] /\ Targets' \subseteq Members
  BY <1>1 DEF CampaignInv, CampaignTyped, Targets
<1> QED BY <1>1, <1>2, <1>3, <1>5, <1>6, OneCallMoves

LEMMA AskKeeps ==
  ASSUME CampaignInv, NEW c \in Askers, NEW kind \in {"get", "remind"}, AskCampaign(c, kind)
  PROVE  CampaignInv'
<1>1. Starts(c, kind, "none", "read") /\ UNCHANGED <<info, campaign, targetRow, delivered, excused>>
  BY DEF AskCampaign
<1> PICK call \in CallRows : /\ calling' = [calling EXCEPT ![c] = call] /\ call.pc = "read" /\ call.sent = {}
                             /\ calling[c].pc = "idle"
  BY <1>1, StartMoves, KindsAndPhases
<1>2. \A m \in Members : ~Mends(c, m)
  BY DEF Mends
<1> QED BY <1>1, <1>2, CallMoves DEF Targets

\* A call that writes no rows moves on.
LEMMA IdlyMoves ==
  ASSUME CampaignInv, NEW c \in Askers, NEW call \in CallRows, calling' = [calling EXCEPT ![c] = call],
         UNCHANGED <<info, campaign, targetRow, excused>>, calling[c].pc \in {"check", "list", "notify"},
         delivered \subseteq delivered', call.sent \subseteq delivered'
  PROVE  CampaignInv'
<1>1. \A m \in Members : ~Mends(c, m)
  BY DEF Mends
<1> QED BY <1>1, CallMoves DEF Targets

LEMMA CheckKeeps ==
  ASSUME CampaignInv, NEW c \in Askers, CheckActive(c)
  PROVE  CampaignInv'
<1>1. calling[c].pc = "check" /\ UNCHANGED <<info, campaign, targetRow, called, delivered, excused>>
  BY DEF CheckActive
<1>2. calling[c] \in CallRows /\ calling[c].sent \subseteq delivered
  BY CallAt
<1>3. CASE CallOver(c)
  BY <1>1, <1>3, BlankCall, IdlyMoves DEF CallOver
<1>4. CASE StepsTo(c, "list")
  <2> PICK call : call = [calling[c] EXCEPT !.pc = "list"]
    OBVIOUS
  <2>1. call \in CallRows /\ call.sent = calling[c].sent
    BY <1>2 DEF CallRows
  <2>2. calling' = [calling EXCEPT ![c] = call]
    BY <1>4 DEF StepsTo
  <2> QED BY <1>1, <1>2, <2>1, <2>2, IdlyMoves
<1> QED BY <1>3, <1>4 DEF CheckActive

LEMMA ListKeeps ==
  ASSUME CampaignInv, NEW c \in Askers, NEW refused \in BOOLEAN, ListPending(c, refused)
  PROVE  CampaignInv'
<1>1. calling[c].pc = "list" /\ UNCHANGED <<info, campaign, targetRow, called, delivered, excused>>
  BY DEF ListPending
<1>2. calling[c] \in CallRows /\ calling[c].sent \subseteq delivered
  BY CallAt
<1>3. CASE CallOver(c)
  BY <1>1, <1>3, BlankCall, IdlyMoves DEF CallOver
<1>4. CASE calling' = [calling EXCEPT ![c].pc = "notify", ![c].left = Pending]
  <2> PICK call : call = [calling[c] EXCEPT !.pc = "notify", !.left = Pending]
    OBVIOUS
  <2>1. Pending \in SUBSET Members
    BY DEF Pending, Targets
  <2>2. call \in CallRows /\ call.sent = calling[c].sent
    BY <1>2, <2>1 DEF CallRows
  <2>3. calling' = [calling EXCEPT ![c] = call]
    BY <1>4 DEF CampaignInv, CampaignTyped
  <2> QED BY <1>1, <1>2, <2>2, <2>3, IdlyMoves
<1> QED BY <1>3, <1>4 DEF ListPending

LEMMA NotifyKeeps ==
  ASSUME CampaignInv, NEW c \in Askers, NEW m \in Members, NEW reached \in BOOLEAN, NotifyTarget(c, m, reached)
  PROVE  CampaignInv'
<1>1. /\ calling[c].pc = "notify" /\ UNCHANGED <<info, campaign, targetRow, called, excused>>
      /\ delivered' = IF reached THEN delivered \cup {m} ELSE delivered
  BY DEF NotifyTarget
<1>2. calling[c] \in CallRows /\ calling[c].sent \subseteq delivered
  BY CallAt
<1> PICK sent \in SUBSET Members : sent = IF reached THEN calling[c].sent \cup {m} ELSE calling[c].sent
  BY <1>2 DEF CallRows
<1> PICK call : call = [calling[c] EXCEPT !.left = @ \ {m}, !.sent = sent]
  OBVIOUS
<1>3. call \in CallRows /\ call.sent = sent
  BY <1>2 DEF CallRows
<1>4. calling' = [calling EXCEPT ![c] = call]
  BY DEF NotifyTarget, CampaignInv, CampaignTyped
<1>5. delivered \subseteq delivered' /\ sent \subseteq delivered'
  BY <1>1, <1>2
<1> QED BY <1>1, <1>3, <1>4, <1>5, IdlyMoves

\* Only those the call has reached are marked.
LEMMA MarkNotifiedKeeps ==
  ASSUME CampaignInv, NEW c \in Askers, MarkDataCollectionCampaignTargetsNotified(c)
  PROVE  CampaignInv'
<1>1. /\ calling[c].pc = "notify" /\ UNCHANGED <<info, campaign, called, delivered, excused>> /\ CallOver(c)
      /\ targetRow' = [m \in Members |-> [targetRow[m] EXCEPT !.notified = @ \/ m \in ToMark(c)]]
  BY DEF MarkDataCollectionCampaignTargetsNotified
<1>2. ToMark(c) \subseteq delivered /\ targetRow \in [Members -> TargetRows]
  BY CallAt DEF ToMark, CampaignInv, CampaignTyped
<1>3. ASSUME NEW m \in Members
      PROVE  /\ targetRow'[m] \in TargetRows /\ targetRow'[m].is = targetRow[m].is
             /\ targetRow'[m].status = targetRow[m].status /\ targetRow'[m].missing = targetRow[m].missing
             /\ targetRow'[m].notified => targetRow[m].notified \/ m \in ToMark(c)
  <2> PICK told \in BOOLEAN : told <=> (targetRow[m].notified \/ m \in ToMark(c))
    OBVIOUS
  <2>1. targetRow[m] \in TargetRows
    BY <1>2
  <2>2. targetRow'[m] = [targetRow[m] EXCEPT !.notified = told]
    BY <1>1
  <2> QED BY <2>1, <2>2 DEF TargetRows
<1>4. targetRow' \in [Members -> TargetRows]
  <2>1. targetRow' = [m \in Members |-> targetRow'[m]]
    BY <1>1
  <2> QED BY <1>3, <2>1
<1>5. \A m \in Members : targetRow'[m].notified => m \in delivered'
  BY <1>1, <1>2, <1>3 DEF CampaignInv, NotifiedWereReached
<1>6. \A m \in Members : ~Mends(c, m) /\ (RowIsTrue(m) => RowIsTrue(m)') /\ (m \in Targets' => m \in Targets)
  BY <1>1, <1>3 DEF Mends, RowIsTrue, Targets
<1>7. Targets' \subseteq Members /\ info' \in [Members -> SUBSET Required]
  BY <1>1 DEF Targets, CampaignInv, CampaignTyped
<1>8. calling' = [calling EXCEPT ![c] = NoCall]
  BY <1>1 DEF CallOver
<1> QED BY <1>1, <1>4, <1>5, <1>6, <1>7, <1>8, BlankCall, OneCallMoves

\* Whom a call that dies would have mended is excused.
LEMMA CallDiesKeeps ==
  ASSUME CampaignInv, NEW c \in Askers, CallDies(c)
  PROVE  CampaignInv'
<1>1. /\ excused' = excused \cup Abandons(c) /\ calling' = [calling EXCEPT ![c] = NoCall]
      /\ UNCHANGED <<info, campaign, targetRow, called, delivered>>
  BY DEF CallDies, CallOver
<1>2. \A m \in Members : Mends(c, m) => m \in Abandons(c)
  BY DEF Mends, Abandons
<1> QED BY <1>1, <1>2, BlankCall, CallMoves DEF Targets

LEMMA StatusKeeps ==
  ASSUME CampaignInv, \/ UNCHANGED campaignVars
                      \/ \E status \in {"closed", "cancelled"} : SetDataCollectionCampaignStatus(status)
  PROVE  CampaignInv'
<1>1. UNCHANGED <<info, targetRow, calling, delivered, excused>> /\ (campaign' = "active" => campaign = "active")
  BY DEF campaignVars, SetDataCollectionCampaignStatus
<1> QED BY <1>1 DEF CampaignInv, CampaignTyped, RowsAreMended, Targets, RowIsTrue, Mends, NotifiedWereReached, SentWereReached

LEMMA CampaignStep ==
  ASSUME CampaignInv, [CampaignNext]_campaignVars
  PROVE  CampaignInv'
<1>1. CASE UNCHANGED campaignVars
  BY <1>1, StatusKeeps
<1>2. CASE CampaignNext
  BY <1>2, UpdateInfoKeeps, WriteTargetKeeps, NotifyKeeps, RefreshForUserKeeps, ReadInfosKeeps, RefreshedKeeps,
     CreateKeeps, AskKeeps, CheckKeeps, ListKeeps, MarkNotifiedKeeps, CallDiesKeeps, StatusKeeps
  DEF CampaignNext
<1> QED BY <1>1, <1>2

\* While no call is under way the progress of an active campaign is that of the profiles,
\* and only members whom a message reached count as notified (WriteTarget, Refreshed,
\* MarkDataCollectionCampaignTargetsNotified).
THEOREM CampaignHonest == CampaignSpec => []CampaignIsHonest
<1>1. ASSUME CampaignInv PROVE CampaignIsHonest
  <2>1. (\A c \in Askers : calling[c] = NoCall) => \A m \in Members : \A c \in Askers : ~Mends(c, m)
    BY BlankCall DEF Mends
  <2>2. ProgressIsTrue
    BY <1>1, <2>1 DEF CampaignInv, RowsAreMended, RowIsTrue, ProgressIsTrue, Targets
  <2> QED BY <1>1, <2>2 DEF CampaignInv, CampaignIsHonest
<1> QED BY <1>1, CampaignInitial, CampaignStep, PTL DEF CampaignSpec

--------------------------------------------------------------------------------
(* A worker's run: blocks on the screen belong to the marks they were written      *)
(* under, so nothing is reviewed twice, and what is on its way to be delivered was *)
(* reviewed or is one of those the code lets through.                              *)

ExecPhases == {"idle", "prepare", "start", "think", "command", "turn", "parse", "judge", "hopeless", "review",
               "settle", "collect", "upload", "submit", "ask", "fail"}
JobRows     == [no : Nat, id : RunIds \cup {0}, engine : {"cli", "builtin", "command"}, phase : ExecPhases,
                marks : Nat, broken : BOOLEAN]
SessionRows == [stored : Nat, ref : Nat, live : Nat, unfit : Nat]
BlockRows   == [marks : Nat, work : Nat]
ScreenRows  == [done : BlockRows, ask : BlockRows, last : {"done", "ask"}]
JudgedRows  == [since : Nat, stalled : Nat, sig : Signatures \cup {"none"}, silent : Nat, streak : Nat, same : Nat]

ExecTyped ==
  /\ job \in JobRows
  /\ sessions \in SessionRows
  /\ screen \in ScreenRows
  /\ work \in Turns
  /\ judged \in JudgedRows
  /\ verdict \in [Turns -> {"none", "pass", "revise", "again"}]
  /\ withdrawn \in [ids : SUBSET (RunIds \cup {0}), now : BOOLEAN]

\* Every phase belongs to its engines.
PhasesFit ==
  /\ job.phase \in {"start", "turn", "parse", "settle"} => job.engine = "cli"
  /\ job.phase = "think" => job.engine = "builtin"
  /\ job.phase = "command" => job.engine = "command"
  /\ job.phase \in {"judge", "review", "ask"} => job.engine \in {"cli", "builtin"}
  /\ job.phase = "collect" => job.engine \in {"cli", "command"}

\* Blocks on the screen are of turns that were made, under marks that were given out.
ScreenStands ==
  /\ screen.done.work <= work
  /\ screen.done.marks <= job.marks

\* What is still to be reviewed has no verdict.
VerdictsStand ==
  /\ \A t \in Turns : t > work => verdict[t] = "none"
  /\ job.phase \in {"prepare", "start", "turn", "parse", "judge", "review"} /\ job.engine = "cli" /\ Completed =>
       verdict[screen.done.work] = "none"
  /\ job.phase = "review" /\ job.engine = "cli" => Completed
  /\ job.phase = "review" /\ job.engine = "builtin" => verdict[work] = "none"

\* What is on its way to be delivered was reviewed, or is one that is let through.
Passed ==
  \/ verdict[Reviewed] = "pass"
  \/ (job.broken \/ Asked) /\ verdict[Reviewed] = "none"
OnTheWay ==
  /\ job.phase = "settle" /\ Completed => Passed
  /\ job.phase \in {"collect", "upload", "submit"} /\ job.engine = "cli" => Passed
  /\ job.phase \in {"upload", "submit"} /\ job.engine = "builtin" => verdict[work] = "pass"

\* Only a run that was taken back is cancelled.
CancelledWereWithdrawn == late \subseteq withdrawn.ids /\ (killed => job.id \in withdrawn.ids)

\* The judge's counters.
Patience ==
  /\ judged.same <= judged.stalled /\ judged.stalled <= judged.streak
  /\ job.phase \notin {"hopeless", "fail", "idle"} => judged.stalled < MaxStalledTurns

\* A session is as old as its run, and one that did not fit is not this run's.
SessionsStand ==
  /\ sessions.stored <= job.no /\ sessions.ref <= job.no /\ sessions.live <= job.no
  /\ job.phase \in {"prepare", "start"} => sessions.stored < job.no /\ sessions.unfit = 0
  /\ sessions.ref # 0 => sessions.ref # sessions.unfit
  /\ sessions.live # 0 => sessions.live # sessions.unfit

ExecInv ==
  /\ ExecTyped /\ PhasesFit /\ ScreenStands /\ VerdictsStand /\ OnTheWay
  /\ CancelledWereWithdrawn /\ Patience /\ SessionsStand
  /\ job.phase # "idle" => ended = NotEnded
  /\ ReviewedOnce /\ SubmittedPassed /\ DroppedWasWithdrawn /\ RefsAreFresh

LEMMA ExecInitial == ExecutionInit => ExecInv
<1> SUFFICES ASSUME ExecutionInit PROVE ExecInv
  OBVIOUS
<1>1. ExecTyped
  <2>1. job \in JobRows
    BY DEF ExecutionInit, JobRows, ExecPhases
  <2>2. sessions \in SessionRows /\ judged \in JudgedRows
    BY DEF ExecutionInit, SessionRows, JudgedRows, Unjudged
  <2>3. screen \in ScreenRows
    BY DEF ExecutionInit, ScreenRows, BlockRows, Blank, NoBlock
  <2>4. work \in Turns /\ verdict \in [Turns -> {"none", "pass", "revise", "again"}]
    BY ExecutionAssumption DEF ExecutionInit, Turns
  <2>5. withdrawn \in [ids : SUBSET (RunIds \cup {0}), now : BOOLEAN]
    BY DEF ExecutionInit
  <2> QED BY <2>1, <2>2, <2>3, <2>4, <2>5 DEF ExecTyped
<1>2. /\ job.phase = "idle" /\ job.no = 0 /\ sessions.stored = 0 /\ sessions.ref = 0 /\ sessions.live = 0 /\ sessions.unfit = 0
      /\ work = 0 /\ judged.stalled = 0 /\ judged.same = 0 /\ judged.streak = 0 /\ ~killed /\ late = {} /\ job.marks = 0
      /\ ended.how = "none" /\ screen.done.work = 0 /\ screen.done.marks = 0 /\ \A t \in Turns : verdict[t] = "none"
  BY DEF ExecutionInit, Unjudged, NotEnded, Blank, NoBlock
<1>3. PhasesFit /\ ScreenStands /\ VerdictsStand /\ OnTheWay
  BY <1>2 DEF PhasesFit, ScreenStands, VerdictsStand, OnTheWay
<1>4. CancelledWereWithdrawn /\ Patience /\ SessionsStand
  BY <1>2 DEF CancelledWereWithdrawn, Patience, SessionsStand
<1>5. ReviewedOnce /\ SubmittedPassed /\ DroppedWasWithdrawn /\ RefsAreFresh
  BY <1>2 DEF ReviewedOnce, SubmittedPassed, DroppedWasWithdrawn, RefsAreFresh
<1> QED BY <1>1, <1>2, <1>3, <1>4, <1>5 DEF ExecInv

--------------------------------------------------------------------------------
(* Steps between phases *)

LEMMA JobAt ==
  ASSUME ExecInv
  PROVE  /\ job \in JobRows /\ job.no \in Nat /\ job.marks \in Nat /\ job.phase \in ExecPhases
         /\ job.engine \in {"cli", "builtin", "command"} /\ job.broken \in BOOLEAN /\ job.id \in RunIds \cup {0}
BY DEF ExecInv, ExecTyped, JobRows

LEMMA JobGoes ==
  ASSUME ExecInv, NEW phase \in ExecPhases, To(phase)
  PROVE  /\ job' \in JobRows /\ job'.phase = phase /\ job'.no = job.no /\ job'.id = job.id
         /\ job'.engine = job.engine /\ job'.marks = job.marks /\ job'.broken = job.broken
<1>1. job \in JobRows /\ job' = [job EXCEPT !.phase = phase]
  BY JobAt DEF To
<1> QED BY <1>1 DEF JobRows

\* The phase changes and nothing else does.
LEMMA PhaseMoves ==
  ASSUME ExecInv, NEW phase \in ExecPhases \ {"idle"}, To(phase), job.phase # "idle",
         UNCHANGED <<sessions, agentVars, leaseVars, ended>>,
         PhasesFit', VerdictsStand', OnTheWay',
         phase \notin {"hopeless", "fail"} => judged.stalled < MaxStalledTurns,
         phase \in {"prepare", "start"} => job.phase \in {"prepare", "start"}
  PROVE  ExecInv'
<1>1. /\ job' \in JobRows /\ job'.phase = phase /\ job'.no = job.no /\ job'.id = job.id
      /\ job'.marks = job.marks
  BY JobGoes
<1>2. ExecTyped' /\ ScreenStands' /\ CancelledWereWithdrawn'
  BY <1>1 DEF ExecInv, ExecTyped, ScreenStands, CancelledWereWithdrawn, agentVars, leaseVars
<1>3. Patience' /\ SessionsStand'
  BY <1>1 DEF ExecInv, Patience, SessionsStand, agentVars
<1>4. ended' = NotEnded /\ ReviewedOnce'
  BY DEF ExecInv, ReviewedOnce, agentVars
<1>5. SubmittedPassed' /\ DroppedWasWithdrawn' /\ RefsAreFresh'
  BY <1>4 DEF NotEnded, SubmittedPassed, DroppedWasWithdrawn, RefsAreFresh
<1> QED BY <1>2, <1>3, <1>4, <1>5 DEF ExecInv

\* The run is let go.
LEMMA EndKeeps ==
  ASSUME ExecInv, NEW how \in {"submitted", "asked", "failed", "dropped"}, NEW delivery, NEW odd, End(how, delivery, odd),
         how = "dropped" => killed,
         how = "submitted" /\ delivery > 0 => verdict[delivery] = "pass" \/ (odd /\ verdict[delivery] = "none")
  PROVE  ExecInv'
<1>1. /\ job' \in JobRows /\ job'.phase = "idle" /\ job'.no = job.no /\ job'.id = job.id /\ job'.marks = job.marks
      /\ job'.engine = job.engine
  BY JobGoes DEF End, ExecPhases
<1>2. /\ ended'.how = how /\ ended'.work = delivery /\ ended'.ref = sessions.ref /\ ended'.odd = odd
      /\ UNCHANGED <<agentVars, leaseVars>>
  BY DEF End
<1> PICK stored \in {sessions.stored, sessions.ref} : sessions' = [sessions EXCEPT !.stored = stored]
  BY DEF End, ExecInv, ExecTyped, SessionRows
<1>3. /\ sessions' \in SessionRows /\ sessions'.stored = stored /\ sessions'.ref = sessions.ref
      /\ sessions'.live = sessions.live /\ sessions'.unfit = sessions.unfit /\ sessions.stored \in Nat /\ sessions.ref \in Nat
  BY DEF ExecInv, ExecTyped, SessionRows
<1>4. ExecTyped'
  BY <1>1, <1>2, <1>3 DEF ExecInv, ExecTyped, agentVars, leaseVars
<1>5. PhasesFit' /\ ScreenStands' /\ VerdictsStand' /\ OnTheWay'
  BY <1>1, <1>2 DEF ExecInv, PhasesFit, ScreenStands, VerdictsStand, OnTheWay, agentVars
<1>6. CancelledWereWithdrawn' /\ Patience' /\ SessionsStand'
  BY <1>1, <1>2, <1>3 DEF ExecInv, CancelledWereWithdrawn, Patience, SessionsStand, agentVars, leaseVars
<1>7. ReviewedOnce' /\ SubmittedPassed'
  BY <1>2 DEF ExecInv, ReviewedOnce, SubmittedPassed, agentVars
<1>8. DroppedWasWithdrawn' /\ RefsAreFresh'
  BY <1>1, <1>2, <1>3 DEF ExecInv, DroppedWasWithdrawn, RefsAreFresh, CancelledWereWithdrawn, SessionsStand, leaseVars
<1> QED BY <1>1, <1>4, <1>5, <1>6, <1>7, <1>8 DEF ExecInv

LEMMA DropKeeps == ASSUME ExecInv, Drop PROVE ExecInv'
BY EndKeeps DEF Drop

LEMMA FailTaskKeeps == ASSUME ExecInv, FailTask PROVE ExecInv'
BY EndKeeps DEF FailTask

\* Any phase may give the run up.
LEMMA FailMoves ==
  ASSUME ExecInv, NEW phase \in {"fail", "hopeless"}, To(phase), job.phase # "idle",
         UNCHANGED <<sessions, agentVars, leaseVars, ended>>
  PROVE  ExecInv'
<1>1. /\ job'.phase = phase /\ phase \in ExecPhases \ {"idle"}
  BY JobGoes DEF ExecPhases
<1>2. PhasesFit' /\ VerdictsStand' /\ OnTheWay'
  BY <1>1 DEF ExecInv, PhasesFit, VerdictsStand, OnTheWay, agentVars
<1> QED BY <1>1, <1>2, PhaseMoves

--------------------------------------------------------------------------------
(* The lease *)

LEMMA LeaseMoves ==
  ASSUME ExecInv, UNCHANGED <<job, sessions, agentVars, ended>>, withdrawn' \in [ids : SUBSET (RunIds \cup {0}), now : BOOLEAN],
         withdrawn.ids \subseteq withdrawn'.ids, CancelledWereWithdrawn'
  PROVE  ExecInv'
<1>1. ExecTyped'
  BY DEF ExecInv, ExecTyped, agentVars
<1>2. PhasesFit' /\ ScreenStands' /\ VerdictsStand'
  BY DEF ExecInv, PhasesFit, ScreenStands, VerdictsStand, agentVars, Completed
<1>3. OnTheWay'
  BY DEF ExecInv, OnTheWay, agentVars, Completed, Asked, Passed, Reviewed
<1>4. Patience' /\ SessionsStand' /\ (job'.phase # "idle" => ended' = NotEnded)
  BY DEF ExecInv, Patience, SessionsStand, agentVars
<1>5. ReviewedOnce' /\ SubmittedPassed' /\ DroppedWasWithdrawn' /\ RefsAreFresh'
  BY DEF ExecInv, ReviewedOnce, SubmittedPassed, DroppedWasWithdrawn, RefsAreFresh, agentVars
<1> QED BY <1>1, <1>2, <1>3, <1>4, <1>5 DEF ExecInv

LEMMA LeaseKeeps ==
  ASSUME ExecInv, Withdraw \/ (\E id \in RunIds : CancelCurrentRun(id)) \/ TimeOut
  PROVE  ExecInv'
<1>1. withdrawn \in [ids : SUBSET (RunIds \cup {0}), now : BOOLEAN] /\ withdrawn.ids \subseteq RunIds \cup {0}
  BY DEF ExecInv, ExecTyped
<1>2. CASE Withdraw
  <2>1. withdrawn' \in [ids : SUBSET (RunIds \cup {0}), now : BOOLEAN] /\ withdrawn'.ids = withdrawn.ids \cup {job.id}
    BY <1>1, <1>2, JobAt DEF Withdraw
  <2>2. CancelledWereWithdrawn'
    BY <1>2, <2>1 DEF Withdraw, ExecInv, CancelledWereWithdrawn
  <2> QED BY <1>2, <2>1, <2>2, LeaseMoves DEF Withdraw
<1>3. ASSUME NEW id \in RunIds, CancelCurrentRun(id)
      PROVE  ExecInv'
  <2>1. CancelledWereWithdrawn'
    BY <1>3 DEF CancelCurrentRun, ExecInv, CancelledWereWithdrawn, Hits
  <2> QED BY <1>1, <1>3, <2>1, LeaseMoves DEF CancelCurrentRun
<1>4. CASE TimeOut
  <2>1. CancelledWereWithdrawn'
    BY <1>4 DEF TimeOut, ExecInv, CancelledWereWithdrawn
  <2> QED BY <1>1, <1>4, <2>1, LeaseMoves DEF TimeOut
<1> QED BY <1>2, <1>3, <1>4

--------------------------------------------------------------------------------
(* Preparing and starting *)

\* A step to a phase that has nothing reviewed before it.
LEMMA WorkMoves ==
  ASSUME ExecInv, NEW phase \in {"prepare", "start", "think", "command", "turn", "judge"}, To(phase),
         job.phase \in {"prepare", "start", "turn", "judge", "ask", "think"},
         phase = "prepare" => job.phase = "prepare",
         phase = "start" => job.phase = "prepare" /\ job.engine = "cli",
         phase = "think" => job.engine = "builtin",
         phase = "command" => job.engine = "command",
         phase = "judge" => job.phase \in {"ask", "think"} /\ job.engine = "builtin",
         phase = "turn" => job.engine = "cli" /\ job.phase # "ask",
         judged.stalled < MaxStalledTurns,
         UNCHANGED <<sessions, agentVars, leaseVars, ended>>
  PROVE  ExecInv'
<1>1. job'.phase = phase /\ job'.engine = job.engine /\ job'.marks = job.marks /\ phase \in ExecPhases \ {"idle"}
  BY JobGoes DEF ExecPhases
<1>2. PhasesFit'
  BY <1>1 DEF PhasesFit
<1>3. VerdictsStand'
  BY <1>1 DEF ExecInv, VerdictsStand, PhasesFit, Completed, agentVars
<1>4. OnTheWay'
  BY <1>1 DEF OnTheWay
<1> QED BY <1>1, <1>2, <1>3, <1>4, PhaseMoves

LEMMA PrepareKeeps ==
  ASSUME ExecInv, Prepare
  PROVE  ExecInv'
<1>1. job.phase = "prepare" /\ judged.stalled < MaxStalledTurns
  BY DEF Prepare, In, ExecInv, Patience
<1>2. CASE Drop
  BY <1>2, DropKeeps
<1>3. CASE To("fail") /\ UNCHANGED <<sessions, agentVars, leaseVars, ended>>
  BY <1>1, <1>3, FailMoves
<1>4. CASE /\ To(CASE job.engine = "cli" -> "start"
                   [] job.engine = "builtin" -> "think"
                   [] job.engine = "command" -> "command")
           /\ UNCHANGED <<sessions, agentVars, leaseVars, ended>>
  <2> PICK phase : phase = CASE job.engine = "cli" -> "start"
                             [] job.engine = "builtin" -> "think"
                             [] job.engine = "command" -> "command"
    OBVIOUS
  <2>1. /\ phase \in {"start", "think", "command"} /\ (phase = "start" => job.engine = "cli")
        /\ (phase = "think" => job.engine = "builtin") /\ (phase = "command" => job.engine = "command")
    BY JobAt
  <2>2. To(phase)
    BY <1>4
  <2> QED BY <1>1, <1>4, <2>1, <2>2, WorkMoves
<1> QED BY <1>2, <1>3, <1>4 DEF Prepare

LEMMA StartFailsKeeps ==
  ASSUME ExecInv, StartFails
  PROVE  ExecInv'
<1>1. job.phase = "start"
  BY DEF StartFails, In
<1> QED BY <1>1, DropKeeps, FailMoves DEF StartFails

\* The terminal's session changes.
LEMMA SessionMoves ==
  ASSUME ExecInv, NEW s \in SessionRows, sessions' = s, UNCHANGED <<agentVars, leaseVars, ended>>,
         job.phase # "idle",
         \/ UNCHANGED job /\ job.phase \notin {"prepare", "start"}
         \/ job.phase = "start" /\ To("turn"),
         s.stored <= job.no, s.ref <= job.no, s.live <= job.no,
         s.ref # 0 => s.ref # s.unfit, s.live # 0 => s.live # s.unfit
  PROVE  ExecInv'
<1>1. /\ job' \in JobRows /\ job'.no = job.no /\ job'.id = job.id /\ job'.engine = job.engine
      /\ job'.marks = job.marks /\ job'.broken = job.broken /\ job'.phase \notin {"prepare", "start"}
      /\ job'.phase = job.phase \/ (job.phase = "start" /\ job'.phase = "turn")
  <2>1. CASE UNCHANGED job /\ job.phase \notin {"prepare", "start"}
    BY <2>1, JobAt
  <2>2. CASE job.phase = "start" /\ To("turn")
    BY <2>2, JobGoes DEF ExecPhases
  <2> QED BY <2>1, <2>2
<1>2. ExecTyped'
  BY <1>1 DEF ExecInv, ExecTyped, agentVars, leaseVars
<1>3. PhasesFit' /\ ScreenStands' /\ VerdictsStand'
  BY <1>1 DEF ExecInv, PhasesFit, ScreenStands, VerdictsStand, Completed, agentVars
<1>4. OnTheWay'
  BY <1>1 DEF ExecInv, OnTheWay, Passed, Completed, Asked, Reviewed, agentVars
<1>5. CancelledWereWithdrawn' /\ Patience' /\ SessionsStand'
  BY <1>1 DEF ExecInv, CancelledWereWithdrawn, Patience, SessionsStand, agentVars, leaseVars
<1>6. ended' = NotEnded /\ ReviewedOnce'
  BY DEF ExecInv, ReviewedOnce, agentVars
<1>7. SubmittedPassed' /\ DroppedWasWithdrawn' /\ RefsAreFresh'
  BY <1>6 DEF NotEnded, SubmittedPassed, DroppedWasWithdrawn, RefsAreFresh
<1> QED BY <1>2, <1>3, <1>4, <1>5, <1>6, <1>7 DEF ExecInv

LEMMA StartKeeps ==
  ASSUME ExecInv, StartFresh \/ Resume
  PROVE  ExecInv'
<1>1. /\ job.phase = "start" /\ To("turn") /\ UNCHANGED <<agentVars, leaseVars, ended>>
  BY DEF StartFresh, Resume, In
<1>2. /\ sessions \in SessionRows /\ sessions.stored < job.no /\ sessions.unfit = 0 /\ job.no \in Nat
      /\ sessions.stored \in Nat
  BY <1>1, JobAt DEF ExecInv, ExecTyped, SessionsStand, SessionRows
<1>3. CASE StartFresh
  <2> PICK s : s = [sessions EXCEPT !.ref = 0, !.live = job.no, !.unfit = sessions.stored]
    OBVIOUS
  <2>1. s \in SessionRows /\ s.stored = sessions.stored /\ s.ref = 0 /\ s.live = job.no /\ s.unfit = sessions.stored
    BY <1>2 DEF SessionRows
  <2>2. sessions' = s
    BY <1>3 DEF StartFresh, FreshRef
  <2>3. /\ s.stored <= job.no /\ s.ref <= job.no /\ s.live <= job.no
        /\ (s.ref # 0 => s.ref # s.unfit) /\ (s.live # 0 => s.live # s.unfit)
    BY <1>2, <2>1
  <2> QED BY <1>1, <2>1, <2>2, <2>3, SessionMoves
<1>4. CASE Resume
  <2> PICK alive \in {sessions.stored, job.no} :
         sessions' = [sessions EXCEPT !.ref = sessions.stored, !.live = alive]
    BY <1>4 DEF Resume
  <2> PICK s : s = [sessions EXCEPT !.ref = sessions.stored, !.live = alive]
    OBVIOUS
  <2>1. /\ s \in SessionRows /\ s.stored = sessions.stored /\ s.ref = sessions.stored /\ s.live = alive
        /\ s.unfit = 0
    BY <1>2 DEF SessionRows
  <2>2. /\ s.stored <= job.no /\ s.ref <= job.no /\ s.live <= job.no
        /\ (s.ref # 0 => s.ref # s.unfit) /\ (s.live # 0 => s.live # s.unfit)
    BY <1>2, <2>1
  <2>3. sessions' = s
    OBVIOUS
  <2> QED BY <1>1, <2>1, <2>2, <2>3, SessionMoves
<1> QED BY <1>3, <1>4

LEMMA SeeSessionKeeps ==
  ASSUME ExecInv, SeeSession
  PROVE  ExecInv'
<1>1. job.phase \notin {"idle", "prepare", "start"} /\ UNCHANGED <<job, agentVars, leaseVars, ended>>
  BY DEF SeeSession
<1>2. /\ sessions \in SessionRows /\ sessions.stored \in Nat /\ sessions.live \in Nat /\ job.no \in Nat
  BY JobAt DEF ExecInv, ExecTyped, SessionRows
<1> PICK stored \in {sessions.stored, sessions.live} : sessions' = [sessions EXCEPT !.ref = sessions.live, !.stored = stored]
  BY <1>2 DEF SeeSession, SessionRows
<1> PICK s : s = [sessions EXCEPT !.ref = sessions.live, !.stored = stored]
  OBVIOUS
<1>3. s \in SessionRows /\ s.stored = stored /\ s.ref = sessions.live /\ s.live = sessions.live /\ s.unfit = sessions.unfit
  BY <1>2 DEF SessionRows
<1>4. /\ s.stored <= job.no /\ s.ref <= job.no /\ s.live <= job.no
      /\ (s.ref # 0 => s.ref # s.unfit) /\ (s.live # 0 => s.live # s.unfit)
  BY <1>2, <1>3 DEF ExecInv, SessionsStand
<1>5. sessions' = s
  OBVIOUS
<1> QED BY <1>1, <1>3, <1>4, <1>5, SessionMoves

--------------------------------------------------------------------------------
(* Turns and their judges *)

\* The agent's variables change within a run.
LEMMA AgentMoves ==
  ASSUME ExecInv, job.phase # "idle", UNCHANGED <<sessions, leaseVars, ended>>,
         job' \in JobRows, job'.no = job.no, job'.id = job.id, job'.phase \notin {"idle", "prepare", "start"},
         screen' \in ScreenRows, work' \in Turns, judged' \in JudgedRows,
         verdict' \in [Turns -> {"none", "pass", "revise", "again"}],
         ScreenStands', PhasesFit', VerdictsStand', OnTheWay', Patience', ReviewedOnce'
  PROVE  ExecInv'
<1>1. ExecTyped'
  BY DEF ExecInv, ExecTyped, leaseVars
<1>2. CancelledWereWithdrawn' /\ SessionsStand'
  BY DEF ExecInv, CancelledWereWithdrawn, SessionsStand, leaseVars
<1>3. ended' = NotEnded
  BY DEF ExecInv
<1>4. SubmittedPassed' /\ DroppedWasWithdrawn' /\ RefsAreFresh'
  BY <1>3 DEF NotEnded, SubmittedPassed, DroppedWasWithdrawn, RefsAreFresh
<1> QED BY <1>1, <1>2, <1>3, <1>4 DEF ExecInv

LEMMA AgentAt ==
  ASSUME ExecInv
  PROVE  /\ screen \in ScreenRows /\ screen.done \in BlockRows /\ screen.ask \in BlockRows /\ screen.last \in {"done", "ask"}
         /\ screen.done.work \in Nat /\ screen.done.marks \in Nat
         /\ work \in Turns /\ work \in Nat /\ judged \in JudgedRows
         /\ verdict \in [Turns -> {"none", "pass", "revise", "again"}] /\ MaxTurns \in Nat
         /\ screen.done.work \in Turns
<1>1. screen \in ScreenRows /\ work \in Turns /\ judged \in JudgedRows /\ MaxTurns \in Nat
  BY ExecutionAssumption DEF ExecInv, ExecTyped
<1>2. screen.done \in BlockRows /\ screen.ask \in BlockRows /\ screen.last \in {"done", "ask"}
  BY <1>1 DEF ScreenRows
<1>3. screen.done.work \in Nat /\ screen.done.marks \in Nat
  BY <1>2 DEF BlockRows
<1>4. screen.done.work <= work
  BY DEF ExecInv, ScreenStands
<1>5. work \in Nat /\ screen.done.work \in Turns
  BY <1>1, <1>3, <1>4 DEF Turns
<1>6. verdict \in [Turns -> {"none", "pass", "revise", "again"}]
  BY DEF ExecInv, ExecTyped
<1> QED BY <1>1, <1>2, <1>3, <1>5, <1>6

LEMMA TurnKeeps ==
  ASSUME ExecInv, Turn
  PROVE  ExecInv'
<1> PICK broken \in BOOLEAN : job' = [job EXCEPT !.phase = "parse", !.broken = broken]
  BY DEF Turn
<1> PICK block : block = [marks |-> job.marks, work |-> work + 1]
  OBVIOUS
<1> PICK n : n = work + 1
  OBVIOUS
<1>1. /\ job.phase = "turn" /\ work < MaxTurns /\ work' = n
      /\ UNCHANGED <<sessions, judged, rejected, verdict, leaseVars, ended>>
  BY DEF Turn, In
<1>2. n \in Turns /\ n \in Nat /\ n > work /\ block \in BlockRows /\ block.marks = job.marks /\ block.work = n
  <2>1. n \in Turns /\ n \in Nat /\ n > work
    BY <1>1, AgentAt DEF Turns
  <2> QED BY <2>1, JobAt DEF BlockRows
<1>3. PICK done \in {block, screen.done}, ask \in {block, screen.ask}, last \in {"done", "ask"} :
        screen' = [done |-> done, ask |-> ask, last |-> last]
  <2> PICK blocks \in Blocks, said \in {"done", "ask"} : screen' = Shown(blocks, said)
    BY DEF Turn
  <2> DEFINE now == [marks |-> job.marks, work |-> work + 1]
  <2>1. screen' = [done |-> IF "done" \in blocks THEN now ELSE screen.done,
                   ask  |-> IF "ask" \in blocks THEN now ELSE screen.ask,
                   last |-> IF blocks = {} THEN screen.last ELSE said]
    BY DEF Shown
  <2>2. now = block
    OBVIOUS
  <2> HIDE DEF now
  <2> QED BY <2>1, <2>2, AgentAt
<1>4. screen' \in ScreenRows /\ screen'.done = done /\ screen'.ask = ask
  BY <1>2, <1>3, AgentAt DEF ScreenRows
<1>5. /\ job' \in JobRows /\ job'.no = job.no /\ job'.id = job.id /\ job'.phase = "parse" /\ job'.engine = job.engine
      /\ job'.marks = job.marks
  BY JobAt DEF JobRows, ExecPhases
<1>6. job.engine = "cli" /\ ScreenStands
  BY <1>1 DEF ExecInv, PhasesFit
<1>7. done.work <= n /\ done.marks <= job.marks
  BY <1>2, <1>6, AgentAt, JobAt DEF ScreenStands
<1>8. ScreenStands' /\ PhasesFit'
  BY <1>1, <1>4, <1>5, <1>6, <1>7 DEF ScreenStands, PhasesFit
<1>9. VerdictsStand'
  <2>1. \A t \in Turns : t > n => verdict[t] = "none"
    BY <1>2, AgentAt DEF ExecInv, VerdictsStand, Turns
  <2>2. verdict[n] = "none"
    BY <1>2 DEF ExecInv, VerdictsStand
  <2>3. screen.done.marks = job.marks => verdict[screen.done.work] = "none"
    BY <1>1, <1>6 DEF ExecInv, VerdictsStand, Completed
  <2>4. done.marks = job.marks => verdict[done.work] = "none"
    BY <1>2, <2>2, <2>3
  <2> QED BY <1>1, <1>4, <1>5, <2>1, <2>4 DEF VerdictsStand, Completed
<1>10. OnTheWay' /\ Patience' /\ ReviewedOnce'
  BY <1>1, <1>5 DEF ExecInv, OnTheWay, Patience, ReviewedOnce
<1> QED BY <1>1, <1>2, <1>4, <1>5, <1>8, <1>9, <1>10, AgentAt, AgentMoves

LEMMA ParseKeeps ==
  ASSUME ExecInv, Parse
  PROVE  ExecInv'
<1>1. job.phase = "parse" /\ job.engine = "cli" /\ UNCHANGED <<sessions, agentVars, leaseVars, ended>>
  BY DEF Parse, In, ExecInv, PhasesFit
<1> PICK phase : phase = IF Completed /\ ~Asked /\ ~job.broken THEN "review"
                         ELSE IF Completed \/ Asked \/ job.broken THEN "settle" ELSE "judge"
  OBVIOUS
<1>2. phase \in {"review", "settle", "judge"} /\ To(phase)
  BY DEF Parse
<1>3. /\ phase = "review" => Completed
      /\ phase = "settle" /\ Completed => job.broken \/ Asked
      /\ phase = "judge" => ~Completed
  OBVIOUS
<1>4. /\ phase \in ExecPhases \ {"idle"} /\ job'.phase = phase /\ job'.engine = job.engine /\ job'.marks = job.marks
      /\ job'.broken = job.broken
  BY <1>2, JobGoes DEF ExecPhases
<1>5. PhasesFit'
  BY <1>1, <1>2, <1>4 DEF PhasesFit
<1>6. /\ Completed' <=> Completed
      /\ Asked' <=> Asked
      /\ Reviewed' = screen.done.work
  BY <1>1, <1>4 DEF Completed, Asked, Reviewed, agentVars
<1>7. Completed => verdict[screen.done.work] = "none"
  BY <1>1 DEF ExecInv, VerdictsStand
<1>8. VerdictsStand'
  BY <1>1, <1>2, <1>3, <1>4, <1>6, <1>7 DEF ExecInv, VerdictsStand, agentVars
<1>9. OnTheWay'
  BY <1>1, <1>2, <1>3, <1>4, <1>6, <1>7 DEF OnTheWay, Passed, agentVars
<1>10. judged.stalled < MaxStalledTurns
  BY <1>1 DEF ExecInv, Patience
<1> QED BY <1>1, <1>2, <1>4, <1>5, <1>8, <1>9, <1>10, PhaseMoves

\* What the judge says, and what the screen says for want of it.
LEMMA JudgementsFit ==
  ASSUME NEW j \in JudgedRows, j.same <= j.stalled, j.stalled <= j.streak, NEW k,
         \/ k \in Judgements(j)
         \/ \E changed \in BOOLEAN : k = ByScreen(j, changed)
         \/ k = [j EXCEPT !.since = 0]
         \/ k = Anew(j)
  PROVE  /\ k \in JudgedRows /\ k.same <= k.stalled /\ k.stalled <= k.streak
         /\ k = [j EXCEPT !.since = 0] \/ k = Anew(j) => k.stalled <= j.stalled
<1>1. j.same \in Nat /\ j.stalled \in Nat /\ j.streak \in Nat /\ j.sig \in Signatures \cup {"none"} /\ j.since \in Nat
  BY DEF JudgedRows
<1>2. CASE k = Progressing(j)
  <2>1. k \in JudgedRows /\ k.same = 0 /\ k.stalled = 0 /\ k.streak = 0
    BY <1>2 DEF Progressing, JudgedRows
  <2> QED BY <1>1, <2>1
<1>3. ASSUME NEW s \in Signatures, k = Stalling(j, s)
      PROVE  k \in JudgedRows /\ k.same <= k.stalled /\ k.stalled <= k.streak
  <2> PICK stalled \in Nat : stalled = IF j.sig = s THEN j.stalled + 1 ELSE 1
    BY <1>1
  <2> PICK streak \in Nat : streak = j.streak + 1
    BY <1>1
  <2> PICK same \in Nat : same = IF j.sig = s /\ j.same > 0 THEN j.same + 1 ELSE 1
    BY <1>1
  <2>1. same <= stalled /\ stalled <= streak
    BY <1>1
  <2> PICK row : row = [j EXCEPT !.since = 0, !.sig = s, !.stalled = stalled, !.streak = streak, !.same = same]
    OBVIOUS
  <2>2. row \in JudgedRows /\ row.same = same /\ row.stalled = stalled /\ row.streak = streak
    BY DEF JudgedRows
  <2>3. k = row
    BY <1>3 DEF Stalling
  <2> QED BY <2>1, <2>2, <2>3
<1>4. ASSUME NEW changed \in BOOLEAN, k = ByScreen(j, changed)
      PROVE  k \in JudgedRows /\ k.same <= k.stalled /\ k.stalled <= k.streak
  <2> PICK stalled \in Nat : stalled = IF changed THEN 0 ELSE j.stalled + 1
    BY <1>1
  <2> PICK streak \in Nat : streak = IF changed THEN 0 ELSE j.streak + 1
    BY <1>1
  <2>1. 0 <= stalled /\ stalled <= streak
    BY <1>1
  <2> PICK row : row = [j EXCEPT !.since = 0, !.same = 0, !.stalled = stalled, !.streak = streak]
    OBVIOUS
  <2>2. row \in JudgedRows /\ row.same = 0 /\ row.stalled = stalled /\ row.streak = streak
    BY DEF JudgedRows
  <2>3. k = row
    BY <1>4 DEF ByScreen
  <2> QED BY <2>1, <2>2, <2>3
<1>5. CASE k = [j EXCEPT !.since = 0]
  <2>1. k \in JudgedRows /\ k.same = j.same /\ k.stalled = j.stalled /\ k.streak = j.streak
    BY <1>5 DEF JudgedRows
  <2> QED BY <1>1, <2>1
<1>6. CASE k = Anew(j) /\ job.engine = "cli"
  <2> PICK p : p = Progressing(j)
    OBVIOUS
  <2>1. p \in JudgedRows /\ p.same = 0 /\ p.stalled = 0 /\ p.streak = 0
    BY DEF Progressing, JudgedRows
  <2>2. k = [p EXCEPT !.since = j.since]
    BY <1>6 DEF Anew
  <2>3. k \in JudgedRows /\ k.same = 0 /\ k.stalled = 0 /\ k.streak = 0
    BY <1>1, <2>1, <2>2 DEF JudgedRows
  <2> QED BY <1>1, <2>3
<1>7. CASE k = Anew(j) /\ job.engine # "cli"
  BY <1>1, <1>7 DEF Anew
<1> QED BY <1>1, <1>2, <1>3, <1>4, <1>5, <1>6, <1>7 DEF Judgements

LEMMA JudgedAt ==
  ASSUME ExecInv
  PROVE  judged \in JudgedRows /\ judged.same <= judged.stalled /\ judged.stalled <= judged.streak /\ judged.stalled \in Nat
BY DEF ExecInv, ExecTyped, Patience, JudgedRows

LEMMA JudgeKeeps ==
  ASSUME ExecInv, Judge
  PROVE  ExecInv'
<1>1. /\ job.phase = "judge" /\ UNCHANGED <<sessions, screen, work, rejected, verdict, leaseVars, ended>>
      /\ job.engine \in {"cli", "builtin"} /\ judged.stalled < MaxStalledTurns
  BY DEF Judge, In, ExecInv, PhasesFit, Patience
<1> PICK on \in {"turn", "think"} : on = GoOn
  BY DEF GoOn
<1>2. (on = "turn" => job.engine = "cli") /\ (on = "think" => job.engine = "builtin")
  BY <1>1 DEF GoOn
<1>3. PICK phase \in {"hopeless", "turn", "think"} :
        /\ To(phase) /\ phase \in {"hopeless", on}
        /\ judged' \in JudgedRows /\ judged'.same <= judged'.stalled /\ judged'.stalled <= judged'.streak
        /\ phase # "hopeless" => judged'.stalled < MaxStalledTurns
  <2>1. CASE /\ judged' = [judged EXCEPT !.since = @ + 1]
             /\ To(on)
    <3> PICK n \in Nat : n = judged.since + 1
      BY JudgedAt DEF JudgedRows
    <3>1. judged' = [judged EXCEPT !.since = n]
      BY <2>1
    <3>2. /\ judged' \in JudgedRows /\ judged'.same = judged.same /\ judged'.stalled = judged.stalled
          /\ judged'.streak = judged.streak
      BY <3>1, JudgedAt DEF JudgedRows
    <3> QED BY <1>1, <2>1, <3>2, JudgedAt
  <2>2. CASE /\ \/ judged' \in Judgements(judged)
                \/ \E changed \in BOOLEAN : judged' = ByScreen(judged, changed)
                \/ judged' = [judged EXCEPT !.since = 0]
             /\ To(IF judged'.stalled >= MaxStalledTurns THEN "hopeless" ELSE on)
    <3> PICK k : k = judged'
      OBVIOUS
    <3> PICK j : j = judged
      OBVIOUS
    <3>1. k \in JudgedRows /\ k.same <= k.stalled /\ k.stalled <= k.streak
      BY <2>2, JudgedAt, JudgementsFit
    <3>2. k.stalled \in Nat /\ MaxStalledTurns \in Nat
      BY <3>1, ExecutionAssumption DEF JudgedRows
    <3> PICK phase \in {"hopeless", "turn", "think"} : phase = IF k.stalled >= MaxStalledTurns THEN "hopeless" ELSE on
      OBVIOUS
    <3>3. phase # "hopeless" => k.stalled < MaxStalledTurns
      BY <3>2
    <3> QED BY <2>2, <3>1, <3>3
  <2> QED BY <2>1, <2>2 DEF Judge
<1>4. /\ job' \in JobRows /\ job'.phase = phase /\ job'.no = job.no /\ job'.id = job.id /\ job'.engine = job.engine
      /\ job'.marks = job.marks /\ job'.broken = job.broken
  BY <1>3, JobGoes DEF ExecPhases
<1>5. PhasesFit' /\ ScreenStands'
  BY <1>1, <1>2, <1>3, <1>4 DEF PhasesFit, ScreenStands, ExecInv
<1>6. VerdictsStand'
  BY <1>1, <1>2, <1>3, <1>4 DEF VerdictsStand, Completed, ExecInv
<1>7. OnTheWay' /\ Patience' /\ ReviewedOnce'
  BY <1>1, <1>3, <1>4 DEF OnTheWay, Patience, ReviewedOnce, ExecInv
<1> QED BY <1>1, <1>3, <1>4, <1>5, <1>6, <1>7, AgentAt, AgentMoves

--------------------------------------------------------------------------------
(* Reviews *)

LEMMA GiveUpAgentKeeps ==
  ASSUME ExecInv, GiveUpAgent
  PROVE  ExecInv'
<1>1. job.phase = "hopeless"
  BY DEF GiveUpAgent, In
<1> QED BY <1>1, DropKeeps, FailMoves DEF GiveUpAgent

LEMMA ReviewFailsKeeps ==
  ASSUME ExecInv, ReviewFails
  PROVE  ExecInv'
<1>1. job.phase = "review"
  BY DEF ReviewFails, In
<1> QED BY <1>1, FailMoves DEF ReviewFails

\* What is under review has no verdict, and later turns have none.
LEMMA UnderReview ==
  ASSUME ExecInv, job.phase = "review"
  PROVE  /\ Reviewed \in Turns /\ Reviewed <= work /\ verdict[Reviewed] = "none"
         /\ job.engine = "cli" => Reviewed = screen.done.work
         /\ job.engine # "cli" => Reviewed = work /\ job.engine = "builtin"
         /\ judged.stalled < MaxStalledTurns
<1>1. job.engine \in {"cli", "builtin"} /\ judged.stalled < MaxStalledTurns
  BY DEF ExecInv, PhasesFit, Patience
<1>2. CASE job.engine = "cli"
  BY <1>1, <1>2, AgentAt DEF ExecInv, VerdictsStand, ScreenStands, Reviewed
<1>3. CASE job.engine = "builtin"
  BY <1>1, <1>3, AgentAt DEF ExecInv, VerdictsStand, Reviewed
<1> QED BY <1>1, <1>2, <1>3

LEMMA PassKeeps ==
  ASSUME ExecInv, Pass
  PROVE  ExecInv'
<1> PICK n \in Turns : n = Reviewed
  BY UnderReview DEF Pass, In
<1> PICK phase \in {"settle", "upload"} : phase = IF job.engine = "cli" THEN "settle" ELSE "upload"
  OBVIOUS
<1>1. /\ job.phase = "review" /\ To(phase)
      /\ UNCHANGED <<sessions, screen, work, judged, rejected, leaseVars, ended>>
  BY DEF Pass, In
<1>2. /\ n <= work /\ verdict[n] = "none" /\ (job.engine = "cli" => n = screen.done.work)
      /\ (job.engine # "cli" => n = work /\ job.engine = "builtin") /\ judged.stalled < MaxStalledTurns
  BY <1>1, UnderReview
<1>3. verdict' = [verdict EXCEPT ![n] = "pass"]
  BY <1>2 DEF Pass
<1>4. /\ verdict' \in [Turns -> {"none", "pass", "revise", "again"}] /\ verdict'[n] = "pass"
      /\ \A t \in Turns : t # n => verdict'[t] = verdict[t]
  BY <1>3, AgentAt
<1>5. /\ job' \in JobRows /\ job'.phase = phase /\ job'.no = job.no /\ job'.id = job.id /\ job'.engine = job.engine
      /\ job'.marks = job.marks /\ job'.broken = job.broken
  BY <1>1, JobGoes DEF ExecPhases
<1>6. PhasesFit' /\ ScreenStands'
  BY <1>1, <1>5 DEF ExecInv, PhasesFit, ScreenStands
<1>7. VerdictsStand'
  <2>1. \A t \in Turns : t > work => t # n /\ verdict[t] = "none"
    BY <1>2, AgentAt DEF ExecInv, VerdictsStand, Turns
  <2> QED BY <1>1, <1>4, <1>5, <2>1 DEF VerdictsStand
<1>8. OnTheWay'
  BY <1>1, <1>2, <1>4, <1>5 DEF OnTheWay, Passed, Reviewed
<1>9. Patience'
  BY <1>1, <1>2 DEF ExecInv, Patience
<1>10. ReviewedOnce'
  BY <1>4 DEF ExecInv, ReviewedOnce
<1> QED BY <1>1, <1>4, <1>5, <1>6, <1>7, <1>8, <1>9, <1>10, AgentAt, AgentMoves

LEMMA RejectKeeps ==
  ASSUME ExecInv, NEW s \in Signatures, Reject(s)
  PROVE  ExecInv'
<1> PICK n \in Turns : n = Reviewed
  BY UnderReview DEF Reject, In
<1> PICK on \in {"turn", "think"} : on = GoOn
  BY DEF GoOn
<1> PICK marks \in Nat : marks = job.marks + 1
  BY JobAt
<1> PICK phase \in {"hopeless", on} : job' = [job EXCEPT !.phase = phase, !.marks = marks]
  BY DEF Reject, NewCompletionMarks
<1>1. /\ job.phase = "review" /\ judged' = Anew(judged)
      /\ UNCHANGED <<sessions, screen, work, leaseVars, ended>>
  BY DEF Reject, In
<1>2. /\ n <= work /\ verdict[n] = "none" /\ judged.stalled < MaxStalledTurns
      /\ (on = "turn" => job.engine = "cli") /\ (on = "think" => job.engine = "builtin")
  BY <1>1, UnderReview DEF GoOn
<1>3. verdict' = [verdict EXCEPT ![n] = "revise"]
  BY <1>2 DEF Reject
<1>4. /\ verdict' \in [Turns -> {"none", "pass", "revise", "again"}] /\ verdict'[n] = "revise"
      /\ \A t \in Turns : t # n => verdict'[t] = verdict[t]
  BY <1>3, AgentAt
<1>5. /\ job' \in JobRows /\ job'.phase = phase /\ job'.no = job.no /\ job'.id = job.id /\ job'.engine = job.engine
      /\ job'.marks = marks
  BY JobAt DEF JobRows, ExecPhases
<1>6. judged' \in JudgedRows /\ judged'.same <= judged'.stalled /\ judged'.stalled <= judged'.streak
      /\ judged'.stalled < MaxStalledTurns
  <2> PICK j : j = judged
    OBVIOUS
  <2> PICK k : k = judged'
    OBVIOUS
  <2>1. /\ k \in JudgedRows /\ k.same <= k.stalled /\ k.stalled <= k.streak /\ k.stalled <= j.stalled
    BY <1>1, JudgedAt, JudgementsFit
  <2>2. k.stalled \in Nat /\ j.stalled \in Nat /\ MaxStalledTurns \in Nat
    BY <2>1, JudgedAt, ExecutionAssumption DEF JudgedRows
  <2> QED BY <1>2, <2>1, <2>2
<1>7. screen.done.marks < marks
  BY JobAt, AgentAt DEF ExecInv, ScreenStands
<1>8. PhasesFit'
  BY <1>2, <1>5 DEF PhasesFit
<1>9. ScreenStands'
  BY <1>1, <1>5, <1>7, AgentAt DEF ExecInv, ScreenStands
<1>10. VerdictsStand'
  <2>1. \A t \in Turns : t > work => t # n /\ verdict[t] = "none"
    BY <1>2, AgentAt DEF ExecInv, VerdictsStand, Turns
  <2>2. ~Completed'
    BY <1>1, <1>5, <1>7, AgentAt DEF Completed
  <2> QED BY <1>1, <1>4, <1>5, <2>1, <2>2 DEF VerdictsStand
<1>11. OnTheWay'
  BY <1>5 DEF OnTheWay
<1>12. Patience'
  BY <1>6 DEF Patience
<1>13. ReviewedOnce'
  BY <1>4 DEF ExecInv, ReviewedOnce
<1> QED BY <1>1, <1>4, <1>5, <1>6, <1>8, <1>9, <1>10, <1>11, <1>12, <1>13, AgentAt, AgentMoves

--------------------------------------------------------------------------------
(* Delivering *)

\* A step on the way to the delivery.
LEMMA DeliveryMoves ==
  ASSUME ExecInv, NEW phase \in {"ask", "collect", "upload", "submit"}, To(phase),
         job.phase \in {"settle", "collect", "upload", "command"},
         phase = "ask" => job.phase = "settle",
         phase = "collect" => \/ job.phase = "settle" /\ Completed
                              \/ job.engine = "command",
         phase \in {"upload", "submit"} => job.phase \in {"collect", "upload", "command"},
         job.phase = "command" => job.engine = "command",
         UNCHANGED <<sessions, agentVars, leaseVars, ended>>
  PROVE  ExecInv'
<1>1. /\ job'.phase = phase /\ job'.engine = job.engine /\ job'.marks = job.marks /\ job'.broken = job.broken
      /\ phase \in ExecPhases \ {"idle"}
  BY JobGoes DEF ExecPhases
<1>2. PhasesFit'
  BY <1>1 DEF ExecInv, PhasesFit
<1>3. VerdictsStand'
  BY <1>1 DEF ExecInv, VerdictsStand, agentVars
<1>4. (Asked' <=> Asked) /\ Reviewed' = Reviewed
  BY <1>1 DEF Asked, Reviewed, agentVars
<1>5. OnTheWay'
  BY <1>1, <1>4 DEF ExecInv, PhasesFit, OnTheWay, Passed, agentVars
<1>6. judged.stalled < MaxStalledTurns
  BY DEF ExecInv, Patience
<1> QED BY <1>1, <1>2, <1>3, <1>5, <1>6, PhaseMoves

LEMMA SettleKeeps ==
  ASSUME ExecInv, Settle
  PROVE  ExecInv'
<1> PICK phase \in {"ask", "collect", "fail"} :
      phase = IF Asked /\ (~Completed \/ screen.last = "ask") THEN "ask" ELSE IF Completed THEN "collect" ELSE "fail"
  OBVIOUS
<1>1. job.phase = "settle" /\ (phase = "collect" => Completed)
  BY DEF Settle, In
<1>2. Drop \/ (To(phase) /\ UNCHANGED <<sessions, agentVars, leaseVars, ended>>)
  BY DEF Settle
<1> QED BY <1>1, <1>2, DropKeeps, FailMoves, DeliveryMoves

LEMMA CollectKeeps ==
  ASSUME ExecInv, Collect
  PROVE  ExecInv'
<1> PICK phase \in {"fail", "submit", "upload"} : To(phase)
  BY DEF Collect
<1>1. job.phase = "collect" /\ UNCHANGED <<sessions, agentVars, leaseVars, ended>>
  BY DEF Collect, In
<1> QED BY <1>1, FailMoves, DeliveryMoves

LEMMA UploadKeeps ==
  ASSUME ExecInv, Upload
  PROVE  ExecInv'
<1> PICK phase \in {"collect", "submit"} : phase = IF job.engine = "command" THEN "collect" ELSE "submit"
  OBVIOUS
<1>1. job.phase = "upload" /\ (phase = "collect" => job.engine = "command")
  BY DEF Upload, In
<1>2. Drop \/ (To(phase) /\ UNCHANGED <<sessions, agentVars, leaseVars, ended>>)
  BY DEF Upload
<1> QED BY <1>1, <1>2, DropKeeps, DeliveryMoves

LEMMA SubmitKeeps ==
  ASSUME ExecInv, Submit
  PROVE  ExecInv'
<1>1. job.phase = "submit"
  BY DEF Submit, In
<1>2. CASE To("fail") /\ UNCHANGED <<sessions, agentVars, leaseVars, ended>>
  BY <1>1, <1>2, FailMoves
<1>3. CASE End("submitted", Delivered, job.broken \/ Asked)
  <2> PICK delivery : delivery = Delivered
    OBVIOUS
  <2> PICK odd : odd = (job.broken \/ Asked)
    OBVIOUS
  <2>1. End("submitted", delivery, odd)
    BY <1>3
  <2>2. delivery > 0 => verdict[delivery] = "pass" \/ (odd /\ verdict[delivery] = "none")
    <3>1. CASE job.engine = "command"
      <4>1. delivery = 0
        BY <3>1 DEF Delivered
      <4> QED BY <4>1
    <3>2. CASE job.engine = "cli"
      <4>1. delivery = Reviewed /\ Passed
        BY <1>1, <3>2 DEF Delivered, ExecInv, OnTheWay
      <4> QED BY <4>1 DEF Passed
    <3>3. CASE job.engine = "builtin"
      <4>1. delivery = work /\ verdict[work] = "pass"
        BY <1>1, <3>3 DEF Delivered, Reviewed, ExecInv, OnTheWay
      <4> QED BY <4>1
    <3> QED BY <3>1, <3>2, <3>3, JobAt
  <2> QED BY <2>1, <2>2, EndKeeps
<1> QED BY <1>2, <1>3 DEF Submit

LEMMA RequestInputKeeps ==
  ASSUME ExecInv, RequestInput
  PROVE  ExecInv'
<1>1. job.phase = "ask" /\ job.engine \in {"cli", "builtin"} /\ judged.stalled < MaxStalledTurns
  BY DEF RequestInput, In, ExecInv, PhasesFit, Patience
<1>2. CASE End("asked", 0, FALSE)
  BY <1>2, EndKeeps
<1> PICK phase \in {"fail", "judge"} : phase = IF job.engine = "cli" THEN "fail" ELSE "judge"
  OBVIOUS
<1>3. CASE To(phase) /\ UNCHANGED <<sessions, agentVars, leaseVars, ended>>
  <2>1. phase = "judge" => job.engine = "builtin"
    BY <1>1
  <2> QED BY <1>1, <1>3, <2>1, FailMoves, WorkMoves
<1> QED BY <1>2, <1>3 DEF RequestInput

--------------------------------------------------------------------------------
(* The built-in agent and the command *)

LEMMA ThinkKeeps ==
  ASSUME ExecInv, Think
  PROVE  ExecInv'
<1> PICK n : n = work + 1
  OBVIOUS
<1>1. /\ job.phase = "think" /\ job.engine = "builtin" /\ work < MaxTurns /\ work' = n
      /\ UNCHANGED <<sessions, screen, rejected, verdict, leaseVars, ended>> /\ judged.stalled < MaxStalledTurns
  BY DEF Think, In, ExecInv, PhasesFit, Patience
<1>2. n \in Turns /\ n \in Nat /\ n > work
  BY <1>1, AgentAt DEF Turns
<1> PICK silent \in Nat : judged' = [judged EXCEPT !.silent = silent]
  <2>1. judged.silent \in Nat
    BY JudgedAt DEF JudgedRows
  <2> QED BY <2>1 DEF Think
<1> PICK phase \in {"judge", "think", "review", "ask", "fail"} : To(phase)
  BY DEF Think
<1>3. /\ judged' \in JudgedRows /\ judged'.same = judged.same /\ judged'.stalled = judged.stalled
      /\ judged'.streak = judged.streak
  BY JudgedAt DEF JudgedRows
<1>4. /\ job' \in JobRows /\ job'.phase = phase /\ job'.no = job.no /\ job'.id = job.id /\ job'.engine = job.engine
      /\ job'.marks = job.marks
  BY JobGoes DEF ExecPhases
<1>5. PhasesFit' /\ OnTheWay'
  BY <1>1, <1>4 DEF PhasesFit, OnTheWay
<1>6. ScreenStands'
  BY <1>1, <1>2, <1>4, AgentAt DEF ExecInv, ScreenStands
<1>7. VerdictsStand'
  <2>1. \A t \in Turns : t > n => verdict[t] = "none"
    BY <1>2, AgentAt DEF ExecInv, VerdictsStand, Turns
  <2>2. verdict[n] = "none"
    BY <1>2 DEF ExecInv, VerdictsStand
  <2> QED BY <1>1, <1>4, <2>1, <2>2 DEF VerdictsStand
<1>8. Patience' /\ ReviewedOnce'
  BY <1>1, <1>3 DEF ExecInv, Patience, ReviewedOnce
<1> QED BY <1>1, <1>2, <1>3, <1>4, <1>5, <1>6, <1>7, <1>8, AgentAt, AgentMoves

LEMMA ThinkFailsKeeps ==
  ASSUME ExecInv, ThinkFails
  PROVE  ExecInv'
<1>1. job.phase = "think"
  BY DEF ThinkFails, In
<1> QED BY <1>1, DropKeeps, FailMoves DEF ThinkFails

LEMMA RunCommandKeeps ==
  ASSUME ExecInv, RunCommand
  PROVE  ExecInv'
<1>1. job.phase = "command"
  BY DEF RunCommand, In
<1>2. CASE To("upload") /\ UNCHANGED <<sessions, agentVars, leaseVars, ended>>
  BY <1>1, <1>2, DeliveryMoves DEF ExecInv, PhasesFit
<1> QED BY <1>1, <1>2, DropKeeps, FailMoves DEF RunCommand

--------------------------------------------------------------------------------
(* The next run, and the theorem *)

LEMMA TakeKeeps ==
  ASSUME ExecInv, NEW id \in RunIds, NEW engine \in Engines, Take(id, engine)
  PROVE  ExecInv'
<1> PICK n \in Nat : n = job.no + 1
  BY JobAt
<1>1. /\ job' = [no |-> n, id |-> id, engine |-> engine, phase |-> "prepare", marks |-> 1, broken |-> FALSE]
      /\ engine \in {"cli", "builtin", "command"}
  BY ExecutionAssumption DEF Take
<1>2. job' \in JobRows /\ job'.no = n /\ job'.phase = "prepare" /\ job'.marks = 1 /\ job'.id = id
  BY <1>1 DEF JobRows, ExecPhases
<1>3. /\ sessions \in SessionRows /\ sessions.stored <= job.no /\ sessions.stored \in Nat
      /\ sessions' = [sessions EXCEPT !.ref = sessions.stored, !.live = 0, !.unfit = 0]
  BY DEF Take, ExecInv, ExecTyped, SessionsStand, SessionRows
<1>4. /\ sessions' \in SessionRows /\ sessions'.stored = sessions.stored /\ sessions'.ref = sessions.stored
      /\ sessions'.live = 0 /\ sessions'.unfit = 0
  BY <1>3 DEF SessionRows
<1>5. /\ screen' = Blank /\ work' = 0 /\ judged' = Unjudged /\ verdict' = [t \in Turns |-> "none"]
      /\ ~killed' /\ ended' = NotEnded /\ late' = late /\ withdrawn' = [withdrawn EXCEPT !.now = FALSE]
  BY DEF Take
<1>6. /\ screen' \in ScreenRows /\ screen'.done.work = 0 /\ screen'.done.marks = 0
  BY <1>5 DEF Blank, NoBlock, ScreenRows, BlockRows
<1>7. /\ judged' \in JudgedRows /\ judged'.same = 0 /\ judged'.stalled = 0 /\ judged'.streak = 0
  BY <1>5 DEF Unjudged, JudgedRows
<1>8. /\ withdrawn' \in [ids : SUBSET (RunIds \cup {0}), now : BOOLEAN] /\ withdrawn'.ids = withdrawn.ids
  BY <1>5 DEF ExecInv, ExecTyped
<1>9. ExecTyped'
  <2>1. work' \in Turns
    BY <1>5, ExecutionAssumption DEF Turns
  <2>2. verdict' \in [Turns -> {"none", "pass", "revise", "again"}]
    BY <1>5
  <2> QED BY <1>2, <1>4, <1>6, <1>7, <1>8, <2>1, <2>2 DEF ExecTyped
<1>10. PhasesFit' /\ OnTheWay'
  BY <1>2 DEF PhasesFit, OnTheWay
<1>11. ScreenStands'
  BY <1>2, <1>5, <1>6 DEF ScreenStands
<1>12. VerdictsStand'
  BY <1>2, <1>5, <1>6 DEF VerdictsStand, Completed
<1>13. CancelledWereWithdrawn'
  BY <1>5, <1>8 DEF ExecInv, CancelledWereWithdrawn
<1>14. Patience'
  BY <1>2, <1>7, ExecutionAssumption DEF Patience
<1>15. SessionsStand'
  BY <1>2, <1>3, <1>4, JobAt DEF SessionsStand
<1>16. SubmittedPassed' /\ DroppedWasWithdrawn' /\ RefsAreFresh'
  BY <1>5 DEF NotEnded, SubmittedPassed, DroppedWasWithdrawn, RefsAreFresh
<1>17. ReviewedOnce'
  BY <1>5 DEF ReviewedOnce
<1> QED BY <1>5, <1>9, <1>10, <1>11, <1>12, <1>13, <1>14, <1>15, <1>16, <1>17 DEF ExecInv

LEMMA ExecutionStep ==
  ASSUME ExecInv, [ExecutionNext]_executionVars
  PROVE  ExecInv'
<1>1. CASE UNCHANGED executionVars
  BY <1>1 DEF executionVars, ExecInv, ExecTyped, PhasesFit, ScreenStands, VerdictsStand, OnTheWay, Passed, Completed, Asked,
     Reviewed, CancelledWereWithdrawn, Patience, SessionsStand, ReviewedOnce, SubmittedPassed, DroppedWasWithdrawn, RefsAreFresh
<1>2. CASE ExecutionNext
  BY <1>2, TakeKeeps, LeaseKeeps, PrepareKeeps, StartKeeps, StartFailsKeeps, SeeSessionKeeps, TurnKeeps, ParseKeeps,
     JudgeKeeps, GiveUpAgentKeeps, PassKeeps, RejectKeeps, ReviewFailsKeeps, SettleKeeps, CollectKeeps, UploadKeeps,
     SubmitKeeps, RequestInputKeeps, FailTaskKeeps, ThinkKeeps, ThinkFailsKeeps, RunCommandKeeps
  DEF ExecutionNext
<1> QED BY <1>1, <1>2

\* A worker's run is reviewed at most once per delivery, what an agent submits passed its
\* review, a run is dropped only when its lease was taken back, an agent is given up only
\* after as many findings in a row as the judge has patience for, and no session that did
\* not fit is reported as the run's own: the worker's case of WorkIsHonest.
THEOREM ExecutionHonest == ExecutionSpec => []ExecutionIsHonest
<1>1. ExecutionInit => ExecInv
  BY ExecInitial
<1>2. ExecInv /\ [ExecutionNext]_executionVars => ExecInv'
  BY ExecutionStep
<1>3. ExecInv => ExecutionIsHonest
  <2> SUFFICES ASSUME ExecInv PROVE PatienceIsExact
    BY DEF ExecInv, ExecutionIsHonest
  <2>1. judged.same \in Nat /\ judged.stalled \in Nat /\ MaxStalledTurns \in Nat
    BY JudgedAt, ExecutionAssumption DEF JudgedRows
  <2>2. job.phase \in {"turn", "think"} => judged.stalled < MaxStalledTurns
    BY DEF ExecInv, Patience
  <2> QED BY <2>1, <2>2, JudgedAt DEF PatienceIsExact
<1> QED BY <1>1, <1>2, <1>3, PTL DEF ExecutionSpec

--------------------------------------------------------------------------------
(* A worker's link: the hub's connection is the newest one that has not left, and   *)
(* a signal is somewhere from the moment it is owed until the worker has taken it.  *)

LineRows   == [handler : HandlerStages, old : 0..MaxLines, up : BOOLEAN, carries : SUBSET Signals]
ClientRows == [reads : 0..MaxLines, wake : BOOLEAN, cancels : SUBSET QueuedRuns,
               loop : {"asking", "told", "waiting", "held", "working"}, run : 0..MaxQueued, killed : BOOLEAN]
PushRows   == [at : {"idle", "committed", "taken"}, signal : Signals, to : 0..MaxLines]
HeardRows  == [latest : 0..MaxLines, replaced : SUBSET Lines, announced : SUBSET Lines,
               lost : SUBSET Signals, stops : 0..MaxStops]
RunStates  == {"absent", "queued", "claimed", "cancelled", "ended"}

LinkTyped ==
  /\ line \in [Lines -> LineRows]
  /\ hub \in 0..MaxLines
  /\ client \in ClientRows
  /\ runs \in [QueuedRuns -> RunStates]
  /\ pusher \in [Pushers -> PushRows]
  /\ heard \in HeardRows

Attached == {"replacing", "serving", "leaving"}

\* A connection that was not dialled yet carries nothing; one that replaces another knows it.
LinesStand ==
  /\ \A n \in Lines : line[n].handler = "none" => ~line[n].up /\ line[n].carries = {}
  /\ \A n \in Lines : line[n].handler = "replacing" => line[n].old # 0

\* The hub's connection is the newest, and its handler has not left.
HubStands ==
  /\ hub # 0 => hub = heard.latest /\ line[hub].handler \in Attached
  /\ heard.latest # 0 => \/ line[heard.latest].handler \in Attached /\ hub = heard.latest
                         \/ line[heard.latest].handler \in {"telling", "done"} /\ hub = 0

\* Whoever told that the worker is gone is done; whoever was replaced will not.
TellersStand ==
  /\ \A n \in heard.announced : line[n].handler = "done"
  /\ \A n \in heard.replaced : line[n].handler \notin {"none", "accepted", "telling"} /\ n # hub
  /\ OnlyTheLastTells

LinksInv == LinesStand /\ HubStands /\ TellersStand

\* A signal is under way or known to be lost.
Borne(s) == s \in heard.lost \/ UnderWay(s)

\* A connection is written to after it was taken, and a run is named when it is in hand.
TakersStand ==
  /\ \A p \in Pushers : pusher[p].at = "taken" => pusher[p].to # 0
  /\ client.loop \in {"held", "working"} => client.run # 0

\* Cancellations name cancelled runs.
CancelsMeant == \A r \in QueuedRuns : UnderWay(r) \/ r \in client.cancels => runs[r] = "cancelled"

\* From the answer "nothing to do" on, a wake-up for queued work is somewhere.
WakeStands ==
  client.loop \in {"told", "waiting"} /\ (\E r \in QueuedRuns : runs[r] = "queued") => client.wake \/ Borne(Wake)

\* From the claim on, the cancellation of the run in hand is somewhere.
CancelStands ==
  client.loop \in {"held", "working"} =>
    /\ runs[client.run] = "cancelled" => client.killed \/ client.run \in client.cancels \/ Borne(client.run)
    /\ client.killed => runs[client.run] = "cancelled"

SignalsInv == TakersStand /\ CancelsMeant /\ WakeStands /\ CancelStands

LinkInv == LinkTyped /\ LinksInv /\ SignalsInv

LEMMA LinkInitial == LinkInit => LinkInv
<1> SUFFICES ASSUME LinkInit PROVE LinkInv
  OBVIOUS
<1>1. /\ \A n \in Lines : line[n] = NoLine
      /\ \A p \in Pushers : pusher[p] = NoPush
      /\ hub = 0 /\ heard.latest = 0 /\ heard.replaced = {} /\ heard.announced = {} /\ client.loop = "asking"
      /\ client.cancels = {}
  BY DEF LinkInit
<1>2. LinkTyped
  <2>1. line \in [Lines -> LineRows] /\ pusher \in [Pushers -> PushRows]
    BY LinkAssumption DEF LinkInit, LineRows, PushRows, NoLine, NoPush, HandlerStages, Signals, Wake
  <2>2. hub \in 0..MaxLines /\ client \in ClientRows /\ runs \in [QueuedRuns -> RunStates] /\ heard \in HeardRows
    BY LinkAssumption DEF LinkInit, ClientRows, RunStates, HeardRows
  <2> QED BY <2>1, <2>2 DEF LinkTyped
<1>3. LinksInv
  BY <1>1 DEF LinksInv, LinesStand, HubStands, TellersStand, OnlyTheLastTells, NoLine
<1>4. SignalsInv
  BY <1>1 DEF SignalsInv, TakersStand, CancelsMeant, WakeStands, CancelStands, NoPush, NoLine, UnderWay
<1> QED BY <1>2, <1>3, <1>4 DEF LinkInv

LEMMA LinkAt ==
  ASSUME LinkInv
  PROVE  /\ line \in [Lines -> LineRows] /\ pusher \in [Pushers -> PushRows] /\ runs \in [QueuedRuns -> RunStates]
         /\ client \in ClientRows /\ heard \in HeardRows /\ hub \in 0..MaxLines
         /\ MaxLines \in Nat /\ MaxQueued \in Nat /\ MaxStops \in Nat
         /\ \A n \in 0..MaxLines : n # 0 => n \in Lines
         /\ 0 \notin Lines /\ Wake \notin QueuedRuns /\ Wake \in Signals /\ QueuedRuns \subseteq Signals
<1>1. MaxLines \in Nat /\ MaxQueued \in Nat /\ MaxStops \in Nat
  BY LinkAssumption
<1>2. /\ \A n \in 0..MaxLines : n # 0 => n \in Lines
      /\ 0 \notin Lines /\ Wake \notin QueuedRuns /\ Wake \in Signals /\ QueuedRuns \subseteq Signals
  BY <1>1 DEF Lines, QueuedRuns, Signals, Wake
<1> QED BY <1>1, <1>2 DEF LinkInv, LinkTyped

LEMMA LineAt ==
  ASSUME LinkInv, NEW n \in Lines
  PROVE  /\ line[n] \in LineRows /\ line[n].handler \in HandlerStages /\ line[n].old \in 0..MaxLines
         /\ line[n].up \in BOOLEAN /\ line[n].carries \subseteq Signals
BY LinkAt DEF LineRows

LEMMA HeardAt ==
  ASSUME LinkInv
  PROVE  /\ heard.latest \in 0..MaxLines /\ heard.replaced \subseteq Lines /\ heard.announced \subseteq Lines
         /\ heard.lost \subseteq Signals /\ heard.stops \in 0..MaxStops
BY LinkAt DEF HeardRows

\* A connection's row is replaced.
LEMMA LineSet ==
  ASSUME LinkInv, NEW n \in Lines, NEW row \in LineRows, line' = [line EXCEPT ![n] = row]
  PROVE  line' \in [Lines -> LineRows] /\ line'[n] = row /\ \A m \in Lines : m # n => line'[m] = line[m]
BY LinkAt

--------------------------------------------------------------------------------
(* What keeps the signals *)

\* Signals stay under way or are known to be lost, and none appears.
LEMMA SignalsMove ==
  ASSUME LinkInv, UNCHANGED runs,
         client'.loop = client.loop, client'.run = client.run, client'.killed = client.killed,
         client'.wake = client.wake, client'.cancels = client.cancels,
         \A p \in Pushers : pusher'[p].at = "taken" => pusher'[p].to # 0,
         \A s \in Signals : UnderWay(s)' => UnderWay(s),
         \A s \in Signals : Borne(s) => Borne(s)'
  PROVE  SignalsInv'
<1>1. TakersStand'
  BY DEF LinkInv, SignalsInv, TakersStand
<1>2. CancelsMeant'
  BY LinkAt DEF LinkInv, SignalsInv, CancelsMeant
<1>3. WakeStands'
  BY LinkAt DEF LinkInv, SignalsInv, WakeStands
<1>4. CancelStands'
  <2> SUFFICES ASSUME client.loop \in {"held", "working"}
               PROVE  /\ runs[client.run] = "cancelled" =>
                           client.killed \/ client.run \in client.cancels \/ Borne(client.run)'
                      /\ client.killed => runs[client.run] = "cancelled"
    BY DEF CancelStands
  <2>1. client.run \in QueuedRuns
    BY LinkAt DEF LinkInv, SignalsInv, TakersStand, ClientRows, QueuedRuns
  <2> QED BY <2>1, LinkAt DEF LinkInv, SignalsInv, CancelStands
<1> QED BY <1>1, <1>2, <1>3, <1>4 DEF SignalsInv

\* Connections lose what they carry only to the list of what was lost.
LEMMA LinesCarry ==
  ASSUME UNCHANGED pusher, heard.lost \subseteq heard'.lost,
         \A m \in Lines : /\ line'[m].carries \subseteq line[m].carries
                          /\ line[m].carries \subseteq line'[m].carries \cup heard'.lost
  PROVE  /\ \A s \in Signals : UnderWay(s)' => UnderWay(s)
         /\ \A s \in Signals : Borne(s) => Borne(s)'
BY DEF UnderWay, Borne

LEMMA LinesMove ==
  ASSUME LinkInv, UNCHANGED <<runs, pusher>>,
         client'.loop = client.loop, client'.run = client.run, client'.killed = client.killed,
         client'.wake = client.wake, client'.cancels = client.cancels,
         heard.lost \subseteq heard'.lost,
         \A m \in Lines : /\ line'[m].carries \subseteq line[m].carries
                          /\ line[m].carries \subseteq line'[m].carries \cup heard'.lost,
         line' \in [Lines -> LineRows], hub' \in 0..MaxLines, client' \in ClientRows, heard' \in HeardRows, LinksInv'
  PROVE  LinkInv'
<1>1. LinkTyped'
  BY LinkAt DEF LinkTyped
<1>2. \A p \in Pushers : pusher'[p].at = "taken" => pusher'[p].to # 0
  BY DEF LinkInv, SignalsInv, TakersStand
<1>3. SignalsInv'
  BY <1>2, LinesCarry, SignalsMove
<1> QED BY <1>1, <1>3 DEF LinkInv

--------------------------------------------------------------------------------
(* The hub and its handlers *)

\* One connection's handler goes on.
LEMMA HandlerMoves ==
  ASSUME LinkInv, NEW n \in Lines, NEW row \in LineRows, line' = [line EXCEPT ![n] = row],
         row.up = line[n].up, row.carries = line[n].carries, UNCHANGED <<client, runs, pusher>>,
         hub' \in 0..MaxLines, heard' \in HeardRows, heard'.lost = heard.lost, LinksInv'
  PROVE  LinkInv'
<1>1. line' \in [Lines -> LineRows] /\ line'[n] = row /\ \A m \in Lines : m # n => line'[m] = line[m]
  BY LineSet
<1>2. \A m \in Lines : line'[m].carries = line[m].carries
  BY <1>1
<1> QED BY <1>1, <1>2, LinkAt, LinesMove

LEMMA AttachLineKeeps ==
  ASSUME LinkInv, NEW n \in Lines, AttachLine(n)
  PROVE  LinkInv'
<1> PICK stage \in {"replacing", "serving"} : stage = IF hub # 0 THEN "replacing" ELSE "serving"
  OBVIOUS
<1> PICK row : row = [line[n] EXCEPT !.handler = stage, !.old = hub]
  OBVIOUS
<1>1. /\ row \in LineRows /\ row.handler = stage /\ row.old = hub /\ row.up = line[n].up
      /\ row.carries = line[n].carries
  <2>1. line[n] \in LineRows /\ hub \in 0..MaxLines
    BY LinkAt, LineAt
  <2>2. stage \in HandlerStages
    BY DEF HandlerStages
  <2> QED BY <2>1, <2>2 DEF LineRows
<1>2. line' = [line EXCEPT ![n] = row]
  BY LinkAt DEF AttachLine
<1>3. /\ line[n].handler = "accepted" /\ hub' = n /\ UNCHANGED <<client, runs, pusher>>
      /\ heard' = [heard EXCEPT !.latest = n, !.replaced = @ \cup ({hub} \ {0})]
  BY DEF AttachLine
<1>4. /\ heard' \in HeardRows /\ heard'.latest = n /\ heard'.replaced = heard.replaced \cup ({hub} \ {0})
      /\ heard'.lost = heard.lost /\ heard'.announced = heard.announced
  <2>1. n \in 0..MaxLines /\ heard.replaced \cup ({hub} \ {0}) \subseteq Lines
    BY LinkAt, HeardAt DEF Lines
  <2> QED BY <1>3, <2>1, LinkAt DEF HeardRows
<1>5. /\ line'[n] = row /\ \A m \in Lines : m # n => line'[m] = line[m]
  BY <1>1, <1>2, LineSet
<1>6. hub # 0 => hub \in Lines /\ line[hub].handler \in Attached /\ hub # n
  BY <1>3, LinkAt DEF LinkInv, LinksInv, HubStands, Attached
<1>7. LinesStand'
  BY <1>1, <1>5 DEF LinkInv, LinksInv, LinesStand
<1>8. HubStands'
  BY <1>1, <1>3, <1>4, <1>5 DEF HubStands, Attached
<1>9. TellersStand'
  <2>1. \A m \in heard.announced : m \in Lines /\ m # n /\ line'[m].handler = "done"
    BY <1>3, <1>5, HeardAt DEF LinkInv, LinksInv, TellersStand
  <2>2. \A m \in heard.replaced : m \in Lines /\ m # n /\ line'[m].handler \notin {"none", "accepted", "telling"}
    BY <1>3, <1>5, HeardAt DEF LinkInv, LinksInv, TellersStand
  <2>3. hub # 0 => hub # n /\ line'[hub].handler \notin {"none", "accepted", "telling"}
    BY <1>5, <1>6 DEF Attached
  <2>4. heard.announced \cap heard.replaced = {} /\ (hub # 0 => hub \notin heard.announced)
    BY <1>6, HeardAt DEF LinkInv, LinksInv, TellersStand, OnlyTheLastTells, Attached
  <2> QED BY <1>3, <1>4, <2>1, <2>2, <2>3, <2>4 DEF TellersStand, OnlyTheLastTells
<1>10. LinksInv' /\ hub' \in 0..MaxLines
  BY <1>3, <1>7, <1>8, <1>9, LinkAt DEF LinksInv, Lines
<1> QED BY <1>1, <1>2, <1>3, <1>4, <1>10, HandlerMoves

\* A handler that neither attaches nor detaches goes on, or a link breaks.
LEMMA LinksStay ==
  ASSUME LinkInv, line' \in [Lines -> LineRows], hub' = hub, heard'.latest = heard.latest, heard'.replaced = heard.replaced,
         heard'.announced = heard.announced,
         \A m \in Lines : /\ line'[m].handler = "none" => line[m].handler = "none"
                          /\ line'[m].up => line[m].up
                          /\ line'[m].carries \subseteq line[m].carries
                          /\ line'[m].old = line[m].old \/ line'[m].handler # "replacing"
                          /\ \/ line'[m].handler = line[m].handler
                             \/ line[m].handler = "replacing" /\ line'[m].handler = "serving"
                             \/ line[m].handler = "serving" /\ line'[m].handler = "leaving"
  PROVE  LinksInv'
<1>1. LinesStand'
  BY DEF LinkInv, LinksInv, LinesStand
<1>2. HubStands'
  <2>1. hub # 0 => hub \in Lines
    BY LinkAt
  <2>2. heard.latest # 0 => heard.latest \in Lines
    BY LinkAt, HeardAt
  <2> QED BY <2>1, <2>2 DEF LinkInv, LinksInv, HubStands, Attached
<1>3. TellersStand'
  BY HeardAt DEF LinkInv, LinksInv, TellersStand, OnlyTheLastTells
<1> QED BY <1>1, <1>2, <1>3 DEF LinksInv

\* A link breaks.
LEMMA LineBreaks ==
  ASSUME NEW lines, lines \in [Lines -> LineRows], NEW o \in Lines
  PROVE  /\ Broken(lines, o) \in [Lines -> LineRows]
         /\ \A m \in Lines : /\ Broken(lines, o)[m].handler = lines[m].handler
                             /\ Broken(lines, o)[m].old = lines[m].old
                             /\ Broken(lines, o)[m].up => lines[m].up
                             /\ Broken(lines, o)[m].carries = IF m = o THEN {} ELSE lines[m].carries
<1> PICK row : row = [lines[o] EXCEPT !.up = FALSE, !.carries = {}]
  OBVIOUS
<1>1. lines[o] \in LineRows
  OBVIOUS
<1>2. /\ row \in LineRows /\ row.handler = lines[o].handler /\ row.old = lines[o].old /\ row.up = FALSE
      /\ row.carries = {}
  BY <1>1 DEF LineRows
<1>3. Broken(lines, o) = [lines EXCEPT ![o] = row]
  BY DEF Broken
<1> QED BY <1>2, <1>3

LEMMA LinkBreaksKeeps ==
  ASSUME LinkInv, NEW n \in Lines, LinkBreaks(n)
  PROVE  LinkInv'
<1>1. /\ line' = Broken(line, n) /\ UNCHANGED <<hub, client, runs, pusher>>
      /\ heard' = [heard EXCEPT !.lost = heard.lost \cup line[n].carries]
  BY DEF LinkBreaks, LostWith
<1>2. /\ heard' \in HeardRows /\ heard'.lost = heard.lost \cup line[n].carries /\ heard'.latest = heard.latest
      /\ heard'.replaced = heard.replaced /\ heard'.announced = heard.announced
  BY <1>1, LinkAt, LineAt, HeardAt DEF HeardRows
<1>3. /\ line' \in [Lines -> LineRows]
      /\ \A m \in Lines : /\ line'[m].handler = line[m].handler /\ line'[m].old = line[m].old
                          /\ line'[m].up => line[m].up
                          /\ line'[m].carries = IF m = n THEN {} ELSE line[m].carries
  BY <1>1, LinkAt, LineBreaks
<1>4. \A m \in Lines : line'[m].carries \subseteq line[m].carries /\ line[m].carries \subseteq line'[m].carries \cup heard'.lost
  BY <1>2, <1>3
<1>5. LinksInv'
  BY <1>1, <1>2, <1>3, <1>4, LinksStay
<1> QED BY <1>1, <1>2, <1>3, <1>4, <1>5, LinkAt, LinesMove

LEMMA CloseReplacedKeeps ==
  ASSUME LinkInv, NEW n \in Lines, CloseReplaced(n)
  PROVE  LinkInv'
<1> PICK o : o = line[n].old
  OBVIOUS
<1>1. line[n].handler = "replacing" /\ o \in Lines
  BY LinkAt, LineAt DEF CloseReplaced, LinkInv, LinksInv, LinesStand
<1>2. PICK row \in LineRows :
        /\ row.handler = "serving" /\ row.old = 0 /\ row.up = line[n].up /\ row.carries = line[n].carries
        /\ line' = Broken([line EXCEPT ![n] = row], o)
  <2> DEFINE served == [line[n] EXCEPT !.handler = "serving", !.old = 0]
  <2>1. line[n] \in LineRows /\ 0 \in 0..MaxLines
    BY LinkAt, LineAt
  <2>2. /\ served \in LineRows /\ served.handler = "serving" /\ served.old = 0 /\ served.up = line[n].up
        /\ served.carries = line[n].carries
    BY <2>1 DEF LineRows, HandlerStages
  <2>3. line' = Broken([line EXCEPT ![n] = served], o)
    BY LinkAt DEF CloseReplaced
  <2> HIDE DEF served
  <2> QED BY <2>2, <2>3
<1>3. PICK lines \in [Lines -> LineRows] :
        /\ lines[n] = row /\ \A m \in Lines : m # n => lines[m] = line[m]
        /\ line' = Broken(lines, o)
  BY <1>2, LinkAt
<1>4. /\ UNCHANGED <<hub, client, runs, pusher>>
      /\ heard' = [heard EXCEPT !.lost = heard.lost \cup line[o].carries]
  BY DEF CloseReplaced, LostWith
<1>5. /\ heard' \in HeardRows /\ heard'.lost = heard.lost \cup line[o].carries /\ heard'.latest = heard.latest
      /\ heard'.replaced = heard.replaced /\ heard'.announced = heard.announced
  BY <1>1, <1>4, LinkAt, LineAt, HeardAt DEF HeardRows
<1>6. /\ line' \in [Lines -> LineRows]
      /\ \A m \in Lines : /\ line'[m].handler = lines[m].handler /\ line'[m].old = lines[m].old
                          /\ line'[m].up => lines[m].up
                          /\ line'[m].carries = IF m = o THEN {} ELSE lines[m].carries
  <2>1. line' \in [Lines -> LineRows]
    BY <1>1, <1>3, LineBreaks
  <2>2. \A m \in Lines : line'[m].handler = lines[m].handler /\ line'[m].old = lines[m].old
    BY <1>1, <1>3, LineBreaks
  <2>3. \A m \in Lines : line'[m].up => lines[m].up
    BY <1>1, <1>3, LineBreaks
  <2>4. \A m \in Lines : line'[m].carries = IF m = o THEN {} ELSE lines[m].carries
    BY <1>1, <1>3, LineBreaks
  <2> QED BY <2>1, <2>2, <2>3, <2>4
<1>7. \A m \in Lines : /\ lines[m].up = line[m].up /\ lines[m].carries = line[m].carries
                       /\ m # n => lines[m].handler = line[m].handler /\ lines[m].old = line[m].old
  BY <1>2, <1>3
<1>8. \A m \in Lines : line'[m].carries \subseteq line[m].carries /\ line[m].carries \subseteq line'[m].carries \cup heard'.lost
  BY <1>5, <1>6, <1>7
<1>9. LinksInv'
  <2>1. ASSUME NEW m \in Lines
        PROVE  /\ line'[m].handler = "none" => line[m].handler = "none"
               /\ line'[m].up => line[m].up
               /\ line'[m].old = line[m].old \/ line'[m].handler # "replacing"
               /\ \/ line'[m].handler = line[m].handler
                  \/ line[m].handler = "replacing" /\ line'[m].handler = "serving"
    <3>1. /\ line'[m].handler = lines[m].handler /\ line'[m].old = lines[m].old
          /\ line'[m].up => lines[m].up
          /\ lines[m].up = line[m].up
      BY <1>6, <1>7
    <3>2. CASE m = n
      BY <1>1, <1>2, <1>3, <3>1, <3>2
    <3>3. CASE m # n
      BY <1>7, <3>1, <3>3
    <3> QED BY <3>2, <3>3
  <2> QED BY <1>4, <1>5, <1>6, <1>8, <2>1, LinksStay
<1> QED BY <1>4, <1>5, <1>6, <1>8, <1>9, LinkAt, LinesMove

LEMMA ReadFailsKeeps ==
  ASSUME LinkInv, NEW n \in Lines, ReadFails(n)
  PROVE  LinkInv'
<1> PICK row : row = [line[n] EXCEPT !.handler = "leaving"]
  OBVIOUS
<1>1. /\ row \in LineRows /\ row.handler = "leaving" /\ row.old = line[n].old /\ row.up = line[n].up
      /\ row.carries = line[n].carries
  BY LinkAt, LineAt DEF LineRows, HandlerStages
<1>2. line' = [line EXCEPT ![n] = row] /\ line[n].handler = "serving" /\ UNCHANGED <<hub, client, runs, pusher, heard>>
  BY DEF ReadFails
<1>3. line' \in [Lines -> LineRows] /\ line'[n] = row /\ \A m \in Lines : m # n => line'[m] = line[m]
  BY <1>1, <1>2, LineSet
<1>4. LinksInv'
  BY <1>1, <1>2, <1>3, LinksStay
<1> QED BY <1>1, <1>2, <1>4, LinkAt, HandlerMoves

LEMMA DetachLineKeeps ==
  ASSUME LinkInv, NEW n \in Lines, DetachLine(n)
  PROVE  LinkInv'
<1> PICK stage \in {"telling", "done"} : stage = IF IsCurrent(n) THEN "telling" ELSE "done"
  OBVIOUS
<1> PICK row : row = [line[n] EXCEPT !.handler = stage]
  OBVIOUS
<1>1. /\ row \in LineRows /\ row.handler = stage /\ row.up = line[n].up /\ row.carries = line[n].carries
  <2>1. line[n] \in LineRows /\ stage \in HandlerStages
    BY LineAt DEF HandlerStages
  <2> QED BY <2>1 DEF LineRows
<1>2. /\ line[n].handler = "leaving" /\ line' = [line EXCEPT ![n] = row]
      /\ hub' = (IF hub = n THEN 0 ELSE hub) /\ UNCHANGED <<client, runs, pusher, heard>>
  BY DEF DetachLine, IsCurrent
<1>3. line' \in [Lines -> LineRows] /\ line'[n] = row /\ \A m \in Lines : m # n => line'[m] = line[m]
  BY <1>1, <1>2, LineSet
<1>4. n = heard.latest => hub = n
  BY <1>2, LinkAt DEF LinkInv, LinksInv, HubStands
<1>5. stage = (IF hub = n THEN "telling" ELSE "done") /\ n # 0
  BY LinkAt DEF IsCurrent
<1>6. LinesStand'
  BY <1>1, <1>2, <1>3 DEF LinkInv, LinksInv, LinesStand
<1>7. HubStands'
  <2>1. hub # 0 => hub \in Lines /\ hub = heard.latest /\ line[hub].handler \in Attached
    BY LinkAt DEF LinkInv, LinksInv, HubStands
  <2>2. heard.latest # 0 =>
          /\ heard.latest \in Lines
          /\ \/ line[heard.latest].handler \in Attached /\ hub = heard.latest
             \/ line[heard.latest].handler \in {"telling", "done"} /\ hub = 0
    BY LinkAt, HeardAt DEF LinkInv, LinksInv, HubStands
  <2>3. CASE hub = n
    BY <1>1, <1>2, <1>3, <1>5, <2>1, <2>2, <2>3 DEF HubStands
  <2>4. CASE hub # n
    <3>1. heard.latest # n
      BY <1>4, <2>4
    <3>2. /\ hub # 0 => line'[hub] = line[hub]
          /\ heard.latest # 0 => line'[heard.latest] = line[heard.latest]
      BY <1>3, <2>1, <2>2, <2>4, <3>1
    <3> QED BY <1>2, <2>1, <2>2, <2>4, <3>2 DEF HubStands
  <2> QED BY <2>3, <2>4
<1>8. TellersStand'
  <2>1. \A m \in heard.announced : m \in Lines /\ m # n /\ line'[m].handler = "done"
    BY <1>2, <1>3, HeardAt DEF LinkInv, LinksInv, TellersStand
  <2>2. ASSUME NEW m \in heard.replaced
        PROVE  line'[m].handler \notin {"none", "accepted", "telling"} /\ m # hub'
    <3>1. m \in Lines /\ line[m].handler \notin {"none", "accepted", "telling"} /\ m # hub
      BY HeardAt DEF LinkInv, LinksInv, TellersStand
    <3>2. m # hub'
      BY <1>2, <3>1, LinkAt
    <3>3. CASE m = n
      BY <1>1, <1>3, <1>5, <3>1, <3>2, <3>3
    <3>4. CASE m # n
      BY <1>3, <3>1, <3>2, <3>4
    <3> QED BY <3>3, <3>4
  <2> QED BY <1>2, <2>1, <2>2 DEF LinkInv, LinksInv, TellersStand, OnlyTheLastTells
<1>9. LinksInv' /\ hub' \in 0..MaxLines
  BY <1>2, <1>6, <1>7, <1>8, LinkAt DEF LinksInv
<1> QED BY <1>1, <1>2, <1>9, LinkAt, HandlerMoves

LEMMA TellOfflineKeeps ==
  ASSUME LinkInv, NEW n \in Lines, TellOffline(n)
  PROVE  LinkInv'
<1> PICK row : row = [line[n] EXCEPT !.handler = "done"]
  OBVIOUS
<1>1. /\ row \in LineRows /\ row.handler = "done" /\ row.up = line[n].up /\ row.carries = line[n].carries
  <2>1. line[n] \in LineRows
    BY LineAt
  <2> QED BY <2>1 DEF LineRows, HandlerStages
<1>2. /\ line[n].handler = "telling" /\ line' = [line EXCEPT ![n] = row] /\ UNCHANGED <<hub, client, runs, pusher>>
  BY DEF TellOffline
<1>3. line' \in [Lines -> LineRows] /\ line'[n] = row /\ \A m \in Lines : m # n => line'[m] = line[m]
  BY <1>1, <1>2, LineSet
<1>4. /\ heard' \in HeardRows /\ heard'.latest = heard.latest /\ heard'.replaced = heard.replaced
      /\ heard'.lost = heard.lost /\ heard'.announced \subseteq heard.announced \cup {n}
  <2>1. CASE heard' = [heard EXCEPT !.announced = heard.announced \cup {n}]
    BY <2>1, LinkAt, HeardAt DEF HeardRows
  <2>2. CASE heard' = heard
    BY <2>2, LinkAt
  <2> QED BY <2>1, <2>2 DEF TellOffline
<1>5. LinesStand'
  BY <1>1, <1>2, <1>3 DEF LinkInv, LinksInv, LinesStand
<1>6. HubStands'
  <2>1. hub # 0 => hub \in Lines /\ hub = heard.latest /\ line[hub].handler \in Attached
    BY LinkAt DEF LinkInv, LinksInv, HubStands
  <2>2. heard.latest # 0 =>
          /\ heard.latest \in Lines
          /\ \/ line[heard.latest].handler \in Attached /\ hub = heard.latest
             \/ line[heard.latest].handler \in {"telling", "done"} /\ hub = 0
    BY LinkAt, HeardAt DEF LinkInv, LinksInv, HubStands
  <2>3. hub # n
    BY <1>2, <2>1, LinkAt DEF Attached
  <2>4. CASE heard.latest = n
    <3>1. hub = 0
      BY <1>2, <2>2, <2>4, LinkAt DEF Attached
    <3> QED BY <1>1, <1>2, <1>3, <1>4, <2>4, <3>1 DEF HubStands
  <2>5. CASE heard.latest # n
    <3>1. /\ hub # 0 => line'[hub] = line[hub]
          /\ heard.latest # 0 => line'[heard.latest] = line[heard.latest]
      BY <1>3, <2>1, <2>2, <2>3, <2>5
    <3> QED BY <1>2, <1>4, <2>1, <2>2, <3>1 DEF HubStands
  <2> QED BY <2>4, <2>5
<1>7. TellersStand'
  <2>1. \A m \in heard.announced \cup {n} : line'[m].handler = "done"
    BY <1>1, <1>2, <1>3, HeardAt DEF LinkInv, LinksInv, TellersStand
  <2>2. \A m \in heard.replaced : m # n /\ m # hub /\ line'[m].handler \notin {"none", "accepted", "telling"}
    BY <1>2, <1>3, HeardAt DEF LinkInv, LinksInv, TellersStand
  <2> QED BY <1>2, <1>4, <2>1, <2>2 DEF LinkInv, LinksInv, TellersStand, OnlyTheLastTells
<1>8. LinksInv'
  BY <1>5, <1>6, <1>7 DEF LinksInv
<1> QED BY <1>1, <1>2, <1>4, <1>8, LinkAt, HandlerMoves

\* The worker dials a connection nobody used.
LEMMA DialKeeps ==
  ASSUME LinkInv, NEW n \in Lines, Dial(n)
  PROVE  LinkInv'
<1>1. PICK row \in LineRows :
        row.handler = "accepted" /\ row.carries = {} /\ line' = [line EXCEPT ![n] = row]
  <2> DEFINE dialled == [NoLine EXCEPT !.handler = "accepted", !.up = TRUE]
  <2>1. NoLine \in LineRows /\ NoLine.carries = {}
    BY LinkAt DEF NoLine, LineRows, HandlerStages
  <2>2. dialled \in LineRows /\ dialled.handler = "accepted" /\ dialled.carries = {}
    BY <2>1 DEF LineRows, HandlerStages
  <2>3. line' = [line EXCEPT ![n] = dialled]
    BY DEF Dial
  <2> HIDE DEF dialled
  <2> QED BY <2>2, <2>3
<1>2. /\ line[n].handler = "none" /\ UNCHANGED <<hub, runs, pusher, heard>>
      /\ client' = [client EXCEPT !.reads = n]
  BY DEF Dial
<1>3. line' \in [Lines -> LineRows] /\ line'[n] = row /\ \A m \in Lines : m # n => line'[m] = line[m]
  BY <1>1, <1>2, LineSet
<1>4. /\ client' \in ClientRows /\ client'.loop = client.loop /\ client'.run = client.run /\ client'.killed = client.killed
      /\ client'.wake = client.wake /\ client'.cancels = client.cancels
  <2>1. client \in ClientRows /\ n \in 0..MaxLines
    BY LinkAt DEF Lines
  <2> QED BY <1>2, <2>1 DEF ClientRows
<1>5. line[n].carries = {}
  BY <1>2 DEF LinkInv, LinksInv, LinesStand
<1>6. \A m \in Lines : line'[m].carries = line[m].carries
  BY <1>1, <1>3, <1>5
<1>7. LinesStand'
  BY <1>1, <1>3 DEF LinkInv, LinksInv, LinesStand
<1>8. HubStands'
  <2>1. hub # 0 => hub \in Lines /\ hub # n
    BY <1>2, LinkAt DEF LinkInv, LinksInv, HubStands, Attached
  <2>2. heard.latest # 0 => heard.latest \in Lines /\ heard.latest # n
    BY <1>2, LinkAt, HeardAt DEF LinkInv, LinksInv, HubStands, Attached
  <2> QED BY <1>2, <1>3, <2>1, <2>2 DEF LinkInv, LinksInv, HubStands
<1>9. TellersStand'
  <2>1. \A m \in heard.announced \cup heard.replaced : m \in Lines /\ m # n
    BY <1>2, HeardAt DEF LinkInv, LinksInv, TellersStand
  <2> QED BY <1>2, <1>3, <2>1 DEF LinkInv, LinksInv, TellersStand, OnlyTheLastTells
<1>10. LinksInv'
  BY <1>7, <1>8, <1>9 DEF LinksInv
<1> QED BY <1>2, <1>3, <1>4, <1>6, <1>10, LinkAt, LinesMove

\* The server restarts: what was under way in it is lost.
LEMMA ServerStopsKeeps ==
  ASSUME LinkInv, ServerStops
  PROVE  LinkInv'
<1> DEFINE dropped == UNION {line[n].carries : n \in Lines}
           unsent  == {pusher[p].signal : p \in {q \in Pushers : pusher[q].at # "idle"}}
<1> PICK lost : lost = heard.lost \cup dropped \cup unsent
  OBVIOUS
<1> PICK stops \in 0..MaxStops : stops = heard.stops + 1
  BY LinkAt, HeardAt DEF ServerStops
<1>1. heard' = [heard EXCEPT !.latest = 0, !.stops = stops, !.lost = lost]
  <2>1. heard' = [heard EXCEPT !.latest = 0, !.stops = heard.stops + 1, !.lost = heard.lost \cup dropped \cup unsent]
    BY DEF ServerStops
  <2> HIDE DEF dropped, unsent
  <2> QED BY <2>1
<1>2. lost \subseteq Signals
  <2>1. dropped \subseteq Signals
    BY LineAt
  <2>2. unsent \subseteq Signals
    BY LinkAt DEF PushRows
  <2> QED BY <2>1, <2>2, HeardAt
<1>3. /\ heard' \in HeardRows /\ heard'.latest = 0 /\ heard'.lost = lost /\ heard'.replaced = heard.replaced
      /\ heard'.announced = heard.announced
  <2>1. heard \in HeardRows /\ 0 \in 0..MaxLines
    BY LinkAt
  <2> HIDE DEF dropped, unsent
  <2> QED BY <1>1, <1>2, <2>1 DEF HeardRows
<1>4. /\ \A s \in heard.lost : s \in lost
      /\ \A m \in Lines : \A s \in line[m].carries : s \in lost
      /\ \A p \in Pushers : pusher[p].at # "idle" => pusher[p].signal \in lost
  OBVIOUS
<1> HIDE DEF dropped, unsent
<1>5. /\ NoLine \in LineRows /\ NoLine.handler = "none" /\ NoLine.carries = {} /\ ~NoLine.up
      /\ NoPush \in PushRows /\ NoPush.at = "idle"
  <2>1. 0 \in 0..MaxLines /\ Wake \in Signals
    BY LinkAt
  <2> QED BY <2>1 DEF NoLine, NoPush, LineRows, PushRows, HandlerStages
<1>6. PICK gone \in LineRows : /\ gone.handler = "done" /\ gone.carries = {}
                               /\ line' = [n \in Lines |-> IF line[n].handler = "none" THEN NoLine ELSE gone]
  <2>1. /\ [NoLine EXCEPT !.handler = "done"] \in LineRows
        /\ [NoLine EXCEPT !.handler = "done"].handler = "done"
        /\ [NoLine EXCEPT !.handler = "done"].carries = {}
    BY <1>5 DEF LineRows, HandlerStages
  <2>2. line' = [n \in Lines |-> IF line[n].handler = "none" THEN NoLine ELSE [NoLine EXCEPT !.handler = "done"]]
    BY DEF ServerStops
  <2> QED BY <2>1, <2>2
<1>7. /\ hub' = 0 /\ pusher' = [p \in Pushers |-> NoPush] /\ UNCHANGED <<client, runs>>
  BY DEF ServerStops
<1>8. /\ line' \in [Lines -> LineRows]
      /\ \A m \in Lines : /\ line'[m].carries = {}
                          /\ line[m].handler = "none" => line'[m].handler = "none" /\ ~line'[m].up
                          /\ line[m].handler # "none" => line'[m].handler = "done"
  BY <1>5, <1>6
<1>9. /\ pusher' \in [Pushers -> PushRows] /\ \A p \in Pushers : pusher'[p].at = "idle"
  BY <1>5, <1>7
<1>10. LinkTyped'
  BY <1>3, <1>7, <1>8, <1>9, LinkAt DEF LinkTyped
<1>11. LinksInv'
  <2>1. LinesStand'
    BY <1>8 DEF LinesStand
  <2>2. HubStands'
    BY <1>3, <1>7 DEF HubStands
  <2>3. TellersStand'
    <3>1. \A m \in heard.announced \cup heard.replaced : m \in Lines /\ line[m].handler # "none"
      BY HeardAt DEF LinkInv, LinksInv, TellersStand
    <3>2. \A m \in heard.announced \cup heard.replaced : line'[m].handler = "done" /\ m # 0
      BY <1>8, <3>1, LinkAt
    <3> QED BY <1>3, <1>7, <3>2 DEF LinkInv, LinksInv, TellersStand, OnlyTheLastTells
  <2> QED BY <2>1, <2>2, <2>3 DEF LinksInv
<1>12. \A s \in Signals : (UnderWay(s)' => UnderWay(s)) /\ (Borne(s) => Borne(s)')
  <2>1. \A s : ~UnderWay(s)'
    BY <1>8, <1>9 DEF UnderWay
  <2>2. \A s : Borne(s) => s \in lost
    BY <1>4 DEF Borne, UnderWay
  <2> QED BY <1>3, <2>1, <2>2 DEF Borne
<1>13. SignalsInv'
  BY <1>7, <1>9, <1>12, SignalsMove
<1> QED BY <1>10, <1>11, <1>13 DEF LinkInv

--------------------------------------------------------------------------------
(* Queueing, cancelling and sending *)

\* Lines, hub and announcements stay as they are.
LEMMA LinksRest ==
  ASSUME LinkInv, UNCHANGED hub, heard'.latest = heard.latest, heard'.replaced = heard.replaced,
         heard'.announced = heard.announced,
         line' \in [Lines -> LineRows],
         \A m \in Lines : /\ line'[m].handler = line[m].handler /\ line'[m].up = line[m].up
                          /\ line'[m].old = line[m].old
                          /\ line'[m].carries # {} /\ line[m].carries = {} => line[m].up
  PROVE  LinksInv'
<1>1. LinesStand'
  BY DEF LinkInv, LinksInv, LinesStand
<1>2. HubStands'
  <2>1. hub # 0 => hub \in Lines
    BY LinkAt
  <2>2. heard.latest # 0 => heard.latest \in Lines
    BY LinkAt, HeardAt
  <2> QED BY <2>1, <2>2 DEF LinkInv, LinksInv, HubStands
<1>3. TellersStand'
  BY HeardAt DEF LinkInv, LinksInv, TellersStand, OnlyTheLastTells
<1> QED BY <1>1, <1>2, <1>3 DEF LinksInv

\* A call's push is replaced.
LEMMA PushSet ==
  ASSUME LinkInv, NEW p \in Pushers, NEW row \in PushRows, pusher' = [pusher EXCEPT ![p] = row]
  PROVE  pusher' \in [Pushers -> PushRows] /\ pusher'[p] = row /\ \A q \in Pushers : q # p => pusher'[q] = pusher[q]
BY LinkAt

\* A call that has nothing to send commits its change, and has its signal to send.
LEMMA PushesUnderWay ==
  ASSUME LinkInv, NEW p \in Pushers, pusher[p].at = "idle", NEW s \in Signals,
         pusher' = [pusher EXCEPT ![p] = [at |-> "committed", signal |-> s, to |-> 0]], UNCHANGED line
  PROVE  /\ pusher' \in [Pushers -> PushRows] /\ UnderWay(s)'
         /\ \A q \in Pushers : pusher'[q].at = "taken" => pusher'[q].to # 0
         /\ \A t \in Signals : UnderWay(t) => UnderWay(t)'
         /\ \A t \in Signals : UnderWay(t)' => t = s \/ UnderWay(t)
<1> PICK row \in PushRows : row.at = "committed" /\ row.signal = s /\ pusher' = [pusher EXCEPT ![p] = row]
  <2>1. 0 \in 0..MaxLines
    BY LinkAt
  <2> QED BY <2>1 DEF PushRows
<1>1. pusher' \in [Pushers -> PushRows] /\ pusher'[p] = row /\ \A q \in Pushers : q # p => pusher'[q] = pusher[q]
  BY PushSet
<1>2. \A q \in Pushers : pusher'[q].at = "taken" => pusher'[q].to # 0
  BY <1>1 DEF LinkInv, SignalsInv, TakersStand
<1>3. UnderWay(s)'
  BY <1>1 DEF UnderWay
<1>4. \A t \in Signals : UnderWay(t) => UnderWay(t)'
  BY <1>1 DEF UnderWay
<1>5. \A t \in Signals : UnderWay(t)' => t = s \/ UnderWay(t)
  BY <1>1 DEF UnderWay
<1> QED BY <1>1, <1>2, <1>3, <1>4, <1>5

LEMMA QueueWorkKeeps ==
  ASSUME LinkInv, NEW p \in Pushers, NEW r \in QueuedRuns, QueueWork(p, r)
  PROVE  LinkInv'
<1>1. /\ pusher[p].at = "idle" /\ runs[r] = "absent" /\ runs' = [runs EXCEPT ![r] = "queued"]
      /\ pusher' = [pusher EXCEPT ![p] = [at |-> "committed", signal |-> Wake, to |-> 0]]
      /\ UNCHANGED <<line, hub, client, heard>>
  BY DEF QueueWork
<1>2. /\ pusher' \in [Pushers -> PushRows] /\ UnderWay(Wake)'
      /\ \A q \in Pushers : pusher'[q].at = "taken" => pusher'[q].to # 0
      /\ \A t \in Signals : UnderWay(t) => UnderWay(t)'
      /\ \A t \in Signals : UnderWay(t)' => t = Wake \/ UnderWay(t)
  BY <1>1, LinkAt, PushesUnderWay
<1>3. runs' \in [QueuedRuns -> RunStates] /\ runs'[r] = "queued" /\ \A q \in QueuedRuns : q # r => runs'[q] = runs[q]
  BY <1>1, LinkAt DEF RunStates
<1>4. LinkTyped' /\ LinksInv'
  <2>1. LinkTyped'
    BY <1>1, <1>2, <1>3, LinkAt DEF LinkTyped
  <2>2. LinksInv'
    BY <1>1, LinkAt, LinksRest
  <2> QED BY <2>1, <2>2
<1>5. \A q \in QueuedRuns : runs[q] = "cancelled" <=> runs'[q] = "cancelled"
  BY <1>1, <1>3
<1>6. TakersStand' /\ WakeStands'
  BY <1>1, <1>2 DEF LinkInv, SignalsInv, TakersStand, WakeStands, Borne
<1>7. CancelsMeant'
  BY <1>1, <1>2, <1>5, LinkAt DEF LinkInv, SignalsInv, CancelsMeant
<1>8. CancelStands'
  <2> SUFFICES ASSUME client.loop \in {"held", "working"}
               PROVE  /\ runs'[client.run] = "cancelled" =>
                           client.killed \/ client.run \in client.cancels \/ Borne(client.run)'
                      /\ client.killed => runs'[client.run] = "cancelled"
    BY <1>1 DEF CancelStands
  <2>1. client.run \in QueuedRuns /\ client.run \in Signals
    BY LinkAt DEF LinkInv, SignalsInv, TakersStand, ClientRows, QueuedRuns
  <2>2. Borne(client.run) => Borne(client.run)'
    BY <1>1, <1>2, <2>1 DEF Borne
  <2> QED BY <1>5, <2>1, <2>2 DEF LinkInv, SignalsInv, CancelStands
<1> QED BY <1>4, <1>6, <1>7, <1>8 DEF LinkInv, SignalsInv

LEMMA CancelWorkKeeps ==
  ASSUME LinkInv, NEW p \in Pushers, NEW r \in QueuedRuns, CancelWork(p, r)
  PROVE  LinkInv'
<1>1. /\ pusher[p].at = "idle" /\ runs[r] = "claimed" /\ runs' = [runs EXCEPT ![r] = "cancelled"]
      /\ pusher' = [pusher EXCEPT ![p] = [at |-> "committed", signal |-> r, to |-> 0]]
      /\ UNCHANGED <<line, hub, client, heard>>
  BY DEF CancelWork
<1>2. /\ pusher' \in [Pushers -> PushRows] /\ UnderWay(r)'
      /\ \A q \in Pushers : pusher'[q].at = "taken" => pusher'[q].to # 0
      /\ \A t \in Signals : UnderWay(t) => UnderWay(t)'
      /\ \A t \in Signals : UnderWay(t)' => t = r \/ UnderWay(t)
  BY <1>1, LinkAt, PushesUnderWay
<1>3. runs' \in [QueuedRuns -> RunStates] /\ runs'[r] = "cancelled" /\ \A q \in QueuedRuns : q # r => runs'[q] = runs[q]
  BY <1>1, LinkAt DEF RunStates
<1>4. LinkTyped' /\ LinksInv'
  <2>1. LinkTyped'
    BY <1>1, <1>2, <1>3, LinkAt DEF LinkTyped
  <2>2. LinksInv'
    BY <1>1, LinkAt, LinksRest
  <2> QED BY <2>1, <2>2
<1>5. TakersStand'
  BY <1>1, <1>2 DEF LinkInv, SignalsInv, TakersStand
<1>6. WakeStands'
  <2>1. (\E q \in QueuedRuns : runs'[q] = "queued") => \E q \in QueuedRuns : runs[q] = "queued"
    BY <1>3
  <2>2. Borne(Wake) => Borne(Wake)'
    BY <1>1, <1>2, LinkAt DEF Borne
  <2> QED BY <1>1, <2>1, <2>2 DEF LinkInv, SignalsInv, WakeStands
<1>7. CancelsMeant'
  BY <1>1, <1>2, <1>3, LinkAt DEF LinkInv, SignalsInv, CancelsMeant
<1>8. CancelStands'
  <2> SUFFICES ASSUME client.loop \in {"held", "working"}
               PROVE  /\ runs'[client.run] = "cancelled" =>
                           client.killed \/ client.run \in client.cancels \/ Borne(client.run)'
                      /\ client.killed => runs'[client.run] = "cancelled"
    BY <1>1 DEF CancelStands
  <2>1. client.run \in QueuedRuns /\ client.run \in Signals
    BY LinkAt DEF LinkInv, SignalsInv, TakersStand, ClientRows, QueuedRuns
  <2>2. Borne(client.run) => Borne(client.run)'
    BY <1>1, <1>2, <2>1 DEF Borne
  <2>3. CASE client.run = r
    BY <1>1, <1>2, <1>3, <2>3 DEF Borne
  <2>4. CASE client.run # r
    BY <1>3, <2>1, <2>2, <2>4 DEF LinkInv, SignalsInv, CancelStands
  <2> QED BY <2>3, <2>4
<1> QED BY <1>4, <1>5, <1>6, <1>7, <1>8 DEF LinkInv, SignalsInv

\* A signal is lost, taken to a connection or written to it.
LEMMA PushMoves ==
  ASSUME LinkInv, NEW p \in Pushers, NEW row \in PushRows, pusher' = [pusher EXCEPT ![p] = row],
         row.at = "taken" => row.to # 0,
         row.at # "idle" => pusher[p].at # "idle" /\ row.signal = pusher[p].signal,
         UNCHANGED <<client, runs, hub>>, line' \in [Lines -> LineRows],
         \A m \in Lines : /\ line'[m].handler = line[m].handler /\ line'[m].up = line[m].up
                          /\ line'[m].old = line[m].old
                          /\ line[m].carries \subseteq line'[m].carries
                          /\ line'[m].carries \subseteq line[m].carries \cup {pusher[p].signal}
                          /\ line'[m].carries # line[m].carries => line[m].up,
         pusher[p].at # "idle",
         heard' \in HeardRows, heard'.latest = heard.latest, heard'.replaced = heard.replaced,
         heard'.announced = heard.announced, heard.lost \subseteq heard'.lost,
         \/ row.at # "idle"
         \/ pusher[p].signal \in heard'.lost
         \/ \E m \in Lines : pusher[p].signal \in line'[m].carries
  PROVE  LinkInv'
<1>1. pusher' \in [Pushers -> PushRows] /\ pusher'[p] = row /\ \A q \in Pushers : q # p => pusher'[q] = pusher[q]
  BY PushSet
<1>2. LinkTyped'
  BY <1>1, LinkAt DEF LinkTyped
<1>3. LinksInv'
  <2>1. \A m \in Lines : line'[m].carries # {} /\ line[m].carries = {} => line[m].up
    OBVIOUS
  <2> QED BY <2>1, LinksRest
<1>4. \A q \in Pushers : pusher'[q].at = "taken" => pusher'[q].to # 0
  BY <1>1 DEF LinkInv, SignalsInv, TakersStand
<1>5. \A t \in Signals : UnderWay(t)' => UnderWay(t)
  <2> SUFFICES ASSUME NEW t \in Signals, UnderWay(t)' PROVE UnderWay(t)
    OBVIOUS
  <2>1. CASE \E q \in Pushers : pusher'[q].at # "idle" /\ pusher'[q].signal = t
    BY <1>1, <2>1 DEF UnderWay
  <2>2. CASE \E m \in Lines : t \in line'[m].carries
    BY <2>2 DEF UnderWay
  <2> QED BY <2>1, <2>2 DEF UnderWay
<1>6. \A t \in Signals : Borne(t) => Borne(t)'
  <2> SUFFICES ASSUME NEW t \in Signals, Borne(t) PROVE Borne(t)'
    OBVIOUS
  <2>1. CASE t \in heard.lost
    BY <2>1 DEF Borne
  <2>2. CASE \E m \in Lines : t \in line[m].carries
    BY <2>2 DEF Borne, UnderWay
  <2>3. ASSUME NEW q \in Pushers, pusher[q].at # "idle", pusher[q].signal = t
        PROVE  Borne(t)'
    <3>1. CASE q # p
      BY <1>1, <2>3, <3>1 DEF Borne, UnderWay
    <3>2. CASE q = p
      BY <1>1, <2>3, <3>2 DEF Borne, UnderWay
    <3> QED BY <3>1, <3>2
  <2> QED BY <2>1, <2>2, <2>3 DEF Borne, UnderWay
<1>7. SignalsInv'
  BY <1>4, <1>5, <1>6, SignalsMove
<1> QED BY <1>2, <1>3, <1>7 DEF LinkInv

LEMMA PushAt ==
  ASSUME LinkInv, NEW p \in Pushers
  PROVE  /\ pusher[p] \in PushRows /\ pusher[p].signal \in Signals /\ pusher[p].to \in 0..MaxLines
         /\ pusher[p].at = "taken" => pusher[p].to \in Lines
         /\ NoPush \in PushRows /\ NoPush.at = "idle"
<1>1. pusher[p] \in PushRows /\ 0 \in 0..MaxLines /\ Wake \in Signals
  BY LinkAt
<1>2. pusher[p].signal \in Signals /\ pusher[p].to \in 0..MaxLines
  BY <1>1 DEF PushRows
<1>3. NoPush \in PushRows /\ NoPush.at = "idle"
  BY <1>1 DEF PushRows, NoPush
<1>4. pusher[p].at = "taken" => pusher[p].to \in Lines
  BY <1>2, LinkAt DEF LinkInv, SignalsInv, TakersStand
<1> QED BY <1>1, <1>2, <1>3, <1>4

LEMMA LoseSignal ==
  ASSUME LinkInv, NEW s \in Signals, heard' = [heard EXCEPT !.lost = heard.lost \cup {s}]
  PROVE  /\ heard' \in HeardRows /\ heard'.latest = heard.latest /\ heard'.replaced = heard.replaced
         /\ heard'.announced = heard.announced /\ heard'.lost = heard.lost \cup {s}
<1>1. heard \in HeardRows /\ heard.lost \cup {s} \subseteq Signals
  BY LinkAt, HeardAt
<1> QED BY <1>1 DEF HeardRows

LEMMA TakeLineKeeps ==
  ASSUME LinkInv, NEW p \in Pushers, TakeLine(p)
  PROVE  LinkInv'
<1> PICK s \in Signals : s = pusher[p].signal
  BY PushAt
<1>1. pusher[p].at = "committed" /\ UNCHANGED <<line, hub, client, runs>>
  BY DEF TakeLine
<1>2. CASE hub = 0
  <2>1. pusher' = [pusher EXCEPT ![p] = NoPush] /\ heard' = [heard EXCEPT !.lost = heard.lost \cup {s}]
    BY <1>2 DEF TakeLine
  <2>2. /\ heard' \in HeardRows /\ heard'.latest = heard.latest /\ heard'.replaced = heard.replaced
        /\ heard'.announced = heard.announced /\ heard'.lost = heard.lost \cup {s}
    BY <2>1, LoseSignal
  <2>3. NoPush \in PushRows /\ NoPush.at = "idle"
    BY PushAt
  <2>4. line' \in [Lines -> LineRows]
    BY <1>1, LinkAt
  <2> QED BY <1>1, <2>1, <2>2, <2>3, <2>4, PushMoves
<1>3. CASE hub # 0
  <2>1. PICK row \in PushRows : /\ row.at = "taken" /\ row.to = hub /\ row.signal = s
                                /\ pusher' = [pusher EXCEPT ![p] = row]
    <3> DEFINE taken == [pusher[p] EXCEPT !.at = "taken", !.to = hub]
    <3>1. taken \in PushRows /\ taken.at = "taken" /\ taken.to = hub /\ taken.signal = s
      <4>1. pusher[p] \in PushRows /\ hub \in 0..MaxLines
        BY LinkAt, PushAt
      <4> QED BY <4>1 DEF PushRows
    <3>2. pusher' = [pusher EXCEPT ![p] = taken]
      BY <1>3, LinkAt DEF TakeLine
    <3> HIDE DEF taken
    <3> QED BY <3>1, <3>2
  <2>2. UNCHANGED heard
    BY <1>3 DEF TakeLine
  <2> QED BY <1>1, <1>3, <2>1, <2>2, LinkAt, PushMoves
<1> QED BY <1>2, <1>3

LEMMA WriteSignalKeeps ==
  ASSUME LinkInv, NEW p \in Pushers, WriteSignal(p)
  PROVE  LinkInv'
<1> PICK s \in Signals : s = pusher[p].signal
  BY PushAt
<1> PICK n : n = pusher[p].to
  OBVIOUS
<1>1. /\ pusher[p].at = "taken" /\ n \in Lines /\ UNCHANGED <<hub, client, runs>>
      /\ pusher' = [pusher EXCEPT ![p] = NoPush] /\ NoPush \in PushRows /\ NoPush.at = "idle"
  BY PushAt DEF WriteSignal
<1>2. CASE line[n].up
  <2> PICK row : row = [line[n] EXCEPT !.carries = line[n].carries \cup {s}]
    OBVIOUS
  <2>1. /\ row \in LineRows /\ row.handler = line[n].handler /\ row.up = line[n].up /\ row.old = line[n].old
        /\ row.carries = line[n].carries \cup {s}
    <3>1. line[n] \in LineRows /\ line[n].carries \cup {s} \subseteq Signals
      BY <1>1, LineAt
    <3> QED BY <3>1 DEF LineRows
  <2>2. line' = [line EXCEPT ![n] = row] /\ UNCHANGED heard
    BY <1>1, <1>2, LinkAt DEF WriteSignal
  <2>3. line' \in [Lines -> LineRows] /\ line'[n] = row /\ \A m \in Lines : m # n => line'[m] = line[m]
    BY <1>1, <2>1, <2>2, LineSet
  <2>4. \A m \in Lines : /\ line'[m].handler = line[m].handler /\ line'[m].up = line[m].up
                         /\ line'[m].old = line[m].old
                         /\ line[m].carries \subseteq line'[m].carries
                         /\ line'[m].carries \subseteq line[m].carries \cup {pusher[p].signal}
                         /\ line'[m].carries # line[m].carries => line[m].up
    BY <1>2, <2>1, <2>3
  <2>5. pusher[p].signal \in line'[n].carries
    BY <2>1, <2>3
  <2> QED BY <1>1, <2>2, <2>3, <2>4, <2>5, LinkAt, PushMoves
<1>3. CASE ~line[n].up
  <2>1. heard' = [heard EXCEPT !.lost = heard.lost \cup {s}] /\ UNCHANGED line
    BY <1>3 DEF WriteSignal
  <2>2. /\ heard' \in HeardRows /\ heard'.latest = heard.latest /\ heard'.replaced = heard.replaced
        /\ heard'.announced = heard.announced /\ heard'.lost = heard.lost \cup {s}
    BY <2>1, LoseSignal
  <2>3. line' \in [Lines -> LineRows]
    BY <2>1, LinkAt
  <2> QED BY <1>1, <2>1, <2>2, <2>3, PushMoves
<1> QED BY <1>2, <1>3

--------------------------------------------------------------------------------
(* The worker *)

\* Only the worker's own state changes: what it has read of its connection stays.
LEMMA ClientMoves ==
  ASSUME LinkInv, UNCHANGED <<line, hub, pusher, heard>>, client' \in ClientRows, runs' \in [QueuedRuns -> RunStates],
         client'.loop \in {"held", "working"} => client'.run # 0,
         \A r \in QueuedRuns : runs[r] = "cancelled" => runs'[r] = "cancelled",
         client'.cancels \subseteq client.cancels, WakeStands', CancelStands'
  PROVE  LinkInv'
<1>1. LinkTyped'
  BY LinkAt DEF LinkTyped
<1>2. LinksInv'
  BY LinkAt, LinksRest
<1>3. TakersStand'
  BY DEF LinkInv, SignalsInv, TakersStand
<1>4. CancelsMeant'
  BY DEF LinkInv, SignalsInv, CancelsMeant, UnderWay
<1> QED BY <1>1, <1>2, <1>3, <1>4 DEF LinkInv, SignalsInv

LEMMA ClientAt ==
  ASSUME LinkInv
  PROVE  /\ client \in ClientRows /\ client.cancels \subseteq QueuedRuns /\ client.run \in 0..MaxQueued
         /\ client.loop \in {"held", "working"} => client.run \in QueuedRuns
         /\ client.killed \in BOOLEAN /\ client.wake \in BOOLEAN /\ client.reads \in 0..MaxLines
         /\ client.loop \in {"asking", "told", "waiting", "held", "working"}
<1>1. /\ client \in ClientRows /\ MaxQueued \in Nat
  BY LinkAt
<1>2. /\ client.cancels \subseteq QueuedRuns /\ client.run \in 0..MaxQueued
      /\ client.killed \in BOOLEAN /\ client.wake \in BOOLEAN /\ client.reads \in 0..MaxLines
      /\ client.loop \in {"asking", "told", "waiting", "held", "working"}
  BY <1>1 DEF ClientRows
<1>3. client.loop \in {"held", "working"} => client.run \in QueuedRuns
  BY <1>1, <1>2 DEF LinkInv, SignalsInv, TakersStand, QueuedRuns
<1> QED BY <1>1, <1>2, <1>3

LEMMA SessionEndsKeeps ==
  ASSUME LinkInv, SessionEnds
  PROVE  LinkInv'
<1>1. client' = [client EXCEPT !.reads = 0] /\ UNCHANGED <<line, hub, runs, pusher, heard>>
  BY DEF SessionEnds
<1>2. /\ client' \in ClientRows /\ client'.loop = client.loop /\ client'.run = client.run /\ client'.killed = client.killed
      /\ client'.wake = client.wake /\ client'.cancels = client.cancels
  <2>1. client \in ClientRows /\ 0 \in 0..MaxLines
    BY LinkAt
  <2> QED BY <1>1, <2>1 DEF ClientRows
<1>3. LinksInv'
  BY <1>1, LinkAt, LinksRest
<1> QED BY <1>1, <1>2, <1>3, LinkAt, LinesMove

LEMMA BeginWaitKeeps ==
  ASSUME LinkInv, BeginWait
  PROVE  LinkInv'
<1>1. client.loop = "told" /\ client' = [client EXCEPT !.loop = "waiting"] /\ UNCHANGED <<line, hub, runs, pusher, heard>>
  BY DEF BeginWait
<1>2. /\ client' \in ClientRows /\ client'.loop = "waiting" /\ client'.wake = client.wake /\ client'.cancels = client.cancels
  BY <1>1, LinkAt DEF ClientRows
<1>3. WakeStands' /\ CancelStands'
  BY <1>1, <1>2 DEF LinkInv, SignalsInv, WakeStands, CancelStands, Borne, UnderWay
<1> QED BY <1>1, <1>2, <1>3, LinkAt, ClientMoves

LEMMA EndWaitKeeps ==
  ASSUME LinkInv, EndWait
  PROVE  LinkInv'
<1> PICK wake \in BOOLEAN : client' = [client EXCEPT !.loop = "asking", !.wake = wake]
  <2>1. client.wake \in BOOLEAN
    BY ClientAt
  <2> PICK woken \in BOOLEAN : client' = [client EXCEPT !.loop = "asking", !.wake = (client.wake /\ ~woken)]
    BY DEF EndWait
  <2>2. (client.wake /\ ~woken) \in BOOLEAN
    BY <2>1
  <2> QED BY <2>2
<1>1. UNCHANGED <<line, hub, runs, pusher, heard>>
  BY DEF EndWait
<1>2. client' \in ClientRows /\ client'.loop = "asking" /\ client'.cancels = client.cancels
  BY LinkAt DEF ClientRows
<1>3. WakeStands' /\ CancelStands'
  BY <1>2 DEF WakeStands, CancelStands
<1> QED BY <1>1, <1>2, <1>3, LinkAt, ClientMoves

LEMMA BeginRunKeeps ==
  ASSUME LinkInv, BeginRun
  PROVE  LinkInv'
<1>1. client.loop = "held" /\ client' = [client EXCEPT !.loop = "working"] /\ UNCHANGED <<line, hub, runs, pusher, heard>>
  BY DEF BeginRun
<1>2. /\ client' \in ClientRows /\ client'.loop = "working" /\ client'.run = client.run /\ client'.killed = client.killed
      /\ client'.cancels = client.cancels
  BY <1>1, LinkAt DEF ClientRows
<1>3. WakeStands' /\ CancelStands'
  BY <1>1, <1>2 DEF LinkInv, SignalsInv, WakeStands, CancelStands, Borne, UnderWay
<1>4. client'.run # 0
  BY <1>1, <1>2 DEF LinkInv, SignalsInv, TakersStand
<1> QED BY <1>1, <1>2, <1>3, <1>4, LinkAt, ClientMoves

LEMMA EndRunKeeps ==
  ASSUME LinkInv, EndRun
  PROVE  LinkInv'
<1> PICK r \in QueuedRuns : r = client.run
  BY ClientAt DEF EndRun
<1>1. /\ client' = [client EXCEPT !.loop = "asking", !.run = 0, !.killed = FALSE]
      /\ runs' = [runs EXCEPT ![r] = IF runs[r] = "claimed" THEN "ended" ELSE runs[r]]
      /\ UNCHANGED <<line, hub, pusher, heard>>
  BY DEF EndRun
<1>2. client' \in ClientRows /\ client'.loop = "asking" /\ client'.cancels = client.cancels
  <2>1. client \in ClientRows /\ 0 \in 0..MaxQueued
    BY LinkAt
  <2> QED BY <1>1, <2>1 DEF ClientRows
<1>3. runs' \in [QueuedRuns -> RunStates] /\ \A q \in QueuedRuns : runs[q] = "cancelled" => runs'[q] = "cancelled"
  BY <1>1, LinkAt DEF RunStates
<1>4. WakeStands' /\ CancelStands'
  BY <1>2 DEF WakeStands, CancelStands
<1> QED BY <1>1, <1>2, <1>3, <1>4, ClientMoves

LEMMA AskForWorkKeeps ==
  ASSUME LinkInv, AskForWork
  PROVE  LinkInv'
<1> PICK lost : lost = heard.lost \ {Wake}
  OBVIOUS
<1>1. /\ client.loop = "asking" /\ heard' = [heard EXCEPT !.lost = lost] /\ UNCHANGED <<line, hub, pusher>>
  BY DEF AskForWork
<1>2. /\ heard' \in HeardRows /\ heard'.latest = heard.latest /\ heard'.replaced = heard.replaced
      /\ heard'.announced = heard.announced /\ heard'.lost = lost
  <2>1. heard \in HeardRows /\ lost \subseteq Signals
    BY LinkAt, HeardAt
  <2> QED BY <1>1, <2>1 DEF HeardRows
<1>3. LinksInv'
  BY <1>1, <1>2, LinkAt, LinksRest
<1>4. \A p \in Pushers : pusher'[p].at = "taken" => pusher'[p].to # 0
  BY <1>1 DEF LinkInv, SignalsInv, TakersStand
<1>5. \A r \in QueuedRuns : (UnderWay(r) \/ r \in client.cancels)' => UnderWay(r) \/ r \in client'.cancels
  BY <1>1 DEF UnderWay
<1>6. CASE /\ client' = [client EXCEPT !.loop = "told"] /\ UNCHANGED runs
           /\ \A r \in QueuedRuns : runs[r] # "queued"
  <2>1. client' \in ClientRows /\ client'.loop = "told" /\ client'.cancels = client.cancels
    BY <1>6, LinkAt DEF ClientRows
  <2>2. LinkTyped'
    BY <1>1, <1>2, <1>6, <2>1, LinkAt DEF LinkTyped
  <2>3. TakersStand' /\ WakeStands' /\ CancelStands'
    BY <1>4, <1>6, <2>1 DEF TakersStand, WakeStands, CancelStands
  <2>4. CancelsMeant'
    BY <1>1, <1>6, <2>1 DEF LinkInv, SignalsInv, CancelsMeant, UnderWay
  <2> QED BY <1>3, <2>2, <2>3, <2>4 DEF LinkInv, SignalsInv
<1>7. ASSUME NEW r \in QueuedRuns, runs[r] = "queued",
             client' = [client EXCEPT !.loop = "held", !.run = r, !.killed = FALSE],
             runs' = [runs EXCEPT ![r] = "claimed"]
      PROVE  LinkInv'
  <2>1. /\ client' \in ClientRows /\ client'.loop = "held" /\ client'.run = r /\ client'.killed = FALSE
        /\ client'.cancels = client.cancels /\ r # 0
    <3>1. client \in ClientRows /\ r \in 0..MaxQueued /\ r # 0
      BY LinkAt DEF QueuedRuns
    <3> QED BY <1>7, <3>1 DEF ClientRows
  <2>2. runs' \in [QueuedRuns -> RunStates] /\ runs'[r] = "claimed" /\ \A q \in QueuedRuns : q # r => runs'[q] = runs[q]
    BY <1>7, LinkAt DEF RunStates
  <2>3. LinkTyped'
    BY <1>1, <1>2, <2>1, <2>2, LinkAt DEF LinkTyped
  <2>4. TakersStand' /\ WakeStands' /\ CancelStands'
    BY <1>4, <2>1, <2>2 DEF TakersStand, WakeStands, CancelStands
  <2>5. \A q \in QueuedRuns : runs[q] = "cancelled" => runs'[q] = "cancelled"
    BY <1>7, <2>2
  <2>6. CancelsMeant'
    BY <1>1, <2>1, <2>5 DEF LinkInv, SignalsInv, CancelsMeant, UnderWay
  <2> QED BY <1>3, <2>3, <2>4, <2>6 DEF LinkInv, SignalsInv
<1> QED BY <1>6, <1>7 DEF AskForWork

LEMMA TakeCancelKeeps ==
  ASSUME LinkInv, NEW r \in QueuedRuns, TakeCancel(r)
  PROVE  LinkInv'
<1> PICK dying \in BOOLEAN : dying = (client.killed \/ (client.loop = "working" /\ client.run = r))
  BY ClientAt
<1> PICK cancels : cancels = client.cancels \ {r}
  OBVIOUS
<1>1. /\ r \in client.cancels /\ client' = [client EXCEPT !.cancels = cancels, !.killed = dying]
      /\ UNCHANGED <<line, hub, runs, pusher>>
  BY DEF TakeCancel
<1>2. /\ client' \in ClientRows /\ client'.loop = client.loop /\ client'.run = client.run /\ client'.killed = dying
      /\ client'.cancels = cancels /\ client'.wake = client.wake
  <2>1. client \in ClientRows /\ cancels \subseteq QueuedRuns
    BY ClientAt
  <2> QED BY <1>1, <2>1 DEF ClientRows
<1>3. /\ heard' \in HeardRows /\ heard'.latest = heard.latest /\ heard'.replaced = heard.replaced
      /\ heard'.announced = heard.announced /\ heard.lost \subseteq heard'.lost
      /\ client.loop # "working" => r \in heard'.lost
  <2>1. CASE client.loop = "working"
    BY <2>1, LinkAt DEF TakeCancel
  <2>2. CASE client.loop # "working"
    <3>1. heard' = [heard EXCEPT !.lost = heard.lost \cup {r}]
      BY <2>2 DEF TakeCancel
    <3> QED BY <3>1, LinkAt, LoseSignal
  <2> QED BY <2>1, <2>2
<1>4. LinkTyped' /\ LinksInv'
  <2>1. LinkTyped'
    BY <1>1, <1>2, <1>3, LinkAt DEF LinkTyped
  <2>2. LinksInv'
    BY <1>1, <1>3, LinkAt, LinksRest
  <2> QED BY <2>1, <2>2
<1>5. \A s \in Signals : Borne(s) => Borne(s)'
  BY <1>1, <1>3 DEF Borne, UnderWay
<1>6. runs[r] = "cancelled"
  BY <1>1 DEF LinkInv, SignalsInv, CancelsMeant
<1>7. TakersStand' /\ WakeStands'
  <2>1. TakersStand'
    BY <1>1, <1>2 DEF LinkInv, SignalsInv, TakersStand
  <2>2. WakeStands'
    BY <1>1, <1>2, <1>5, LinkAt DEF LinkInv, SignalsInv, WakeStands
  <2> QED BY <2>1, <2>2
<1>8. CancelsMeant'
  BY <1>1, <1>2 DEF LinkInv, SignalsInv, CancelsMeant, UnderWay
<1>9. CancelStands'
  <2> SUFFICES ASSUME client.loop \in {"held", "working"}
               PROVE  /\ runs[client.run] = "cancelled" => dying \/ client.run \in cancels \/ Borne(client.run)'
                      /\ dying => runs[client.run] = "cancelled"
    BY <1>1, <1>2 DEF CancelStands
  <2> PICK q \in QueuedRuns : q = client.run /\ q \in Signals
    BY ClientAt, LinkAt
  <2>1. /\ runs[q] = "cancelled" => client.killed \/ q \in client.cancels \/ Borne(q)
        /\ client.killed => runs[q] = "cancelled"
    BY DEF LinkInv, SignalsInv, CancelStands
  <2>2. /\ Borne(q) => Borne(q)'
        /\ client.loop # "working" /\ q = r => Borne(q)'
    BY <1>3, <1>5 DEF Borne
  <2>3. /\ runs[q] = "cancelled" => dying \/ q \in cancels \/ Borne(q)'
        /\ dying => runs[q] = "cancelled"
    BY <1>6, <2>1, <2>2
  <2>4. client'.run = q
    BY <1>2
  <2> QED BY <2>3, <2>4
<1> QED BY <1>4, <1>7, <1>8, <1>9 DEF LinkInv, SignalsInv

LEMMA ReceiveSignalKeeps ==
  ASSUME LinkInv, NEW s \in Signals, ReceiveSignal(s)
  PROVE  LinkInv'
<1> PICK n \in Lines : n = client.reads
  BY ClientAt, LinkAt DEF ReceiveSignal
<1> PICK row : row = [line[n] EXCEPT !.carries = line[n].carries \ {s}]
  OBVIOUS
<1>1. /\ row \in LineRows /\ row.handler = line[n].handler /\ row.up = line[n].up /\ row.old = line[n].old
      /\ row.carries = line[n].carries \ {s}
  <2>1. line[n] \in LineRows /\ line[n].carries \ {s} \subseteq Signals
    BY LineAt
  <2> QED BY <2>1 DEF LineRows
<1>2. line' = [line EXCEPT ![n] = row] /\ s \in line[n].carries /\ UNCHANGED <<hub, runs, pusher>>
  BY LinkAt DEF ReceiveSignal
<1>3. line' \in [Lines -> LineRows] /\ line'[n] = row /\ \A m \in Lines : m # n => line'[m] = line[m]
  BY <1>1, <1>2, LineSet
<1>4. /\ \A t \in Signals : UnderWay(t)' => UnderWay(t)
      /\ \A t \in Signals : t # s /\ UnderWay(t) => UnderWay(t)'
      /\ UnderWay(s)
  BY <1>1, <1>2, <1>3 DEF UnderWay
<1>5. \A m \in Lines : /\ line'[m].handler = line[m].handler /\ line'[m].up = line[m].up /\ line'[m].old = line[m].old
                       /\ line'[m].carries # {} /\ line[m].carries = {} => line[m].up
  BY <1>1, <1>3
<1>6. PICK cancels \in SUBSET QueuedRuns, wake \in BOOLEAN :
        /\ client' = [client EXCEPT !.cancels = cancels, !.wake = wake]
        /\ heard' \in HeardRows /\ heard'.latest = heard.latest /\ heard'.replaced = heard.replaced
        /\ heard'.announced = heard.announced /\ heard.lost \subseteq heard'.lost
        /\ client.cancels \subseteq cancels /\ cancels \subseteq client.cancels \cup {s}
        /\ client.wake => wake
        /\ s = Wake => wake /\ cancels = client.cancels
        /\ s # Wake => s \in cancels \/ s \in heard'.lost
  <2>1. /\ client \in ClientRows /\ client.cancels \subseteq QueuedRuns /\ client.wake \in BOOLEAN
        /\ client.cancels = client.cancels
    BY ClientAt
  <2>2. CASE s = Wake
    <3>1. client' = [client EXCEPT !.wake = TRUE] /\ UNCHANGED heard
      <4>1. (client.wake \/ WakeKept) = TRUE
        BY DEF WakeKept
      <4>2. client' = [client EXCEPT !.wake = client.wake \/ WakeKept] /\ UNCHANGED heard
        BY <2>2 DEF ReceiveSignal
      <4> QED BY <4>1, <4>2
    <3>2. client' = [client EXCEPT !.cancels = client.cancels, !.wake = TRUE]
      BY <2>1, <3>1 DEF ClientRows
    <3>3. heard' \in HeardRows /\ heard' = heard
      BY <3>1, LinkAt
    <3> QED BY <2>1, <2>2, <3>2, <3>3
  <2>3. CASE s # Wake /\ client' = [client EXCEPT !.cancels = client.cancels \cup {s}] /\ UNCHANGED heard
    <3>1. client.cancels \cup {s} \in SUBSET QueuedRuns
      BY <2>1, <2>3 DEF Signals
    <3>2. client' = [client EXCEPT !.cancels = client.cancels \cup {s}, !.wake = client.wake]
      BY <2>1, <2>3 DEF ClientRows
    <3>3. heard' \in HeardRows /\ heard' = heard
      BY <2>3, LinkAt
    <3> QED BY <2>1, <2>3, <3>1, <3>2, <3>3
  <2>4. CASE s # Wake /\ heard' = [heard EXCEPT !.lost = heard.lost \cup {s}] /\ UNCHANGED client
    <3>1. client' = [client EXCEPT !.cancels = client.cancels, !.wake = client.wake]
      BY <2>1, <2>4 DEF ClientRows
    <3>2. /\ heard' \in HeardRows /\ heard'.latest = heard.latest /\ heard'.replaced = heard.replaced
          /\ heard'.announced = heard.announced /\ heard'.lost = heard.lost \cup {s}
      BY <2>4, LoseSignal
    <3> QED BY <2>1, <2>4, <3>1, <3>2
  <2> QED BY <2>2, <2>3, <2>4 DEF ReceiveSignal
<1>7. /\ client' \in ClientRows /\ client'.cancels = cancels /\ client'.wake = wake /\ client'.loop = client.loop
      /\ client'.run = client.run /\ client'.killed = client.killed
  BY <1>6, ClientAt DEF ClientRows
<1>8. LinkTyped' /\ LinksInv'
  <2>1. LinkTyped'
    BY <1>2, <1>3, <1>6, <1>7, LinkAt DEF LinkTyped
  <2>2. LinksInv'
    BY <1>2, <1>3, <1>5, <1>6, LinksRest
  <2> QED BY <2>1, <2>2
<1>9. \A t \in Signals : t # s /\ Borne(t) => Borne(t)'
  BY <1>4, <1>6 DEF Borne
<1>10. TakersStand'
  BY <1>2, <1>7 DEF LinkInv, SignalsInv, TakersStand
<1>11. CancelsMeant'
  BY <1>2, <1>4, <1>6, <1>7, LinkAt DEF LinkInv, SignalsInv, CancelsMeant
<1>12. WakeStands'
  BY <1>2, <1>6, <1>7, <1>9, LinkAt DEF LinkInv, SignalsInv, WakeStands
<1>13. CancelStands'
  <2> SUFFICES ASSUME client.loop \in {"held", "working"}
               PROVE  /\ runs[client.run] = "cancelled" =>
                           client.killed \/ client.run \in cancels \/ Borne(client.run)'
                      /\ client.killed => runs[client.run] = "cancelled"
    BY <1>2, <1>7 DEF CancelStands
  <2> PICK q \in QueuedRuns : q = client.run /\ q \in Signals /\ q # Wake
    BY ClientAt, LinkAt
  <2>1. /\ runs[q] = "cancelled" => client.killed \/ q \in client.cancels \/ Borne(q)
        /\ client.killed => runs[q] = "cancelled"
    BY DEF LinkInv, SignalsInv, CancelStands
  <2>2. q # s /\ Borne(q) => Borne(q)'
    BY <1>9
  <2>3. q = s => q \in cancels \/ Borne(q)'
    BY <1>6 DEF Borne
  <2>4. runs[q] = "cancelled" => client.killed \/ q \in cancels \/ Borne(q)'
    BY <1>6, <2>1, <2>2, <2>3
  <2>5. client'.run = q
    BY <1>7
  <2> QED BY <2>1, <2>4, <2>5
<1> QED BY <1>8, <1>10, <1>11, <1>12, <1>13 DEF LinkInv, SignalsInv

--------------------------------------------------------------------------------
(* The theorem *)

LEMMA LinkStep ==
  ASSUME LinkInv, [LinkNext]_linkVars
  PROVE  LinkInv'
<1>1. CASE UNCHANGED linkVars
  <2>1. UNCHANGED <<line, hub, client, runs, pusher, heard>>
    BY <1>1 DEF linkVars
  <2>2. LinkTyped' /\ LinksInv'
    BY <2>1 DEF LinkInv, LinkTyped, LinksInv, LinesStand, HubStands, TellersStand, OnlyTheLastTells
  <2>3. TakersStand' /\ CancelsMeant'
    BY <2>1 DEF LinkInv, SignalsInv, TakersStand, CancelsMeant, UnderWay
  <2>4. WakeStands' /\ CancelStands'
    BY <2>1 DEF LinkInv, SignalsInv, WakeStands, CancelStands, Borne, UnderWay
  <2> QED BY <2>2, <2>3, <2>4 DEF LinkInv, SignalsInv
<1>2. CASE LinkNext
  BY <1>2, AttachLineKeeps, CloseReplacedKeeps, ReadFailsKeeps, DetachLineKeeps, TellOfflineKeeps, ServerStopsKeeps,
     QueueWorkKeeps, CancelWorkKeeps, TakeLineKeeps, WriteSignalKeeps, DialKeeps, LinkBreaksKeeps, SessionEndsKeeps,
     ReceiveSignalKeeps, AskForWorkKeeps, BeginWaitKeeps, EndWaitKeeps, BeginRunKeeps, TakeCancelKeeps, EndRunKeeps
  DEF LinkNext
<1> QED BY <1>1, <1>2

\* The hub knows the newest connection until its handler leaves, no replaced connection
\* announces that the worker is gone, and no wake-up or cancellation is missed unless the
\* link is known to have lost it, for any number of connections, calls, runs and restarts:
\* the link's case of WorkIsHonest.
THEOREM LinkTrue == LinkSpec => []LinkIsTrue
<1>1. LinkInit => LinkInv
  BY LinkInitial
<1>2. LinkInv /\ [LinkNext]_linkVars => LinkInv'
  BY LinkStep
<1>3. LinkInv => LinkIsTrue
  <2> SUFFICES ASSUME LinkInv PROVE LinkIsTrue
    OBVIOUS
  <2>1. LinkTypeOK
    BY DEF LinkInv, LinkTyped, LinkTypeOK, LineRows, ClientRows, PushRows, HeardRows, RunStates
  <2>2. HubKnowsTheNewest
    BY DEF LinkInv, LinksInv, HubStands, HubKnowsTheNewest, Attached
  <2>3. OnlyTheLastTells
    BY DEF LinkInv, LinksInv, TellersStand
  <2>4. NoWakeUpMissed
    BY DEF LinkInv, SignalsInv, WakeStands, NoWakeUpMissed, Borne
  <2>5. NoCancelMissed
    BY DEF LinkInv, SignalsInv, CancelStands, NoCancelMissed, Borne
  <2> QED BY <2>1, <2>2, <2>3, <2>4, <2>5 DEF LinkIsTrue
<1> QED BY <1>1, <1>2, <1>3, PTL DEF LinkSpec

--------------------------------------------------------------------------------
(* Learning: what was found is known, and what is published was wanted.  The rows  *)
(* of candidates and entries stand whatever a miner and a reviewer do at the same  *)
(* time, so it is enough to look at the one that moves.                            *)

LearntTexts       == Findings \cup {"none"}
Titles      == {Title(f) : f \in Findings} \cup {"none"}
MiningJobs  == [status : {"none", "pending", "processing", "done", "failed"}, attempts : Nat]
MinerRows   == [pc : {"idle", "mine", "audit", "link", "ack"}, of : Messages \cup {"none"}, claim : Nat,
                found : SUBSET Findings, erred : BOOLEAN, text : LearntTexts, title : Titles, entry : 0 .. MaxEntries,
                cand : 0 .. MaxCandidates]
LearntCands == [text : LearntTexts, title : Titles, class : {"none", "durable", "unclassified", "canonical"},
                status : {"none", "pending", "published", "rejected"}, entry : 0 .. MaxEntries]
LearntRows  == [text : LearntTexts, title : Titles, active : BOOLEAN]
ReviewRows  == [pc : {"idle", "publish", "mark"}, cand : 0 .. MaxCandidates, entry : 0 .. MaxEntries]

LearningTyped ==
  /\ mining \in [Messages -> MiningJobs]
  /\ \A m \in Messages : mining[m].attempts <= MaxMining
  /\ miner \in [Miners -> MinerRows]
  /\ candidate \in [Cands -> LearntCands]
  /\ entry \in [Slots -> LearntRows]
  /\ review \in [Reviewers -> ReviewRows]
  /\ settled \in [Messages -> SUBSET Findings]

\* What has been an entry, or is known to a candidate.
KnownTexts == learnt \cup {candidate[c].text : c \in {d \in Cands : candidate[d].status # "none"}}

Recorded(k) == k \in Slots /\ entry[k].text \in Findings

\* A candidate is marked with an entry exactly when it is published, and when it is taken
\* back its entry is out of the memory.
CandSound(c) ==
  /\ candidate[c].status # "none" => candidate[c].text \in Findings
  /\ candidate[c].status \in {"none", "pending"} => candidate[c].entry = 0
  /\ candidate[c].status = "published" => candidate[c].class = "durable" /\ candidate[c].entry # 0
  /\ candidate[c].entry # 0 => Recorded(candidate[c].entry)
  /\ candidate[c].status = "rejected" /\ candidate[c].entry # 0 => ~entry[candidate[c].entry].active

\* A candidate that somebody publishes is durable as long as nobody has decided on it.
Publishes(c) ==
  c \in Cands /\ candidate[c].status # "none" /\ (candidate[c].status = "pending" => candidate[c].class = "durable")

MinerSound(p) ==
  /\ miner[p].pc # "idle" => miner[p].of \in Messages
  /\ ~miner[p].erred => miner[p].found \subseteq KnownTexts
  /\ miner[p].pc \in {"audit", "link"} => miner[p].text \in Findings /\ Recorded(miner[p].entry)
  /\ miner[p].pc = "link" => Publishes(miner[p].cand)

ReviewSound(r) ==
  /\ review[r].pc # "idle" => Publishes(review[r].cand)
  /\ review[r].pc = "mark" => Recorded(review[r].entry)

LearningInv ==
  /\ LearningTyped /\ FailedAfterAll
  /\ \A c \in Cands : CandSound(c)
  /\ \A p \in Miners : MinerSound(p)
  /\ \A r \in Reviewers : ReviewSound(r)
  /\ \A m \in Messages : settled[m] \subseteq KnownTexts

LEMMA BlankRows ==
  /\ NoJob \in MiningJobs /\ NoJob.attempts = 0 /\ NoJob.status = "none"
  /\ NoMiner \in MinerRows /\ NoMiner.pc = "idle" /\ NoMiner.found = {}
  /\ NoCand \in LearntCands /\ NoCand.status = "none" /\ NoCand.entry = 0
  /\ NoRow \in LearntRows /\ NoRow.text \notin Findings
  /\ NoReview \in ReviewRows /\ NoReview.pc = "idle"
<1>1. 0 \in 0 .. MaxEntries /\ 0 \in 0 .. MaxCandidates /\ "none" \in LearntTexts /\ "none" \in Titles
  BY LearningAssumption DEF LearntTexts, Titles
<1>2. NoJob \in MiningJobs /\ NoJob.attempts = 0 /\ NoJob.status = "none"
  BY DEF NoJob, MiningJobs
<1>3. NoMiner \in MinerRows /\ NoMiner.pc = "idle" /\ NoMiner.found = {}
  BY <1>1 DEF NoMiner, MinerRows
<1>4. NoCand \in LearntCands /\ NoCand.status = "none" /\ NoCand.entry = 0
  BY <1>1 DEF NoCand, LearntCands
<1>5. NoRow \in LearntRows /\ NoRow.text \notin Findings
  BY <1>1, LearningAssumption DEF NoRow, LearntRows
<1>6. NoReview \in ReviewRows /\ NoReview.pc = "idle"
  BY <1>1 DEF NoReview, ReviewRows
<1> QED BY <1>2, <1>3, <1>4, <1>5, <1>6

LEMMA LearningInitial == LearningInit => LearningInv
<1> SUFFICES ASSUME LearningInit PROVE LearningInv
  OBVIOUS
<1>1. /\ \A m \in Messages : mining[m] = NoJob /\ settled[m] = {}
      /\ \A p \in Miners : miner[p] = NoMiner
      /\ \A c \in Cands : candidate[c] = NoCand
      /\ \A r \in Reviewers : review[r] = NoReview
  BY DEF LearningInit
<1>2. LearningTyped
  <2>1. 0 <= MaxMining
    BY LearningAssumption
  <2> QED BY <1>1, <2>1, BlankRows DEF LearningInit, LearningTyped
<1> QED BY <1>1, <1>2, BlankRows
        DEF LearningInv, FailedAfterAll, CandSound, MinerSound, ReviewSound

--------------------------------------------------------------------------------
(* What every step keeps *)

\* Texts are kept, what was taken back stays out, and a decided candidate stays decided.
RowsStand ==
  /\ learnt \subseteq learnt'
  /\ \A k \in Slots : entry[k].text \in Findings =>
       entry'[k].text \in Findings /\ (~entry[k].active => ~entry'[k].active)
  /\ \A c \in Cands : candidate[c].status # "none" =>
       /\ candidate'[c].status # "none" /\ candidate'[c].text = candidate[c].text
       /\ candidate'[c].status = "pending" =>
            candidate[c].status = "pending" /\ (candidate[c].class = "durable" => candidate'[c].class = "durable")

LEMMA KnownTextsGrow == ASSUME RowsStand PROVE KnownTexts \subseteq KnownTexts'
BY DEF RowsStand, KnownTexts

LEMMA RecordedStays == ASSUME RowsStand, NEW k, Recorded(k) PROVE Recorded(k)'
BY DEF RowsStand, Recorded

LEMMA PublishesStays == ASSUME RowsStand, NEW c, Publishes(c) PROVE Publishes(c)'
BY DEF RowsStand, Publishes

LEMMA CandStays ==
  ASSUME RowsStand, LearningInv, NEW c \in Cands, candidate'[c] = candidate[c]
  PROVE  CandSound(c)'
<1>1. CandSound(c)
  BY DEF LearningInv
<1> PICK k : k = candidate[c].entry
  OBVIOUS
<1>2. k # 0 => Recorded(k)
  BY <1>1 DEF CandSound
<1>3. k # 0 => Recorded(k)'
  BY <1>2, RecordedStays
<1>4. (candidate[c].status = "rejected" /\ k # 0) => ~entry'[k].active
  BY <1>1, <1>2 DEF CandSound, RowsStand, Recorded
<1> QED BY <1>1, <1>3, <1>4 DEF CandSound, Recorded

LEMMA MinerStays ==
  ASSUME RowsStand, LearningInv, NEW p \in Miners, miner'[p] = miner[p]
  PROVE  MinerSound(p)'
<1>1. MinerSound(p)
  BY DEF LearningInv
<1> PICK k : k = miner[p].entry
  OBVIOUS
<1> PICK c : c = miner[p].cand
  OBVIOUS
<1>2. (Recorded(k) => Recorded(k)') /\ (Publishes(c) => Publishes(c)')
  BY RecordedStays, PublishesStays
<1>3. miner[p].pc \in {"audit", "link"} => Recorded(miner[p].entry)'
  BY <1>1, <1>2 DEF MinerSound, Recorded
<1>4. miner[p].pc = "link" => Publishes(miner[p].cand)'
  BY <1>1, <1>2 DEF MinerSound, Publishes
<1> QED BY <1>1, <1>3, <1>4, KnownTextsGrow DEF MinerSound, Recorded, Publishes

LEMMA ReviewStays ==
  ASSUME RowsStand, LearningInv, NEW r \in Reviewers, review'[r] = review[r]
  PROVE  ReviewSound(r)'
<1>1. ReviewSound(r)
  BY DEF LearningInv
<1> PICK k : k = review[r].entry
  OBVIOUS
<1> PICK c : c = review[r].cand
  OBVIOUS
<1>2. (Recorded(k) => Recorded(k)') /\ (Publishes(c) => Publishes(c)')
  BY RecordedStays, PublishesStays
<1> QED BY <1>1, <1>2 DEF ReviewSound, Recorded, Publishes

LEMMA SameRowsStand == ASSUME UNCHANGED <<learnt, entry, candidate>> PROVE RowsStand
BY DEF RowsStand

\* Whoever did not move agrees with the rows as before.
LEMMA LearningKept ==
  ASSUME LearningInv, RowsStand, LearningTyped', FailedAfterAll',
         \A c \in Cands : candidate'[c] # candidate[c] => CandSound(c)',
         \A p \in Miners : miner'[p] # miner[p] => MinerSound(p)',
         \A r \in Reviewers : review'[r] # review[r] => ReviewSound(r)',
         \A m \in Messages : settled'[m] \subseteq KnownTexts'
  PROVE  LearningInv'
<1>1. \A c \in Cands : CandSound(c)'
  BY CandStays
<1>2. \A p \in Miners : MinerSound(p)'
  BY MinerStays
<1>3. \A r \in Reviewers : ReviewSound(r)'
  BY ReviewStays
<1> QED BY <1>1, <1>2, <1>3 DEF LearningInv

LEMMA SettledStays == ASSUME LearningInv, RowsStand, UNCHANGED settled PROVE \A m \in Messages : settled'[m] \subseteq KnownTexts'
BY KnownTextsGrow DEF LearningInv

\* A set of natural numbers has a least element.
LEMMA LeastNumber ==
  ASSUME NEW S, S \subseteq Nat, S # {}
  PROVE  \E m \in S : \A n \in S : m <= n
<1>1. PICK s \in S : s \in Nat
  OBVIOUS
<1> DEFINE I == 0 .. s
           T == {0 .. i : i \in S \cap I}
<1>2. T \subseteq FiniteSubsetsOf(I) /\ T # {}
  <2>1. IsFiniteSet(I)
    BY <1>1, FS_Interval
  <2>2. ASSUME NEW i \in S \cap I PROVE 0 .. i \in FiniteSubsetsOf(I)
    <3>1. 0 .. i \subseteq I
      BY <1>1
    <3>2. IsFiniteSet(0 .. i)
      BY <2>1, <3>1, FS_Subset
    <3> QED BY <3>1, <3>2 DEF FiniteSubsetsOf
  <2>3. s \in S \cap I
    BY <1>1
  <2> QED BY <2>2, <2>3
<1>3. IsFiniteSet(I)
  BY <1>1, FS_Interval
<1>4. PICK X \in T : \A Y \in T : <<Y, X>> \notin StrictSubsetOrdering(I)
  <2> HIDE DEF T, I
  <2> QED BY <1>2, <1>3, WFMin, FS_StrictSubsetOrderingWellFounded
<1>5. PICK m \in S \cap I : X = 0 .. m
  OBVIOUS
<1>6. ASSUME NEW n \in S, ~(m <= n) PROVE FALSE
  <2>1. n \in Nat /\ m \in Nat /\ m <= s /\ n < m
    BY <1>1, <1>6
  <2>2. n \in S \cap I /\ 0 .. n \subseteq X /\ m \in X /\ m \notin 0 .. n /\ X \subseteq I
    BY <1>1, <1>5, <2>1
  <2>3. 0 .. n \in T
    BY <2>2
  <2> DEFINE Y == 0 .. n
  <2>4. Y \subseteq X /\ Y # X
    BY <2>2
  <2> HIDE DEF Y
  <2>5. <<Y, X>> \in StrictSubsetOrdering(I)
    BY <2>2, <2>4 DEF StrictSubsetOrdering
  <2> QED BY <1>4, <2>3, <2>5 DEF Y
<1> QED BY <1>6

LEMMA NextIsFree == ASSUME NEW free, free \subseteq Nat, free # {} PROVE NextOf(free) \in free
BY LeastNumber DEF NextOf

LEMMA NewCandRow ==
  ASSUME NEW f \in Findings, NEW title \in Titles, NEW class \in {"durable", "unclassified"},
         NEW row, row = NewCand(f, title, class)
  PROVE  /\ row \in LearntCands /\ row.text = f /\ row.class = class
         /\ row.status = "pending" /\ row.entry = 0
<1>1. 0 \in 0 .. MaxEntries /\ f \in LearntTexts
  BY LearningAssumption DEF LearntTexts
<1> QED BY <1>1 DEF NewCand, LearntCands

\* A candidate is added where there was none.
LEMMA CandidateAdded ==
  ASSUME LearningInv, FreeCands # {}, NEW row \in LearntCands, row.text \in Findings, row.status = "pending", row.entry = 0,
         NEW c, c = NextOf(FreeCands), candidate' = [candidate EXCEPT ![c] = row], UNCHANGED <<learnt, entry>>
  PROVE  /\ c \in Cands /\ candidate[c].status = "none"
         /\ candidate' \in [Cands -> LearntCands] /\ row.text \in KnownTexts' /\ RowsStand
         /\ candidate'[c] = row /\ \A d \in Cands : d # c => candidate'[d] = candidate[d]
         /\ CandSound(c)'
<1>1. c \in Cands /\ candidate[c].status = "none" /\ candidate \in [Cands -> LearntCands]
  <2>1. FreeCands \subseteq Nat
    BY LearningAssumption DEF FreeCands, Cands
  <2>2. c \in FreeCands
    BY <2>1, NextIsFree
  <2> QED BY <2>2, BlankRows DEF FreeCands, LearningInv, LearningTyped
<1>2. /\ candidate' \in [Cands -> LearntCands] /\ candidate'[c] = row
      /\ \A d \in Cands : d # c => candidate'[d] = candidate[d]
  BY <1>1
<1>3. RowsStand
  BY <1>1, <1>2 DEF RowsStand
<1>4. row.text \in KnownTexts'
  BY <1>1, <1>2 DEF KnownTexts
<1> QED BY <1>1, <1>2, <1>3, <1>4 DEF CandSound

\* A text is saved in a free row, or over an active rule.
LEMMA EntrySaved ==
  ASSUME LearningInv, NEW f \in Findings, NEW title \in Titles, HasPlace(title), Save(f, title), UNCHANGED candidate,
         NEW k, k = Place(title)
  PROVE  /\ entry' \in [Slots -> LearntRows] /\ k \in Slots /\ Recorded(k)' /\ f \in learnt' /\ f \in KnownTexts' /\ RowsStand
<1>1. entry \in [Slots -> LearntRows] /\ Slots \subseteq Nat
  BY LearningAssumption DEF LearningInv, LearningTyped, Slots
<1>2. k \in Slots /\ (entry[k].text \in Findings => entry[k].active)
  <2>1. CASE SameRule(title) # {}
    <3>1. k \in SameRule(title)
      BY <1>1, <2>1, NextIsFree DEF Place, SameRule
    <3> QED BY <3>1 DEF SameRule
  <2>2. CASE SameRule(title) = {}
    <3>1. k \in FreeSlots
      BY <1>1, <2>2, NextIsFree DEF Place, HasPlace, FreeSlots
    <3> QED BY <3>1, BlankRows DEF FreeSlots
  <2> QED BY <2>1, <2>2
<1>3. [text |-> f, title |-> title, active |-> TRUE] \in LearntRows
  BY DEF LearntRows, LearntTexts
<1>4. entry' = [entry EXCEPT ![k] = [text |-> f, title |-> title, active |-> TRUE]] /\ learnt' = learnt \cup {f}
  BY DEF Save
<1>5. /\ entry' \in [Slots -> LearntRows] /\ entry'[k].text = f
      /\ \A o \in Slots : o # k => entry'[o] = entry[o]
  BY <1>1, <1>2, <1>3, <1>4
<1>6. RowsStand
  BY <1>2, <1>4, <1>5 DEF RowsStand
<1> QED BY <1>2, <1>4, <1>5, <1>6 DEF Recorded, KnownTexts

\* A candidate that waits is marked with the entry it became.
LEMMA CandidateMarked ==
  ASSUME LearningInv, NEW c, Publishes(c), NEW k, Recorded(k),
         candidate' = IF Markable(c) THEN PublishedAs(c, k) ELSE candidate, UNCHANGED <<learnt, entry>>
  PROVE  candidate' \in [Cands -> LearntCands] /\ RowsStand /\ \A d \in Cands : CandSound(d)'
<1>1. candidate \in [Cands -> LearntCands] /\ c \in Cands /\ CandSound(c) /\ k \in Slots /\ k # 0
  BY LearningAssumption DEF LearningInv, LearningTyped, Publishes, Recorded, Slots
<1>2. CASE ~Markable(c)
  <2>1. RowsStand
    BY <1>2, SameRowsStand
  <2> QED BY <1>1, <1>2, <2>1, CandStays
<1>3. CASE Markable(c)
  <2> PICK row : row = [candidate[c] EXCEPT !.status = "published", !.entry = k]
    OBVIOUS
  <2>1. candidate[c] \in LearntCands /\ k \in 0 .. MaxEntries
    BY <1>1, LearningAssumption DEF Slots
  <2>2. /\ row \in LearntCands /\ row.status = "published" /\ row.entry = k /\ row.text = candidate[c].text
        /\ row.class = candidate[c].class
    BY <2>1 DEF LearntCands
  <2>3. candidate' = [candidate EXCEPT ![c] = row]
    BY <1>1, <1>3 DEF PublishedAs
  <2>4. /\ candidate' \in [Cands -> LearntCands] /\ candidate'[c] = row
        /\ \A d \in Cands : d # c => candidate'[d] = candidate[d]
    BY <1>1, <2>2, <2>3
  <2>5. candidate[c].status = "pending" /\ row.class = "durable" /\ row.text \in Findings
    BY <1>1, <1>3, <2>2 DEF Markable, Publishes, CandSound
  <2>6. RowsStand
    BY <2>2, <2>4, <2>5 DEF RowsStand
  <2>7. CandSound(c)'
    <3>1. Recorded(k)'
      BY <2>6, RecordedStays
    <3> QED BY <1>1, <2>2, <2>4, <2>5, <3>1 DEF CandSound, Recorded
  <2> QED BY <2>4, <2>6, <2>7, CandStays
<1> QED BY <1>2, <1>3

--------------------------------------------------------------------------------
(* The queue *)

LEMMA MinerAt ==
  ASSUME LearningInv, NEW p \in Miners
  PROVE  miner[p] \in MinerRows /\ MinerSound(p)
BY DEF LearningInv, LearningTyped

\* One miner moves, and the rows stand.
LEMMA MinerMoves ==
  ASSUME LearningInv, RowsStand, NEW p \in Miners, NEW next \in MinerRows, miner' = [miner EXCEPT ![p] = next],
         UNCHANGED <<mining, review, settled>>, candidate' \in [Cands -> LearntCands], entry' \in [Slots -> LearntRows],
         \A c \in Cands : candidate'[c] # candidate[c] => CandSound(c)',
         next.pc # "idle" => next.of \in Messages,
         ~next.erred => next.found \subseteq KnownTexts',
         next.pc \in {"audit", "link"} => next.text \in Findings /\ Recorded(next.entry)',
         next.pc = "link" => Publishes(next.cand)'
  PROVE  LearningInv'
<1>1. miner' \in [Miners -> MinerRows] /\ miner'[p] = next /\ \A q \in Miners : q # p => miner'[q] = miner[q]
  BY DEF LearningInv, LearningTyped
<1>2. LearningTyped' /\ FailedAfterAll'
  BY <1>1 DEF LearningInv, LearningTyped, FailedAfterAll
<1>3. MinerSound(p)'
  BY <1>1 DEF MinerSound, Recorded, Publishes
<1>4. \A q \in Miners : miner'[q] # miner[q] => MinerSound(q)'
  BY <1>1, <1>3
<1>5. \A r \in Reviewers : review'[r] # review[r] => ReviewSound(r)'
  OBVIOUS
<1> QED BY <1>2, <1>4, <1>5, SettledStays, LearningKept

LEMMA QueueKeeps ==
  ASSUME LearningInv, NEW m \in Messages,
         TurnCompletes(m) \/ ExhaustMining(m) \/ \E p \in Miners : DueMemoryMiningJobs(p, m)
  PROVE  LearningInv'
<1>1. /\ mining \in [Messages -> MiningJobs] /\ mining[m].attempts \in Nat /\ mining[m].attempts <= MaxMining
      /\ mining[m] \in MiningJobs /\ MaxMining \in Nat
  BY LearningAssumption DEF LearningInv, LearningTyped, MiningJobs
<1>2. UNCHANGED <<candidate, entry, learnt, review, settled>>
  BY DEF TurnCompletes, ExhaustMining, DueMemoryMiningJobs
<1>3. RowsStand
  BY <1>2, SameRowsStand
<1>4. CASE TurnCompletes(m) \/ ExhaustMining(m)
  <2> PICK mined : mined = IF mining[m] = NoJob THEN [status |-> "pending", attempts |-> 0] ELSE [mining[m] EXCEPT !.status = "failed"]
    OBVIOUS
  <2>1. mining' = [mining EXCEPT ![m] = mined] /\ UNCHANGED miner
    BY <1>4, BlankRows DEF TurnCompletes, ExhaustMining, Takeable
  <2>2. mined \in MiningJobs /\ mined.attempts <= MaxMining /\ (mined.status = "failed" => mined.attempts = MaxMining)
    <3>1. CASE mining[m] = NoJob
      BY <1>1, <3>1 DEF MiningJobs
    <3>2. CASE mining[m] # NoJob
      <4>1. mining[m].attempts = MaxMining
        BY <1>1, <1>4, <3>2 DEF TurnCompletes, ExhaustMining
      <4>2. mined \in MiningJobs /\ mined.attempts = mining[m].attempts
        BY <1>1, <3>2 DEF MiningJobs
      <4> QED BY <1>1, <4>1, <4>2
    <3> QED BY <3>1, <3>2
  <2>3. mining' \in [Messages -> MiningJobs] /\ mining'[m] = mined /\ \A n \in Messages : n # m => mining'[n] = mining[n]
    BY <1>1, <2>1, <2>2
  <2>4. LearningTyped' /\ FailedAfterAll'
    BY <1>2, <2>1, <2>2, <2>3 DEF LearningInv, LearningTyped, FailedAfterAll
  <2> QED BY <1>2, <1>3, <2>1, <2>4, SettledStays, LearningKept
<1>5. ASSUME NEW p \in Miners, DueMemoryMiningJobs(p, m) PROVE LearningInv'
  <2> PICK claim \in Nat : claim = mining[m].attempts + 1
    BY <1>1
  <2>1. claim <= MaxMining
    BY <1>1, <1>5 DEF DueMemoryMiningJobs
  <2> PICK mined : mined = [status |-> "processing", attempts |-> claim]
    OBVIOUS
  <2> PICK next : next = [NoMiner EXCEPT !.pc = "mine", !.of = m, !.claim = claim]
    OBVIOUS
  <2>2. mining' = [mining EXCEPT ![m] = mined] /\ miner' = [miner EXCEPT ![p] = next]
    BY <1>1, <1>5 DEF DueMemoryMiningJobs
  <2>3. mining' \in [Messages -> MiningJobs] /\ mining'[m] = mined /\ \A n \in Messages : n # m => mining'[n] = mining[n]
    BY <1>1, <2>2 DEF MiningJobs
  <2>4. next \in MinerRows /\ next.pc = "mine" /\ next.of = m /\ next.found = {}
    BY BlankRows DEF MinerRows
  <2>5. miner' \in [Miners -> MinerRows] /\ miner'[p] = next /\ \A q \in Miners : q # p => miner'[q] = miner[q]
    BY <2>2, <2>4 DEF LearningInv, LearningTyped
  <2>6. LearningTyped' /\ FailedAfterAll'
    BY <1>2, <2>1, <2>3, <2>5 DEF LearningInv, LearningTyped, FailedAfterAll
  <2>7. MinerSound(p)'
    BY <2>4, <2>5 DEF MinerSound
  <2>8. \A q \in Miners : miner'[q] # miner[q] => MinerSound(q)'
    BY <2>5, <2>7
  <2> QED BY <1>2, <1>3, <2>6, <2>8, SettledStays, LearningKept
<1> QED BY <1>4, <1>5

LEMMA MineKeeps ==
  ASSUME LearningInv, NEW p \in Miners, MineFails(p) \/ MineEnds(p)
  PROVE  LearningInv'
<1>1. miner[p].pc = "mine" /\ UNCHANGED <<mining, candidate, entry, learnt, review, settled>>
  BY DEF MineFails, MineEnds
<1>2. miner[p] \in MinerRows /\ MinerSound(p)
  BY MinerAt
<1> PICK erred \in BOOLEAN : erred = IF MineFails(p) THEN TRUE ELSE miner[p].erred
  BY <1>2 DEF MinerRows
<1> PICK next : next = [miner[p] EXCEPT !.pc = "ack", !.erred = erred]
  OBVIOUS
<1>3. next \in MinerRows /\ next.pc = "ack" /\ next.of = miner[p].of /\ next.found = miner[p].found /\ next.erred = erred
  BY <1>2 DEF MinerRows
<1>4. miner' = [miner EXCEPT ![p] = next]
  <2>1. CASE MineFails(p)
    <3>1. erred = TRUE
      BY <2>1
    <3> QED BY <2>1, <3>1 DEF MineFails, LearningInv, LearningTyped
  <2>2. CASE ~MineFails(p)
    <3>1. next = [miner[p] EXCEPT !.pc = "ack"]
      <4>1. erred = miner[p].erred
        BY <2>2
      <4> QED BY <1>2, <4>1 DEF MinerRows
    <3>2. miner' = [miner EXCEPT ![p] = [miner[p] EXCEPT !.pc = "ack"]]
      BY <2>2 DEF MineEnds, LearningInv, LearningTyped
    <3> QED BY <3>1, <3>2
  <2> QED BY <2>1, <2>2
<1>5. RowsStand /\ candidate' \in [Cands -> LearntCands] /\ entry' \in [Slots -> LearntRows]
  BY <1>1, SameRowsStand DEF LearningInv, LearningTyped
<1>6. ~erred => ~miner[p].erred
  BY <1>2 DEF MinerRows
<1>7. (next.pc # "idle" => next.of \in Messages) /\ (~next.erred => next.found \subseteq KnownTexts')
  BY <1>1, <1>2, <1>3, <1>5, <1>6, KnownTextsGrow DEF MinerSound
<1> QED BY <1>1, <1>3, <1>4, <1>5, <1>7, MinerMoves

\* What a miner has found, and whether it could be written.
LEMMA FindingRecorded ==
  ASSUME LearningInv, NEW p \in Miners, NEW f \in Findings, miner[p].pc = "mine",
         NEW now, now = Noted(miner[p], f)
  PROVE  /\ now \in MinerRows /\ now.pc = "mine" /\ now.of \in Messages /\ now.found = miner[p].found \cup {f}
         /\ now.erred = miner[p].erred /\ (~now.erred => miner[p].found \subseteq KnownTexts)
<1>1. miner[p] \in MinerRows /\ MinerSound(p)
  BY MinerAt
<1> PICK row \in MinerRows : row = miner[p]
  BY <1>1
<1> PICK found : found = row.found \cup {f}
  OBVIOUS
<1>2. found \subseteq Findings /\ now = [row EXCEPT !.found = found]
  BY DEF Noted, MinerRows
<1>3. now \in MinerRows /\ now.pc = row.pc /\ now.of = row.of /\ now.found = found /\ now.erred = row.erred
  BY <1>2 DEF MinerRows
<1> QED BY <1>1, <1>3 DEF MinerSound

LEMMA Erred ==
  ASSUME NEW now \in MinerRows, NEW next, next = Errs(now)
  PROVE  next \in MinerRows /\ next.pc = now.pc /\ next.of = now.of /\ next.erred
BY DEF Errs, MinerRows

LEMMA FindForReviewKeeps ==
  ASSUME LearningInv, NEW p \in Miners, NEW f \in Findings, NEW class \in {"durable", "unclassified"},
         FindForReview(p, f, class)
  PROVE  LearningInv'
<1>1. miner[p].pc = "mine" /\ UNCHANGED <<mining, entry, learnt, review, settled>>
  BY DEF FindForReview, Finds
<1>2. Title(f) \in Titles
  BY DEF Titles
<1> PICK now : now = Noted(miner[p], f)
  OBVIOUS
<1>3. /\ now \in MinerRows /\ now.pc = "mine" /\ now.of \in Messages /\ now.found = miner[p].found \cup {f}
      /\ (~now.erred => miner[p].found \subseteq KnownTexts)
  BY <1>1, FindingRecorded
<1>4. entry' \in [Slots -> LearntRows]
  BY <1>1 DEF LearningInv, LearningTyped
<1>5. CASE /\ FreeCands # {} /\ candidate' = [candidate EXCEPT ![NextOf(FreeCands)] = NewCand(f, Title(f), class)]
           /\ miner' = [miner EXCEPT ![p] = now]
  <2> PICK c : c = NextOf(FreeCands)
    OBVIOUS
  <2> PICK row : row = NewCand(f, Title(f), class)
    OBVIOUS
  <2>0. row \in LearntCands /\ row.text = f /\ row.status = "pending" /\ row.entry = 0
    BY <1>2, NewCandRow
  <2>1. /\ candidate' \in [Cands -> LearntCands] /\ f \in KnownTexts' /\ RowsStand /\ CandSound(c)'
        /\ \A d \in Cands : d # c => candidate'[d] = candidate[d]
    <3>1. FreeCands # {} /\ candidate' = [candidate EXCEPT ![c] = row] /\ UNCHANGED <<learnt, entry>>
      BY <1>1, <1>5
    <3>2. row.text \in Findings
      BY <2>0
    <3>3. /\ candidate' \in [Cands -> LearntCands] /\ row.text \in KnownTexts' /\ RowsStand /\ CandSound(c)'
          /\ \A d \in Cands : d # c => candidate'[d] = candidate[d]
      BY <2>0, <3>1, <3>2, CandidateAdded
    <3> QED BY <2>0, <3>3
  <2>2. ~now.erred => now.found \subseteq KnownTexts'
    BY <1>3, <2>1, KnownTextsGrow
  <2>3. \A d \in Cands : candidate'[d] # candidate[d] => CandSound(d)'
    BY <2>1
  <2> QED BY <1>1, <1>3, <1>4, <1>5, <2>1, <2>2, <2>3, MinerMoves
<1>6. CASE Clashes(NewCand(f, Title(f), class)) /\ miner' = [miner EXCEPT ![p] = now] /\ UNCHANGED candidate
  <2>1. RowsStand /\ candidate' \in [Cands -> LearntCands]
    BY <1>1, <1>6, SameRowsStand DEF LearningInv, LearningTyped
  <2>2. f \in KnownTexts'
    BY <1>6 DEF Clashes, IsLive, NewCand, KnownTexts
  <2>3. ~now.erred => now.found \subseteq KnownTexts'
    BY <1>3, <2>1, <2>2, KnownTextsGrow
  <2> QED BY <1>1, <1>3, <1>4, <1>6, <2>1, <2>3, MinerMoves
<1>7. CASE miner' = [miner EXCEPT ![p] = Errs(now)] /\ UNCHANGED candidate
  <2>1. RowsStand /\ candidate' \in [Cands -> LearntCands]
    BY <1>1, <1>7, SameRowsStand DEF LearningInv, LearningTyped
  <2> PICK next : next = Errs(now)
    OBVIOUS
  <2>2. next \in MinerRows /\ next.pc = "mine" /\ next.of \in Messages /\ next.erred
    BY <1>3, Erred
  <2> QED BY <1>1, <1>4, <1>7, <2>1, <2>2, MinerMoves
<1> QED BY <1>5, <1>6, <1>7 DEF FindForReview

\* A finding that was saved is recorded next.
LEMMA Audits ==
  ASSUME LearningInv, RowsStand, NEW p \in Miners, NEW f \in Findings, NEW title \in Titles, NEW k, Recorded(k)',
         k \in Slots, f \in KnownTexts', miner[p].pc = "mine", miner' = [miner EXCEPT ![p] = Auditing(miner[p], f, title, k)],
         UNCHANGED <<mining, review, settled, candidate>>, entry' \in [Slots -> LearntRows]
  PROVE  LearningInv'
<1>1. miner[p] \in MinerRows /\ MinerSound(p)
  BY MinerAt
<1> PICK row \in MinerRows : row = miner[p]
  BY <1>1
<1> PICK found : found = row.found \cup {f}
  OBVIOUS
<1>2. PICK next \in MinerRows :
        /\ next.pc = "audit" /\ next.of = row.of /\ next.found = found
        /\ next.erred = row.erred /\ next.text = f /\ next.entry = k
        /\ miner' = [miner EXCEPT ![p] = next]
  <2> DEFINE new == [row EXCEPT !.pc = "audit", !.found = found, !.text = f, !.title = title, !.entry = k]
  <2>1. f \in LearntTexts /\ k \in 0 .. MaxEntries /\ found \subseteq Findings
    BY LearningAssumption DEF LearntTexts, Slots, MinerRows
  <2>2. /\ new \in MinerRows /\ new.pc = "audit" /\ new.of = row.of /\ new.found = found
        /\ new.erred = row.erred /\ new.text = f /\ new.entry = k
    BY <2>1 DEF MinerRows
  <2>3. miner' = [miner EXCEPT ![p] = new]
    BY DEF Auditing
  <2> HIDE DEF new
  <2> QED BY <2>2, <2>3
<1>4. ~next.erred => next.found \subseteq KnownTexts'
  BY <1>1, <1>2, KnownTextsGrow DEF MinerSound
<1>5. candidate' \in [Cands -> LearntCands]
  BY DEF LearningInv, LearningTyped
<1>6. Recorded(next.entry)'
  BY <1>2 DEF Recorded
<1>7. next.of \in Messages
  BY <1>1, <1>2 DEF MinerSound
<1>8. \A c \in Cands : candidate'[c] # candidate[c] => CandSound(c)'
  OBVIOUS
<1> QED BY <1>2, <1>4, <1>5, <1>6, <1>7, <1>8, MinerMoves

LEMMA PublishKeeps ==
  ASSUME LearningInv, NEW p \in Miners, NEW f \in Findings, FindAndPublish(p, f)
  PROVE  LearningInv'
<1>1. miner[p].pc = "mine" /\ UNCHANGED <<mining, candidate, review, settled>> /\ Title(f) \in Titles
  BY DEF FindAndPublish, Finds, Titles
<1>2. CASE HasPlace(Title(f)) /\ Save(f, Title(f))
           /\ miner' = [miner EXCEPT ![p] = Auditing(miner[p], f, Title(f), Place(Title(f)))]
  <2> PICK k : k = Place(Title(f))
    OBVIOUS
  <2>1. entry' \in [Slots -> LearntRows] /\ k \in Slots /\ Recorded(k)' /\ f \in KnownTexts' /\ RowsStand
    BY <1>1, <1>2, EntrySaved
  <2>2. miner' = [miner EXCEPT ![p] = Auditing(miner[p], f, Title(f), k)]
    BY <1>2
  <2> QED BY <1>1, <2>1, <2>2, Audits
<1>3. CASE miner' = [miner EXCEPT ![p] = Errs(Noted(miner[p], f))] /\ UNCHANGED <<entry, learnt>>
  <2> PICK now : now = Noted(miner[p], f)
    OBVIOUS
  <2> PICK next : next = Errs(now)
    OBVIOUS
  <2>2. next \in MinerRows /\ next.pc = "mine" /\ next.of \in Messages /\ next.erred
    BY <1>1, FindingRecorded, Erred
  <2>5. RowsStand /\ candidate' \in [Cands -> LearntCands] /\ entry' \in [Slots -> LearntRows]
    BY <1>1, <1>3, SameRowsStand DEF LearningInv, LearningTyped
  <2> QED BY <1>1, <1>3, <2>2, <2>5, MinerMoves
<1> QED BY <1>2, <1>3 DEF FindAndPublish

LEMMA ReviseKeeps ==
  ASSUME LearningInv, NEW p \in Miners, NEW f \in Findings, NEW k \in Slots, FindAndRevise(p, f, k)
  PROVE  LearningInv'
<1>1. /\ miner[p].pc = "mine" /\ UNCHANGED <<mining, candidate, review, settled>>
      /\ entry[k].active /\ entry' = [entry EXCEPT ![k].text = f] /\ learnt' = learnt \cup {f}
      /\ miner' = [miner EXCEPT ![p] = Auditing(miner[p], f, entry[k].title, k)]
  BY DEF FindAndRevise, Finds
<1>2. entry \in [Slots -> LearntRows] /\ entry[k].title \in Titles
  BY DEF LearningInv, LearningTyped, LearntRows
<1> PICK row : row = [entry[k] EXCEPT !.text = f]
  OBVIOUS
<1>3. row \in LearntRows /\ row.text = f
  <2>1. f \in LearntTexts /\ entry[k] \in LearntRows
    BY <1>2 DEF LearntTexts
  <2> QED BY <2>1 DEF LearntRows
<1>4. entry' = [entry EXCEPT ![k] = row]
  BY <1>1
<1>5. entry' \in [Slots -> LearntRows] /\ entry'[k] = row /\ \A o \in Slots : o # k => entry'[o] = entry[o]
  BY <1>2, <1>3, <1>4
<1>6. RowsStand
  BY <1>1, <1>3, <1>5 DEF RowsStand
<1>7. Recorded(k)' /\ f \in KnownTexts'
  BY <1>1, <1>3, <1>5 DEF Recorded, KnownTexts
<1> QED BY <1>1, <1>2, <1>5, <1>6, <1>7, Audits

LEMMA AuditKeeps ==
  ASSUME LearningInv, NEW p \in Miners, Audit(p)
  PROVE  LearningInv'
<1>1. miner[p].pc = "audit" /\ UNCHANGED <<mining, entry, learnt, review, settled>>
  BY DEF Audit
<1>2. miner[p] \in MinerRows /\ MinerSound(p) /\ entry' \in [Slots -> LearntRows]
  BY <1>1, MinerAt DEF LearningInv, LearningTyped
<1> PICK f \in Findings : f = miner[p].text
  BY <1>1, <1>2 DEF MinerSound
<1> PICK title \in Titles : title = miner[p].title
  BY <1>2 DEF MinerRows
<1> PICK k : k = miner[p].entry
  OBVIOUS
<1>3. Recorded(k)
  BY <1>1, <1>2 DEF MinerSound
<1>4. miner[p].of \in Messages /\ (~miner[p].erred => miner[p].found \subseteq KnownTexts)
  BY <1>1, <1>2 DEF MinerSound
<1>5. CASE /\ FreeCands # {} /\ candidate' = [candidate EXCEPT ![NextOf(FreeCands)] = NewCand(f, title, "durable")]
           /\ miner' = [miner EXCEPT ![p].pc = "link", ![p].cand = NextOf(FreeCands)]
  <2> PICK c : c = NextOf(FreeCands)
    OBVIOUS
  <2>1. /\ c \in Cands /\ candidate' \in [Cands -> LearntCands] /\ RowsStand /\ CandSound(c)'
        /\ \A d \in Cands : d # c => candidate'[d] = candidate[d]
        /\ candidate'[c].status = "pending" /\ candidate'[c].class = "durable"
    <3> PICK row : row = NewCand(f, title, "durable")
      OBVIOUS
    <3>1. row \in LearntCands /\ row.text = f /\ row.status = "pending" /\ row.entry = 0 /\ row.class = "durable"
      BY NewCandRow
    <3>2. FreeCands # {} /\ candidate' = [candidate EXCEPT ![c] = row] /\ UNCHANGED <<learnt, entry>>
      BY <1>1, <1>5
    <3>3. row.text \in Findings
      BY <3>1
    <3>4. /\ c \in Cands /\ candidate' \in [Cands -> LearntCands] /\ RowsStand /\ CandSound(c)'
          /\ candidate'[c] = row /\ \A d \in Cands : d # c => candidate'[d] = candidate[d]
      BY <3>1, <3>2, <3>3, CandidateAdded
    <3> QED BY <3>1, <3>4
  <2> PICK next : next = [miner[p] EXCEPT !.pc = "link", !.cand = c]
    OBVIOUS
  <2>2. /\ next \in MinerRows /\ next.pc = "link" /\ next.of = miner[p].of /\ next.found = miner[p].found
        /\ next.erred = miner[p].erred /\ next.text = f /\ next.entry = k /\ next.cand = c
    <3>1. c \in 0 .. MaxCandidates
      BY <2>1, LearningAssumption DEF Cands
    <3> QED BY <1>2, <3>1 DEF MinerRows
  <2>3. miner' = [miner EXCEPT ![p] = next]
    BY <1>5 DEF LearningInv, LearningTyped
  <2>4. \A d \in Cands : candidate'[d] # candidate[d] => CandSound(d)'
    BY <2>1
  <2>5. Publishes(next.cand)'
    BY <2>1, <2>2 DEF Publishes
  <2>6. Recorded(next.entry)'
    <3>1. Recorded(k)'
      BY <1>3, <2>1, RecordedStays
    <3> QED BY <2>2, <3>1 DEF Recorded
  <2>7. ~next.erred => next.found \subseteq KnownTexts'
    BY <1>4, <2>1, <2>2, KnownTextsGrow
  <2> QED BY <1>1, <1>2, <1>4, <2>1, <2>2, <2>3, <2>4, <2>5, <2>6, <2>7, MinerMoves
<1>6. CASE /\ miner' = [miner EXCEPT ![p].pc = "mine", ![p].entry = 0, ![p].text = "none", ![p].title = "none"]
           /\ UNCHANGED candidate
  <2> PICK next : next = [miner[p] EXCEPT !.pc = "mine", !.entry = 0, !.text = "none", !.title = "none"]
    OBVIOUS
  <2>1. /\ next \in MinerRows /\ next.pc = "mine" /\ next.of = miner[p].of /\ next.found = miner[p].found
        /\ next.erred = miner[p].erred
    <3>1. "none" \in LearntTexts /\ "none" \in Titles /\ 0 \in 0 .. MaxEntries
      BY LearningAssumption DEF LearntTexts, Titles
    <3> QED BY <1>2, <3>1 DEF MinerRows
  <2>2. miner' = [miner EXCEPT ![p] = next]
    BY <1>6 DEF LearningInv, LearningTyped
  <2>3. RowsStand /\ candidate' \in [Cands -> LearntCands]
    BY <1>1, <1>6, SameRowsStand DEF LearningInv, LearningTyped
  <2>4. ~next.erred => next.found \subseteq KnownTexts'
    BY <1>4, <2>1, <2>3, KnownTextsGrow
  <2> QED BY <1>1, <1>2, <1>4, <1>6, <2>1, <2>2, <2>3, <2>4, MinerMoves
<1> QED BY <1>5, <1>6 DEF Audit

LEMMA LinkKeeps ==
  ASSUME LearningInv, NEW p \in Miners, Link(p)
  PROVE  LearningInv'
<1>1. /\ miner[p].pc = "link" /\ UNCHANGED <<mining, entry, learnt, review, settled>>
      /\ candidate' = IF Markable(miner[p].cand) THEN PublishedAs(miner[p].cand, miner[p].entry) ELSE candidate
      /\ miner' = [miner EXCEPT ![p].pc = "mine", ![p].entry = 0, ![p].cand = 0, ![p].text = "none", ![p].title = "none"]
  BY DEF Link
<1>2. miner[p] \in MinerRows /\ MinerSound(p) /\ entry' \in [Slots -> LearntRows]
  BY <1>1, MinerAt DEF LearningInv, LearningTyped
<1>3. Publishes(miner[p].cand) /\ Recorded(miner[p].entry)
  BY <1>1, <1>2 DEF MinerSound
<1>4. candidate' \in [Cands -> LearntCands] /\ RowsStand /\ \A d \in Cands : CandSound(d)'
  BY <1>1, <1>3, CandidateMarked
<1> PICK next : next = [miner[p] EXCEPT !.pc = "mine", !.entry = 0, !.cand = 0, !.text = "none", !.title = "none"]
  OBVIOUS
<1>5. /\ next \in MinerRows /\ next.pc = "mine" /\ next.of = miner[p].of /\ next.found = miner[p].found
      /\ next.erred = miner[p].erred
  <2>1. "none" \in LearntTexts /\ "none" \in Titles /\ 0 \in 0 .. MaxEntries /\ 0 \in 0 .. MaxCandidates
    BY LearningAssumption DEF LearntTexts, Titles
  <2> QED BY <1>2, <2>1 DEF MinerRows
<1>6. miner' = [miner EXCEPT ![p] = next]
  BY <1>1 DEF LearningInv, LearningTyped
<1>7. (~next.erred => next.found \subseteq KnownTexts') /\ next.of \in Messages
  BY <1>1, <1>2, <1>4, <1>5, KnownTextsGrow DEF MinerSound
<1> QED BY <1>1, <1>2, <1>4, <1>5, <1>6, <1>7, MinerMoves

LEMMA JobEndsKeeps ==
  ASSUME LearningInv, NEW p \in Miners, CompleteMemoryMiningJob(p) \/ RetryMemoryMiningJob(p)
  PROVE  LearningInv'
<1>1. /\ miner[p].pc = "ack" /\ UNCHANGED <<candidate, entry, learnt, review>>
      /\ miner' = [miner EXCEPT ![p] = NoMiner]
  BY DEF CompleteMemoryMiningJob, RetryMemoryMiningJob
<1>2. miner[p] \in MinerRows /\ MinerSound(p)
  BY MinerAt
<1> PICK m \in Messages : m = miner[p].of
  BY <1>1, <1>2 DEF MinerSound
<1>3. RowsStand
  BY <1>1, SameRowsStand
<1>4. miner' \in [Miners -> MinerRows] /\ miner'[p] = NoMiner /\ \A q \in Miners : q # p => miner'[q] = miner[q]
  BY <1>1, BlankRows DEF LearningInv, LearningTyped
<1>5. MinerSound(p)'
  BY <1>4, BlankRows DEF MinerSound
<1>6. /\ mining \in [Messages -> MiningJobs] /\ settled \in [Messages -> SUBSET Findings]
      /\ mining[m].attempts <= MaxMining /\ mining[m].attempts \in Nat /\ mining[m] \in MiningJobs
  BY DEF LearningInv, LearningTyped, MiningJobs
<1>7. /\ settled' \in [Messages -> SUBSET Findings]
      /\ \A n \in Messages : settled'[n] \subseteq KnownTexts'
  <2>1. CASE UNCHANGED settled
    BY <1>3, <1>6, <2>1, SettledStays
  <2>2. CASE settled' = [settled EXCEPT ![m] = miner[p].found] /\ ~miner[p].erred
    <3>1. miner[p].found \subseteq Findings /\ miner[p].found \subseteq KnownTexts'
      BY <1>2, <1>3, <2>2, KnownTextsGrow DEF MinerSound, MinerRows
    <3>2. \A n \in Messages : settled[n] \subseteq KnownTexts'
      BY <1>3, KnownTextsGrow DEF LearningInv
    <3> QED BY <1>6, <2>2, <3>1, <3>2
  <2> QED BY <2>1, <2>2 DEF CompleteMemoryMiningJob, RetryMemoryMiningJob
<1>8. /\ mining' \in [Messages -> MiningJobs]
      /\ \A n \in Messages : mining'[n].attempts = mining[n].attempts
      /\ \A n \in Messages : mining'[n].status = "failed" => mining'[n].attempts = MaxMining
  <2>1. CASE UNCHANGED mining
    BY <1>6, <2>1 DEF LearningInv, FailedAfterAll
  <2>2. ASSUME NEW status \in {"done", "failed", "pending"}, mining' = [mining EXCEPT ![m].status = status],
               status = "failed" => mining[m].attempts = MaxMining
        PROVE  <1>8
    <3> PICK mined : mined = [mining[m] EXCEPT !.status = status]
      OBVIOUS
    <3>1. mined \in MiningJobs /\ mined.status = status /\ mined.attempts = mining[m].attempts
      BY <1>6 DEF MiningJobs
    <3>2. mining' = [mining EXCEPT ![m] = mined]
      BY <2>2
    <3> QED BY <1>6, <2>2, <3>1, <3>2 DEF LearningInv, FailedAfterAll
  <2>3. CASE CompleteMemoryMiningJob(p)
    BY <2>1, <2>2, <2>3 DEF CompleteMemoryMiningJob
  <2>4. CASE RetryMemoryMiningJob(p) /\ HoldsJob(p) /\ mining' # mining
    <3>1. mining[m].attempts = miner[p].claim /\ miner[p].claim \in Nat /\ MaxMining \in Nat
      BY <1>2, <2>4, LearningAssumption DEF HoldsJob, MinerRows
    <3> PICK status \in {"done", "failed", "pending"} : status = IF miner[p].claim >= MaxMining THEN "failed" ELSE "pending"
      OBVIOUS
    <3>2. status = "failed" => mining[m].attempts = MaxMining
      BY <1>6, <3>1
    <3>3. mining' = [mining EXCEPT ![m].status = status]
      BY <2>4 DEF RetryMemoryMiningJob
    <3> QED BY <2>2, <3>2, <3>3
  <2> QED BY <2>1, <2>3, <2>4 DEF RetryMemoryMiningJob
<1>9. LearningTyped' /\ FailedAfterAll'
  BY <1>1, <1>4, <1>7, <1>8 DEF LearningInv, LearningTyped, FailedAfterAll
<1>10. \A q \in Miners : miner'[q] # miner[q] => MinerSound(q)'
  BY <1>4, <1>5
<1> QED BY <1>1, <1>3, <1>7, <1>9, <1>10, LearningKept

LEMMA LearningStopsKeeps ==
  ASSUME LearningInv, LearningStops
  PROVE  LearningInv'
<1>1. /\ UNCHANGED <<mining, candidate, entry, learnt, settled>>
      /\ \A p \in Miners : miner'[p] = NoMiner
      /\ \A r \in Reviewers : review'[r] = NoReview
      /\ miner' \in [Miners -> MinerRows] /\ review' \in [Reviewers -> ReviewRows]
  BY BlankRows DEF LearningStops
<1>2. RowsStand
  BY <1>1, SameRowsStand
<1>3. LearningTyped' /\ FailedAfterAll'
  BY <1>1 DEF LearningInv, LearningTyped, FailedAfterAll
<1>4. \A p \in Miners : MinerSound(p)'
  BY <1>1, BlankRows DEF MinerSound
<1>5. \A r \in Reviewers : ReviewSound(r)'
  BY <1>1, BlankRows DEF ReviewSound
<1> QED BY <1>1, <1>2, <1>3, <1>4, <1>5, SettledStays, LearningKept

--------------------------------------------------------------------------------
(* The tools that write candidates *)

\* A candidate changes and nobody moves.
LEMMA CandidateChanges ==
  ASSUME LearningInv, RowsStand, UNCHANGED queueVars, UNCHANGED review, candidate' \in [Cands -> LearntCands],
         entry' \in [Slots -> LearntRows], \A c \in Cands : candidate'[c] # candidate[c] => CandSound(c)'
  PROVE  LearningInv'
<1>1. UNCHANGED <<mining, miner, settled>>
  BY DEF queueVars
<1>2. LearningTyped' /\ FailedAfterAll'
  BY <1>1 DEF LearningInv, LearningTyped, FailedAfterAll
<1> QED BY <1>1, <1>2, SettledStays, LearningKept

LEMMA ProposeKeeps ==
  ASSUME LearningInv, NEW f \in Findings, NEW class \in {"durable", "unclassified"}, Propose(f, class)
  PROVE  LearningInv'
<1> PICK row : row = NewCand(f, Title(f), class)
  OBVIOUS
<1> PICK c : c = NextOf(FreeCands)
  OBVIOUS
<1>1. row \in LearntCands /\ row.text = f /\ row.status = "pending" /\ row.entry = 0
  BY NewCandRow DEF Titles
<1>2. /\ FreeCands # {} /\ candidate' = [candidate EXCEPT ![c] = row] /\ UNCHANGED <<learnt, entry>>
      /\ UNCHANGED queueVars /\ UNCHANGED review
  BY DEF Propose
<1>3. /\ candidate' \in [Cands -> LearntCands] /\ RowsStand /\ CandSound(c)'
      /\ \A d \in Cands : d # c => candidate'[d] = candidate[d]
  BY <1>1, <1>2, CandidateAdded
<1>4. entry' \in [Slots -> LearntRows]
  BY <1>2 DEF LearningInv, LearningTyped
<1>5. \A d \in Cands : candidate'[d] # candidate[d] => CandSound(d)'
  BY <1>3
<1> QED BY <1>2, <1>3, <1>4, <1>5, CandidateChanges

LEMMA RejectCandidateKeeps ==
  ASSUME LearningInv, NEW c \in Cands, RejectLearningCandidate(c)
  PROVE  LearningInv'
<1>1. /\ candidate[c].status = "pending" /\ UNCHANGED <<learnt, entry>>
      /\ UNCHANGED queueVars /\ UNCHANGED review
  BY DEF RejectLearningCandidate
<1>2. candidate \in [Cands -> LearntCands] /\ candidate[c] \in LearntCands /\ CandSound(c) /\ entry' \in [Slots -> LearntRows]
  BY <1>1 DEF LearningInv, LearningTyped
<1> PICK row : row = [candidate[c] EXCEPT !.status = "rejected"]
  OBVIOUS
<1>3. /\ row \in LearntCands /\ row.status = "rejected" /\ row.entry = candidate[c].entry /\ row.text = candidate[c].text
  BY <1>2 DEF LearntCands
<1>4. candidate' = [candidate EXCEPT ![c] = row]
  BY DEF RejectLearningCandidate
<1>5. /\ candidate' \in [Cands -> LearntCands] /\ candidate'[c] = row
      /\ \A d \in Cands : d # c => candidate'[d] = candidate[d]
  BY <1>2, <1>3, <1>4
<1>6. RowsStand
  BY <1>1, <1>3, <1>5 DEF RowsStand
<1>7. row.entry = 0 /\ row.text \in Findings
  BY <1>1, <1>2, <1>3 DEF CandSound
<1>8. CandSound(c)'
  BY <1>3, <1>5, <1>7 DEF CandSound
<1>9. \A d \in Cands : candidate'[d] # candidate[d] => CandSound(d)'
  BY <1>5, <1>8
<1> QED BY <1>1, <1>2, <1>5, <1>6, <1>9, CandidateChanges

\* What was published goes out of the memory with its candidate.
LEMMA ReclassifyKeeps ==
  ASSUME LearningInv, NEW c \in Cands, NEW class \in {"durable", "canonical"}, SetLearningCandidateMemoryClass(c, class)
  PROVE  LearningInv'
<1> PICK old : old = candidate[c]
  OBVIOUS
<1> PICK k : k = old.entry
  OBVIOUS
<1>1. /\ old.status \in {"pending", "published"} /\ (old.status = "published" => class = "canonical")
      /\ UNCHANGED learnt /\ UNCHANGED queueVars /\ UNCHANGED review
  BY DEF SetLearningCandidateMemoryClass, IsLive
<1>2. /\ candidate \in [Cands -> LearntCands] /\ old \in LearntCands /\ entry \in [Slots -> LearntRows]
      /\ old.text \in Findings /\ (old.status = "pending" => k = 0)
      /\ (old.status = "published" => k # 0) /\ (k # 0 => Recorded(k))
  BY <1>1 DEF LearningInv, LearningTyped, CandSound
<1> PICK status \in {"pending", "published", "rejected"} : status = IF class = "durable" THEN old.status ELSE "rejected"
  BY <1>1
<1> PICK row : row = [old EXCEPT !.class = class, !.status = status]
  OBVIOUS
<1>3. /\ row \in LearntCands /\ row.status = status /\ row.class = class /\ row.text = old.text /\ row.entry = k
  BY <1>2 DEF LearntCands
<1>4. candidate' = [candidate EXCEPT ![c] = row]
  BY <1>2 DEF SetLearningCandidateMemoryClass
<1>5. /\ candidate' \in [Cands -> LearntCands] /\ candidate'[c] = row
      /\ \A d \in Cands : d # c => candidate'[d] = candidate[d]
  BY <1>2, <1>3, <1>4
<1>6. /\ entry' \in [Slots -> LearntRows]
      /\ \A o \in Slots : entry'[o].text = entry[o].text /\ (~entry[o].active => ~entry'[o].active)
      /\ old.status = "published" => ~entry'[k].active
  <2>1. CASE old.status = "published"
    <3>1. k \in Slots /\ k # 0
      BY <1>2, <2>1 DEF Recorded
    <3> PICK gone : gone = Deactivated(entry[k])
      OBVIOUS
    <3>2. gone \in LearntRows /\ gone.text = entry[k].text /\ ~gone.active
      <4>1. entry[k] \in LearntRows
        BY <1>2, <3>1
      <4> QED BY <4>1 DEF Deactivated, LearntRows
    <3>3. entry' = [entry EXCEPT ![k] = gone]
      BY <2>1, <3>1 DEF SetLearningCandidateMemoryClass
    <3> QED BY <1>2, <3>1, <3>2, <3>3
  <2>2. CASE old.status # "published"
    BY <1>2, <2>2 DEF SetLearningCandidateMemoryClass
  <2> QED BY <2>1, <2>2
<1>7. status = "rejected" \/ (status = "pending" /\ old.status = "pending" /\ class = "durable")
  BY <1>1
<1>8. RowsStand
  BY <1>1, <1>2, <1>3, <1>5, <1>6, <1>7 DEF RowsStand
<1>9. CandSound(c)'
  <2>1. k # 0 => Recorded(k)'
    BY <1>2, <1>8, RecordedStays
  <2>2. k # 0 => old.status = "published"
    BY <1>1, <1>2
  <2> QED BY <1>2, <1>3, <1>5, <1>6, <1>7, <2>1, <2>2 DEF CandSound, Recorded
<1>10. \A d \in Cands : candidate'[d] # candidate[d] => CandSound(d)'
  BY <1>5, <1>9
<1> QED BY <1>1, <1>5, <1>6, <1>8, <1>10, CandidateChanges

--------------------------------------------------------------------------------
(* The reviewers *)

\* One reviewer moves, and the rows stand.
LEMMA ReviewMoves ==
  ASSUME LearningInv, RowsStand, NEW r \in Reviewers, NEW next \in ReviewRows, review' = [review EXCEPT ![r] = next],
         UNCHANGED queueVars, candidate' \in [Cands -> LearntCands], entry' \in [Slots -> LearntRows],
         \A c \in Cands : candidate'[c] # candidate[c] => CandSound(c)',
         next.pc # "idle" => Publishes(next.cand)',
         next.pc = "mark" => Recorded(next.entry)'
  PROVE  LearningInv'
<1>1. review' \in [Reviewers -> ReviewRows] /\ review'[r] = next /\ \A o \in Reviewers : o # r => review'[o] = review[o]
  BY DEF LearningInv, LearningTyped
<1>2. UNCHANGED <<mining, miner, settled>>
  BY DEF queueVars
<1>3. LearningTyped' /\ FailedAfterAll'
  BY <1>1, <1>2 DEF LearningInv, LearningTyped, FailedAfterAll
<1>4. ReviewSound(r)'
  BY <1>1 DEF ReviewSound, Recorded, Publishes
<1>5. \A o \in Reviewers : review'[o] # review[o] => ReviewSound(o)'
  BY <1>1, <1>4
<1> QED BY <1>2, <1>3, <1>5, SettledStays, LearningKept

LEMMA ApproveKeeps ==
  ASSUME LearningInv, NEW r \in Reviewers, NEW c \in Cands, Approve(r, c)
  PROVE  LearningInv'
<1> PICK next : next = [pc |-> "publish", cand |-> c, entry |-> 0]
  OBVIOUS
<1>1. /\ candidate[c].status = "pending" /\ candidate[c].class = "durable" /\ UNCHANGED <<learnt, entry, candidate>>
      /\ UNCHANGED queueVars /\ review' = [review EXCEPT ![r] = next]
  BY DEF Approve
<1>2. next \in ReviewRows /\ next.pc = "publish" /\ next.cand = c
  <2>1. c \in 0 .. MaxCandidates /\ 0 \in 0 .. MaxEntries
    BY LearningAssumption DEF Cands
  <2> QED BY <2>1 DEF ReviewRows
<1>3. RowsStand /\ candidate' \in [Cands -> LearntCands] /\ entry' \in [Slots -> LearntRows]
  BY <1>1, SameRowsStand DEF LearningInv, LearningTyped
<1>4. Publishes(next.cand)'
  BY <1>1, <1>2 DEF Publishes
<1> QED BY <1>1, <1>2, <1>3, <1>4, ReviewMoves

LEMMA PublishCandidateKeeps ==
  ASSUME LearningInv, NEW r \in Reviewers, PublishLearningCandidate(r)
  PROVE  LearningInv'
<1>1. review[r].pc = "publish" /\ UNCHANGED queueVars /\ UNCHANGED candidate
  BY DEF PublishLearningCandidate
<1>2. review[r] \in ReviewRows /\ ReviewSound(r) /\ candidate \in [Cands -> LearntCands] /\ entry \in [Slots -> LearntRows]
  BY DEF LearningInv, LearningTyped
<1> PICK c \in Cands : c = review[r].cand
  BY <1>1, <1>2 DEF ReviewSound, Publishes
<1>3. Publishes(c) /\ CandSound(c) /\ candidate[c] \in LearntCands
  BY <1>1, <1>2 DEF ReviewSound, LearningInv
<1> PICK f \in Findings : f = candidate[c].text
  BY <1>3 DEF Publishes, CandSound
<1> PICK title \in Titles : title = candidate[c].title
  BY <1>3 DEF LearntCands
<1>4. candidate' \in [Cands -> LearntCands] /\ \A d \in Cands : candidate'[d] # candidate[d] => CandSound(d)'
  BY <1>1, <1>2
<1>5. CASE /\ HasPlace(title) /\ Save(f, title)
           /\ review' = [review EXCEPT ![r].pc = "mark", ![r].entry = Place(title)]
  <2> PICK k : k = Place(title)
    OBVIOUS
  <2>1. entry' \in [Slots -> LearntRows] /\ k \in Slots /\ Recorded(k)' /\ RowsStand
    BY <1>1, <1>5, EntrySaved
  <2> PICK next : next = [review[r] EXCEPT !.pc = "mark", !.entry = k]
    OBVIOUS
  <2>2. next \in ReviewRows /\ next.pc = "mark" /\ next.cand = c /\ next.entry = k
    <3>1. k \in 0 .. MaxEntries
      BY <2>1, LearningAssumption DEF Slots
    <3> QED BY <1>2, <3>1 DEF ReviewRows
  <2>3. review' = [review EXCEPT ![r] = next]
    BY <1>5 DEF LearningInv, LearningTyped
  <2>4. Publishes(c)'
    BY <1>3, <2>1, PublishesStays
  <2>5. Publishes(next.cand)' /\ Recorded(next.entry)'
    BY <2>1, <2>2, <2>4 DEF Publishes, Recorded
  <2> QED BY <1>1, <1>4, <2>1, <2>2, <2>3, <2>5, ReviewMoves
<1>6. CASE review' = [review EXCEPT ![r] = NoReview] /\ UNCHANGED <<entry, learnt>>
  <2>1. RowsStand /\ entry' \in [Slots -> LearntRows]
    BY <1>1, <1>2, <1>6, SameRowsStand
  <2> QED BY <1>1, <1>4, <1>6, <2>1, BlankRows, ReviewMoves
<1> QED BY <1>5, <1>6 DEF PublishLearningCandidate

LEMMA MarkCandidateKeeps ==
  ASSUME LearningInv, NEW r \in Reviewers, MarkLearningCandidatePublished(r)
  PROVE  LearningInv'
<1>1. /\ review[r].pc = "mark" /\ UNCHANGED queueVars /\ UNCHANGED <<learnt, entry>>
      /\ candidate' = IF Markable(review[r].cand) THEN PublishedAs(review[r].cand, review[r].entry) ELSE candidate
      /\ review' = [review EXCEPT ![r] = NoReview]
  BY DEF MarkLearningCandidatePublished
<1>2. Publishes(review[r].cand) /\ Recorded(review[r].entry) /\ entry' \in [Slots -> LearntRows]
  BY <1>1 DEF LearningInv, LearningTyped, ReviewSound
<1>3. candidate' \in [Cands -> LearntCands] /\ RowsStand /\ \A d \in Cands : CandSound(d)'
  BY <1>1, <1>2, CandidateMarked
<1> QED BY <1>1, <1>2, <1>3, BlankRows, ReviewMoves

--------------------------------------------------------------------------------

LEMMA LearningStep == LearningInv /\ [LearningNext]_learningVars => LearningInv'
<1> SUFFICES ASSUME LearningInv, [LearningNext]_learningVars PROVE LearningInv'
  OBVIOUS
<1>1. CASE UNCHANGED learningVars
  BY <1>1 DEF learningVars, LearningInv, LearningTyped, FailedAfterAll, CandSound, MinerSound, ReviewSound, KnownTexts,
              Recorded, Publishes
<1>2. ASSUME NEW m \in Messages, TurnCompletes(m) \/ ExhaustMining(m)
      PROVE  LearningInv'
  BY <1>2, QueueKeeps
<1>3. ASSUME NEW p \in Miners, NEW m \in Messages, DueMemoryMiningJobs(p, m)
      PROVE  LearningInv'
  BY <1>3, QueueKeeps
<1>4. ASSUME NEW p \in Miners, MineFails(p) \/ Audit(p) \/ Link(p) \/ MineEnds(p)
      PROVE  LearningInv'
  BY <1>4, MineKeeps, AuditKeeps, LinkKeeps
<1>5. ASSUME NEW p \in Miners, CompleteMemoryMiningJob(p) \/ RetryMemoryMiningJob(p)
      PROVE  LearningInv'
  BY <1>5, JobEndsKeeps
<1>6. ASSUME NEW p \in Miners, NEW f \in Findings,
             \/ \E class \in {"durable", "unclassified"} : FindForReview(p, f, class)
             \/ FindAndPublish(p, f)
             \/ \E k \in Slots : FindAndRevise(p, f, k)
      PROVE  LearningInv'
  BY <1>6, FindForReviewKeeps, PublishKeeps, ReviseKeeps
<1>7. ASSUME NEW f \in Findings, NEW class \in {"durable", "unclassified"}, Propose(f, class)
      PROVE  LearningInv'
  BY <1>7, ProposeKeeps
<1>8. ASSUME NEW r \in Reviewers,
             (\E c \in Cands : Approve(r, c)) \/ PublishLearningCandidate(r) \/ MarkLearningCandidatePublished(r)
      PROVE  LearningInv'
  BY <1>8, ApproveKeeps, PublishCandidateKeeps, MarkCandidateKeeps
<1>9. ASSUME NEW c \in Cands,
             \/ RejectLearningCandidate(c)
             \/ \E class \in {"durable", "canonical"} : SetLearningCandidateMemoryClass(c, class)
      PROVE  LearningInv'
  BY <1>9, RejectCandidateKeeps, ReclassifyKeeps
<1> QED BY <1>1, <1>2, <1>3, <1>4, <1>5, <1>6, <1>7, <1>8, <1>9, LearningStopsKeeps DEF LearningNext

\* Whatever a completed job had found is known, a job fails only after its last attempt, what
\* is published was durable, and what was taken back is out of the memory, however miners and
\* reviewers overlap.
THEOREM LearningHonest == LearningSpec => []LearningIsHonest
<1>1. LearningInv => LearningIsHonest
  <2> SUFFICES ASSUME LearningInv PROVE LearningIsHonest
    OBVIOUS
  <2>1. NothingIsForgotten
    BY DEF LearningInv, NothingIsForgotten, KnownTexts
  <2>2. FailedAfterAll
    BY DEF LearningInv
  <2>3. PublishedIsDurable /\ ReclassifiedIsGone
    BY DEF LearningInv, CandSound, PublishedIsDurable, ReclassifiedIsGone
  <2> QED BY <2>1, <2>2, <2>3 DEF LearningIsHonest
<1> QED BY <1>1, LearningInitial, LearningStep, PTL DEF LearningSpec

--------------------------------------------------------------------------------
(* The task tools: what a call of the desk still owes, with what it owes done or   *)
(* known to be lost, so at rest nothing is missing.                                *)

DeskTools == {"none", "pending", "in_progress", "done", "attach", "accept", "reject", "update", "cancel", "delete",
              "participants", "reassign", "sibling", "queue", "pass"}
DeskSteps == {"idle", "check", "commit", "fire", "outcome", "close", "stop", "list", "put", "dangling"}
Anyone    == Owners \cup Robots \cup {"none"}
Statuses  == {"pending", "in_progress", "awaiting_input", "done", "accepted", "cancelled", "absent"}
BoardRows == [status : Statuses, assignee : Anyone, claimed : BOOLEAN, run : Nat]
DeskRows  == [pc : DeskSteps, tool : DeskTools, who : Anyone, arg : Anyone \cup Kinds \cup {"same"},
              status : Statuses \cup {"none"}, assignee : Anyone, run : Nat]

DeskTyped ==
  /\ board \in BoardRows
  /\ sibling \in BOOLEAN /\ announced \in BOOLEAN
  /\ decisions \in [Owners -> [Kinds -> {"none", "open", "closed"}]]
  /\ desk \in [Desks -> DeskRows]
  /\ runsMade \in Nat
  /\ verdicts \in [Judging -> Nat] /\ ledger \in [Judging -> Nat]

\* Each step belongs to its tools.
RowFits(r) ==
  /\ r.pc = "fire" => r.tool \in {"accept", "sibling"}
  /\ r.pc = "outcome" => r.tool \in {"accept", "reject"}
  /\ r.pc = "close" => r.tool \in {"accept", "reject", "reassign", "cancel"}
  /\ r.pc = "stop" => r.tool \in {"update", "cancel", "delete", "reassign"}
  /\ r.pc \in {"check", "commit"} => r.arg \in Anyone
  /\ r.pc = "commit" /\ r.tool = "reassign" => r.arg # r.assignee
  /\ r.pc \in {"list", "put", "dangling"} => r.who \in Owners
  /\ r.pc \in {"list", "put"} => r.arg \in Kinds
  /\ r.run <= runsMade

\* A worker once told of a run will never have it in hand again.
Past(a, n) == n \in 1..runsMade /\ ~(board.assignee = a /\ board.run = n)

\* What a call still owes: to stop a worker, to record a verdict, to look for dependents,
\* to close the decision items.
OwesStop(r) ==
  /\ r.pc \in {"stop", "close"} /\ r.tool \in {"update", "cancel", "delete", "reassign"} /\ r.arg # "same"
  /\ r.assignee \in Robots /\ r.run # 0
OwesVerdict(r, v) == r.pc \in {"fire", "outcome"} /\ r.tool \in {"accept", "reject"} /\ VerdictOf(r.tool) = v
OwesNews(r) == r.pc = "fire"
OwesClosing(r) == r.pc \in {"fire", "outcome", "stop", "close"} /\ r.tool \in {"accept", "cancel"}

Lost == "lost follow-up" \in slips
Owing(v) == {c \in Desks : OwesVerdict(desk[c], v)}

BoardStands ==
  /\ board.run <= runsMade
  /\ board.claimed => board.status = "in_progress"
  /\ verdicts["accepted"] > 0 => board.status \in {"accepted", "absent"}

StopsStand ==
  /\ \A stop \in toldToStop : Past(stop[1], stop[2])
  /\ \A c \in Desks : OwesStop(desk[c]) => Past(desk[c].assignee, desk[c].run)

LedgerStands ==
  \A v \in Judging : /\ ledger[v] + Cardinality(Owing(v)) <= verdicts[v]
                     /\ ~Lost => ledger[v] + Cardinality(Owing(v)) = verdicts[v]

Ready == verdicts["accepted"] > 0 /\ sibling /\ board.status = "accepted"
NewsStands ==
  /\ announced => sibling
  /\ ~Lost /\ Ready => announced \/ \E c \in Desks : OwesNews(desk[c])

Open == \E k \in Kinds : decisions[Manager][k] = "open"
ClosingStands == slips = {} /\ Finished /\ Open => \E c \in Desks : OwesClosing(desk[c])

DeskInv ==
  /\ DeskTyped /\ (\A c \in Desks : RowFits(desk[c]))
  /\ BoardStands /\ StopsStand /\ LedgerStands /\ NewsStands /\ ClosingStands

\* The steps at which a call still owes something.
OwesNothing(r) == r.pc \notin {"fire", "outcome", "close", "stop"}

LEMMA DeskAt ==
  ASSUME DeskInv, NEW c \in Desks
  PROVE  /\ desk[c] \in DeskRows /\ RowFits(desk[c])
         /\ desk[c].pc \in DeskSteps /\ desk[c].tool \in DeskTools /\ desk[c].who \in Anyone
         /\ desk[c].arg \in Anyone \cup Kinds \cup {"same"} /\ desk[c].status \in Statuses \cup {"none"}
         /\ desk[c].assignee \in Anyone /\ desk[c].run \in Nat
BY DEF DeskInv, DeskTyped, DeskRows

LEMMA BoardAt ==
  ASSUME DeskInv
  PROVE  /\ board \in BoardRows /\ board.status \in Statuses /\ board.assignee \in Anyone
         /\ board.claimed \in BOOLEAN /\ board.run \in Nat /\ runsMade \in Nat /\ board.run <= runsMade
BY DEF DeskInv, DeskTyped, BoardRows, BoardStands

LEMMA DeskSet ==
  ASSUME DeskInv, NEW c \in Desks, NEW row \in DeskRows, desk' = [desk EXCEPT ![c] = row]
  PROVE  desk' \in [Desks -> DeskRows] /\ desk'[c] = row /\ \A d \in Desks : d # c => desk'[d] = desk[d]
BY DEF DeskInv, DeskTyped

LEMMA BlankTool ==
  NoTool \in DeskRows /\ NoTool.pc = "idle" /\ NoTool.run = 0
BY DEF NoTool, DeskRows, DeskSteps, DeskTools, Anyone

LEMMA BlankFits == ASSUME runsMade \in Nat PROVE RowFits(NoTool)
BY BlankTool DEF RowFits

\* The rows after a step of one call.
LEMMA RowsFit ==
  ASSUME DeskInv, NEW c \in Desks, NEW row \in DeskRows, desk' = [desk EXCEPT ![c] = row],
         runsMade' \in Nat, runsMade <= runsMade', RowFits(row)'
  PROVE  \A d \in Desks : RowFits(desk[d])'
<1> SUFFICES ASSUME NEW d \in Desks, d # c PROVE RowFits(desk[d])'
  BY DeskSet
<1> PICK r \in DeskRows : r = desk[d]
  BY DeskAt
<1>1. RowFits(r) /\ r.run \in Nat /\ runsMade \in Nat /\ desk'[d] = r
  BY DeskAt, BoardAt, DeskSet
<1>2. RowFits(r)'
  BY <1>1 DEF RowFits
<1> QED BY <1>1, <1>2 DEF RowFits

--------------------------------------------------------------------------------
(* What one call still owes *)

PastStays == \A a, n : Past(a, n) => Past(a, n)'

LEMMA StopsKept ==
  ASSUME DeskInv, NEW c \in Desks, NEW row \in DeskRows, desk' = [desk EXCEPT ![c] = row], PastStays,
         \A stop \in toldToStop' : stop \in toldToStop \/ Past(stop[1], stop[2])',
         OwesStop(row) => \/ OwesStop(desk[c]) /\ row.assignee = desk[c].assignee /\ row.run = desk[c].run
                          \/ Past(row.assignee, row.run)'
  PROVE  StopsStand'
<1>1. \A stop \in toldToStop' : Past(stop[1], stop[2])'
  BY DEF DeskInv, StopsStand, PastStays
<1>2. ASSUME NEW d \in Desks, OwesStop(desk[d])' PROVE Past(desk[d].assignee, desk[d].run)'
  <2> PICK a \in Anyone, n \in Nat : a = desk[d].assignee /\ n = desk[d].run
    BY DeskAt
  <2>1. OwesStop(desk[d]) => Past(a, n)'
    BY DEF DeskInv, StopsStand, PastStays
  <2>2. CASE d = c
    <3>1. desk'[d] = row
      BY <2>2, DeskSet
    <3>2. OwesStop(row)
      BY <1>2, <3>1 DEF OwesStop
    <3>3. Past(row.assignee, row.run)'
      BY <2>1, <2>2, <3>2 DEF Past
    <3> QED BY <3>1, <3>3 DEF Past
  <2>3. CASE d # c
    <3>1. desk'[d] = desk[d]
      BY <2>3, DeskSet
    <3>2. OwesStop(desk[d])
      BY <1>2, <3>1 DEF OwesStop
    <3> QED BY <2>1, <3>1, <3>2 DEF Past
  <2> QED BY <2>2, <2>3
<1> QED BY <1>1, <1>2 DEF StopsStand

LEMMA OwingFinite == ASSUME NEW v \in Judging PROVE IsFiniteSet(Owing(v)) /\ Cardinality(Owing(v)) \in Nat
<1>1. Owing(v) \subseteq Desks /\ IsFiniteSet(Desks)
  BY DeskAssumption DEF Owing
<1>2. IsFiniteSet(Owing(v))
  BY <1>1, FS_Subset
<1> QED BY <1>2, FS_CardinalityType

LEMMA OwingNext ==
  ASSUME DeskInv, NEW c \in Desks, NEW row \in DeskRows, desk' = [desk EXCEPT ![c] = row], NEW v \in Judging
  PROVE  LET n == Cardinality(Owing(v))  m == Cardinality(Owing(v)') IN
         /\ n \in Nat /\ m \in Nat
         /\ (OwesVerdict(row, v) <=> OwesVerdict(desk[c], v)) => m = n
         /\ OwesVerdict(row, v) /\ ~OwesVerdict(desk[c], v) => m = n + 1
         /\ ~OwesVerdict(row, v) /\ OwesVerdict(desk[c], v) => n = m + 1
<1>1. \A d \in Desks : OwesVerdict(desk[d], v)' <=> IF d = c THEN OwesVerdict(row, v) ELSE OwesVerdict(desk[d], v)
  BY DeskSet DEF OwesVerdict
<1>2. Owing(v)' = {d \in Desks : OwesVerdict(desk[d], v)'}
  BY DEF Owing
<1> PICK O \in SUBSET Desks : O = Owing(v)
  BY DEF Owing
<1>3. IsFiniteSet(O) /\ Cardinality(O) \in Nat /\ (c \in O <=> OwesVerdict(desk[c], v))
  BY OwingFinite DEF Owing
<1>4. CASE OwesVerdict(row, v)
  <2>1. Owing(v)' = O \cup {c}
    BY <1>1, <1>2, <1>4 DEF Owing
  <2>2. /\ IsFiniteSet(O \cup {c})
        /\ Cardinality(O \cup {c}) = IF c \in O THEN Cardinality(O) ELSE Cardinality(O) + 1
    BY <1>3, FS_AddElement
  <2> QED BY <1>3, <1>4, <2>1, <2>2
<1>5. CASE ~OwesVerdict(row, v)
  <2>1. Owing(v)' = O \ {c}
    BY <1>1, <1>2, <1>5 DEF Owing
  <2>2. /\ IsFiniteSet(O \ {c})
        /\ Cardinality(O \ {c}) = IF c \in O THEN Cardinality(O) - 1 ELSE Cardinality(O)
    BY <1>3, FS_RemoveElement
  <2>3. Cardinality(O \ {c}) \in Nat
    BY <2>2, FS_CardinalityType
  <2> QED BY <1>3, <1>5, <2>1, <2>2, <2>3
<1> QED BY <1>4, <1>5

\* What is recorded and what is still to be recorded.
VerdictKept(c, row, v) ==
  /\ OwesVerdict(row, v) <=> OwesVerdict(desk[c], v)
  /\ verdicts'[v] = verdicts[v] /\ ledger'[v] = ledger[v]
VerdictGiven(c, row, v) ==
  /\ OwesVerdict(row, v) /\ ~OwesVerdict(desk[c], v)
  /\ verdicts'[v] = verdicts[v] + 1 /\ ledger'[v] = ledger[v]
VerdictRecorded(c, row, v) ==
  /\ ~OwesVerdict(row, v) /\ OwesVerdict(desk[c], v) /\ verdicts'[v] = verdicts[v]
  /\ ledger'[v] = ledger[v] + 1 \/ (Lost' /\ ledger'[v] = ledger[v])

LEMMA LedgerKept ==
  ASSUME DeskInv, NEW c \in Desks, NEW row \in DeskRows, desk' = [desk EXCEPT ![c] = row],
         verdicts' \in [Judging -> Nat], ledger' \in [Judging -> Nat], slips \subseteq slips',
         \A v \in Judging : VerdictKept(c, row, v) \/ VerdictGiven(c, row, v) \/ VerdictRecorded(c, row, v)
  PROVE  LedgerStands'
<1> SUFFICES ASSUME NEW v \in Judging
             PROVE  /\ ledger'[v] + Cardinality(Owing(v)') <= verdicts'[v]
                    /\ ~Lost' => ledger'[v] + Cardinality(Owing(v)') = verdicts'[v]
  BY DEF LedgerStands
<1> PICK n \in Nat, m \in Nat, old \in Nat, new \in Nat, was \in Nat, is \in Nat :
      /\ n = Cardinality(Owing(v)) /\ m = Cardinality(Owing(v)')
      /\ old = ledger[v] /\ new = ledger'[v] /\ was = verdicts[v] /\ is = verdicts'[v]
  BY OwingNext DEF DeskInv, DeskTyped
<1>1. old + n <= was /\ (~Lost => old + n = was) /\ (Lost => Lost')
  BY DEF DeskInv, LedgerStands, Lost
<1>2. \/ m = n /\ is = was /\ new = old
      \/ m = n + 1 /\ is = was + 1 /\ new = old
      \/ n = m + 1 /\ is = was /\ (new = old + 1 \/ (Lost' /\ new = old))
  <2>1. VerdictKept(c, row, v) => m = n /\ is = was /\ new = old
    BY OwingNext DEF VerdictKept
  <2>2. VerdictGiven(c, row, v) => m = n + 1 /\ is = was + 1 /\ new = old
    BY OwingNext DEF VerdictGiven
  <2>3. VerdictRecorded(c, row, v) => n = m + 1 /\ is = was /\ (new = old + 1 \/ (Lost' /\ new = old))
    BY OwingNext DEF VerdictRecorded
  <2> QED BY <2>1, <2>2, <2>3
<1>3. new + m <= is /\ (~Lost' => new + m = is)
  BY <1>1, <1>2
<1> QED BY <1>3

LEMMA NewsKept ==
  ASSUME DeskInv, NEW c \in Desks, NEW row \in DeskRows, desk' = [desk EXCEPT ![c] = row],
         announced' => sibling', announced => announced', slips \subseteq slips',
         Lost' \/ ~Ready' \/ announced' \/ OwesNews(row) \/ (Ready /\ ~OwesNews(desk[c]))
  PROVE  NewsStands'
<1> SUFFICES ASSUME ~Lost', Ready', ~announced' PROVE \E d \in Desks : OwesNews(desk[d])'
  BY DEF NewsStands
<1>1. CASE OwesNews(row)
  BY <1>1, DeskSet DEF OwesNews
<1>2. CASE Ready /\ ~OwesNews(desk[c])
  <2> PICK d \in Desks : OwesNews(desk[d])
    BY <1>2 DEF DeskInv, NewsStands, Lost
  <2>1. d # c
    BY <1>2
  <2> QED BY <2>1, DeskSet DEF OwesNews
<1> QED BY <1>1, <1>2

LEMMA ClosingKept ==
  ASSUME DeskInv, NEW c \in Desks, NEW row \in DeskRows, desk' = [desk EXCEPT ![c] = row], slips \subseteq slips',
         slips' # {} \/ ~Finished' \/ ~Open' \/ OwesClosing(row) \/ (Finished /\ Open /\ ~OwesClosing(desk[c]))
  PROVE  ClosingStands'
<1> SUFFICES ASSUME slips' = {}, Finished', Open' PROVE \E d \in Desks : OwesClosing(desk[d])'
  BY DEF ClosingStands
<1>1. CASE OwesClosing(row)
  BY <1>1, DeskSet DEF OwesClosing
<1>2. CASE Finished /\ Open /\ ~OwesClosing(desk[c])
  <2> PICK d \in Desks : OwesClosing(desk[d])
    BY <1>2 DEF DeskInv, ClosingStands
  <2>1. d # c
    BY <1>2
  <2> QED BY <2>1, DeskSet DEF OwesClosing
<1> QED BY <1>1, <1>2

--------------------------------------------------------------------------------
(* The task *)

\* The task's run is none that was ever given out, and its worker has not claimed it.
StartsOver(status) ==
  /\ board' \in BoardRows /\ board'.status = status /\ ~board'.claimed
  /\ runsMade' \in Nat /\ runsMade <= runsMade' /\ board'.run <= runsMade'
  /\ board'.run \notin 1..runsMade

LEMMA RestartStarts ==
  ASSUME DeskInv, NEW row \in BoardRows, Restarted(row)
  PROVE  StartsOver(row.status) /\ board'.assignee = row.assignee
<1>1. runsMade \in Nat
  BY BoardAt
<1>2. CASE row.assignee \in Robots \ circumstances.gone
  <2>1. runsMade' = runsMade + 1 /\ board' = [row EXCEPT !.run = runsMade + 1, !.claimed = FALSE]
    BY <1>2 DEF Restarted
  <2> PICK n \in Nat : n = runsMade + 1
    BY <1>1
  <2> PICK now : now = [row EXCEPT !.run = n, !.claimed = FALSE]
    OBVIOUS
  <2>2. board' = now
    BY <2>1
  <2>3. now \in BoardRows /\ now.status = row.status /\ now.assignee = row.assignee /\ ~now.claimed /\ now.run = n
    BY DEF BoardRows
  <2> QED BY <1>1, <2>1, <2>2, <2>3 DEF StartsOver
<1>3. CASE row.assignee \notin Robots \ circumstances.gone
  <2>1. runsMade' = runsMade /\ board' = [row EXCEPT !.run = 0, !.claimed = FALSE]
    BY <1>3 DEF Restarted
  <2>2. /\ board' \in BoardRows /\ board'.status = row.status /\ board'.assignee = row.assignee
        /\ ~board'.claimed /\ board'.run = 0
    BY <1>1, <2>1 DEF BoardRows
  <2> QED BY <1>1, <2>1, <2>2 DEF StartsOver
<1> QED BY <1>2, <1>3

LEMMA CancelStarts ==
  ASSUME DeskInv, NEW status \in Statuses, RunsCancelled(status)
  PROVE  StartsOver(status) /\ board'.assignee = board.assignee
<1>1. runsMade' = runsMade /\ board' = [board EXCEPT !.status = status, !.run = 0, !.claimed = FALSE]
      /\ runsMade \in Nat /\ board \in BoardRows
  BY BoardAt DEF RunsCancelled
<1>2. /\ board' \in BoardRows /\ board'.status = status /\ board'.assignee = board.assignee
      /\ ~board'.claimed /\ board'.run = 0
  BY <1>1 DEF BoardRows
<1> QED BY <1>1, <1>2 DEF StartsOver

\* The task keeps its run, or has none any more.
Stays ==
  /\ board' \in BoardRows /\ board'.assignee = board.assignee /\ board'.run \in {0, board.run}
  /\ runsMade' = runsMade

LEMMA TaskStays == ASSUME DeskInv, NoChange PROVE Stays /\ board' = board
BY BoardAt DEF NoChange, Stays

LEMMA StartsFresh ==
  ASSUME DeskInv, NEW status, StartsOver(status)
  PROVE  PastStays /\ \A a, n : n \in 1..runsMade => Past(a, n)'
<1> PICK now \in Nat, new \in Nat, run \in Nat : now = runsMade /\ new = runsMade' /\ run = board'.run
  BY BoardAt DEF StartsOver, BoardRows
<1>1. now <= new /\ run \notin 1..now
  BY DEF StartsOver
<1>2. \A a, n : n \in 1..now => Past(a, n)'
  BY <1>1 DEF Past
<1> QED BY <1>2 DEF PastStays, Past

LEMMA StaysPast == ASSUME DeskInv, Stays PROVE PastStays
<1> PICK now \in Nat, old \in Nat, run \in Nat : now = runsMade /\ old = board.run /\ run = board'.run
  BY BoardAt DEF Stays, BoardRows
<1>1. run \in {0, old}
  BY DEF Stays
<1>2. \A a, n : Past(a, n) => Past(a, n)'
  BY <1>1 DEF Past, Stays
<1> QED BY <1>2 DEF PastStays

\* What the board shows.
LEMMA StartsStand ==
  ASSUME DeskInv, NEW status, StartsOver(status), verdicts' \in [Judging -> Nat],
         verdicts'["accepted"] > 0 => status \in {"accepted", "absent"}
  PROVE  BoardStands'
BY DEF StartsOver, BoardStands

LEMMA StaysStand ==
  ASSUME DeskInv, Stays, board'.claimed => board'.status = "in_progress",
         verdicts'["accepted"] > 0 => board'.status \in {"accepted", "absent"}
  PROVE  BoardStands'
<1>1. board'.run <= runsMade'
  BY BoardAt DEF Stays
<1> QED BY <1>1 DEF BoardStands

\* Nobody has accepted a task that is not accepted or deleted.
LEMMA NoneAccepted ==
  ASSUME DeskInv
  PROVE  /\ verdicts["accepted"] \in Nat
         /\ board.status \notin {"accepted", "absent"} => verdicts["accepted"] = 0
         /\ board.claimed => board.status = "in_progress"
BY DEF DeskInv, DeskTyped, BoardStands, Judging

--------------------------------------------------------------------------------
(* Steps of a call that owes nothing before or after *)

\* Nothing the follow-ups are about changes.
Undisturbed ==
  /\ UNCHANGED <<sibling, verdicts, ledger, announced, toldToStop>> /\ slips \subseteq slips'
  /\ decisions' \in [Owners -> [Kinds -> {"none", "open", "closed"}]]
  /\ slips' = {} /\ Finished' /\ Open' => Finished /\ Open
  /\ Ready' => Ready

LEMMA QuietMoves ==
  ASSUME DeskInv, NEW c \in Desks, NEW row \in DeskRows, desk' = [desk EXCEPT ![c] = row],
         OwesNothing(desk[c]), OwesNothing(row), RowFits(row)', Undisturbed,
         board' \in BoardRows, runsMade' \in Nat, runsMade <= runsMade', PastStays, BoardStands'
  PROVE  DeskInv'
<1>1. DeskTyped' /\ \A d \in Desks : RowFits(desk[d])'
  <2>1. \A d \in Desks : RowFits(desk[d])'
    BY RowsFit
  <2>2. desk' \in [Desks -> DeskRows]
    BY DeskSet
  <2> QED BY <2>1, <2>2 DEF DeskInv, DeskTyped, Undisturbed
<1>2. ~OwesStop(row) /\ ~OwesNews(desk[c]) /\ ~OwesClosing(desk[c])
      /\ \A v \in Judging : ~OwesVerdict(row, v) /\ ~OwesVerdict(desk[c], v)
  BY DEF OwesNothing, OwesStop, OwesNews, OwesClosing, OwesVerdict
<1>3. StopsStand'
  <2>1. \A stop \in toldToStop' : stop \in toldToStop
    BY DEF Undisturbed
  <2> QED BY <1>2, <2>1, StopsKept
<1>4. LedgerStands'
  <2>1. verdicts' \in [Judging -> Nat] /\ ledger' \in [Judging -> Nat] /\ slips \subseteq slips'
        /\ \A v \in Judging : verdicts'[v] = verdicts[v] /\ ledger'[v] = ledger[v]
    BY DEF Undisturbed, DeskInv, DeskTyped
  <2>2. \A v \in Judging : VerdictKept(c, row, v)
    BY <1>2, <2>1 DEF VerdictKept
  <2> QED BY <2>1, <2>2, LedgerKept
<1>5. NewsStands'
  <2>1. /\ announced' => sibling'
        /\ announced => announced'
        /\ slips \subseteq slips'
        /\ ~Ready' \/ Ready
    BY DEF Undisturbed, DeskInv, NewsStands
  <2> QED BY <1>2, <2>1, NewsKept
<1>6. ClosingStands'
  <2>1. slips \subseteq slips' /\ (slips' # {} \/ ~Finished' \/ ~Open' \/ (Finished /\ Open))
    BY DEF Undisturbed
  <2> QED BY <1>2, <2>1, ClosingKept
<1> QED BY <1>1, <1>3, <1>4, <1>5, <1>6 DEF DeskInv

\* The task is as it was, and only rows of calls change.
LEMMA OnlyTheCall ==
  ASSUME DeskInv, NEW c \in Desks, NEW row \in DeskRows, desk' = [desk EXCEPT ![c] = row],
         OwesNothing(desk[c]), OwesNothing(row), RowFits(row),
         UNCHANGED <<board, sibling, decisions, runsMade, ledgers>>
  PROVE  DeskInv'
<1>1. Undisturbed
  BY DEF ledgers, Undisturbed, Finished, Open, Ready, DeskInv, DeskTyped
<1>2. board' \in BoardRows /\ runsMade' \in Nat /\ runsMade <= runsMade' /\ Stays
  BY BoardAt DEF Stays
<1>3. BoardStands'
  BY DEF DeskInv, BoardStands, ledgers
<1>4. RowFits(row)'
  BY DEF RowFits
<1> QED BY <1>1, <1>2, <1>3, <1>4, QuietMoves, StaysPast

--------------------------------------------------------------------------------
(* Where a call goes on *)

\* A call goes on at another step, with what it has read and perhaps another argument.
GoesTo(c, row, pc) ==
  /\ desk' = [desk EXCEPT ![c] = row]
  /\ row.pc = pc /\ row.tool = desk[c].tool /\ row.who = desk[c].who /\ row.status = desk[c].status
  /\ row.assignee = desk[c].assignee /\ row.run = desk[c].run

LEMMA CallGoesOn ==
  ASSUME DeskInv, NEW c \in Desks, NEW pc \in DeskSteps, desk' = [desk EXCEPT ![c].pc = pc]
  PROVE  \E row \in DeskRows : GoesTo(c, row, pc) /\ row.arg = desk[c].arg
<1> PICK old \in DeskRows : old = desk[c]
  BY DeskAt
<1> DEFINE new == [old EXCEPT !.pc = pc]
<1>1. desk' = [desk EXCEPT ![c] = new]
  OBVIOUS
<1>2. /\ new \in DeskRows /\ new.pc = pc /\ new.tool = old.tool /\ new.who = old.who /\ new.arg = old.arg
      /\ new.status = old.status /\ new.assignee = old.assignee /\ new.run = old.run
  BY DEF DeskRows
<1> HIDE DEF new
<1> QED BY <1>1, <1>2 DEF GoesTo

LEMMA GoesOnWith ==
  ASSUME DeskInv, NEW c \in Desks, NEW pc \in DeskSteps, NEW arg \in Anyone \cup Kinds \cup {"same"},
         desk' = [desk EXCEPT ![c].pc = pc, ![c].arg = arg]
  PROVE  \E row \in DeskRows : GoesTo(c, row, pc) /\ row.arg = arg
<1> PICK old \in DeskRows : old = desk[c]
  BY DeskAt
<1> DEFINE new == [old EXCEPT !.pc = pc, !.arg = arg]
<1>1. desk' = [desk EXCEPT ![c] = new]
  BY DEF DeskInv, DeskTyped
<1>2. /\ new \in DeskRows /\ new.pc = pc /\ new.tool = old.tool /\ new.who = old.who /\ new.arg = arg
      /\ new.status = old.status /\ new.assignee = old.assignee /\ new.run = old.run
  BY DEF DeskRows
<1> HIDE DEF new
<1> QED BY <1>1, <1>2 DEF GoesTo

LEMMA StepsNamed ==
  {"idle", "check", "commit", "fire", "outcome", "close", "stop", "list", "put", "dangling"} \subseteq DeskSteps
BY DEF DeskSteps

LEMMA CallEnds == ASSUME NEW c \in Desks, Returns(c) PROVE desk' = [desk EXCEPT ![c] = NoTool]
BY DEF Returns

\* The order of the steps.
LEMMA FollowingIs ==
  ASSUME DeskInv, NEW c \in Desks
  PROVE  /\ desk[c].pc = "commit" /\ desk[c].tool \in {"accept", "sibling"} => Following(c) = "fire"
         /\ desk[c].pc = "commit" /\ desk[c].tool = "reject" => Following(c) = "outcome"
         /\ desk[c].pc = "commit" /\ desk[c].tool \in {"update", "cancel", "delete"} => Following(c) = "stop"
         /\ desk[c].pc = "commit" /\ desk[c].tool = "reassign" => Following(c) = "close"
         /\ desk[c].pc = "fire" => Following(c) = IF desk[c].tool = "accept" THEN "outcome" ELSE "over"
         /\ desk[c].pc = "outcome" => Following(c) = "close"
         /\ desk[c].pc = "close" => Following(c) = IF desk[c].tool = "reassign" THEN "stop" ELSE "over"
         /\ desk[c].pc = "stop" => Following(c) = IF desk[c].tool = "cancel" THEN "close" ELSE "over"
BY DEF Following, After

LEMMA ProceedsTo ==
  ASSUME DeskInv, NEW c \in Desks, Proceeds(c), NEW pc \in DeskSteps, Following(c) = pc, pc # "over"
  PROVE  \E row \in DeskRows : GoesTo(c, row, pc) /\ row.arg = desk[c].arg
<1>1. desk' = [desk EXCEPT ![c].pc = pc]
  BY DEF Proceeds
<1> QED BY <1>1, CallGoesOn

LEMMA ProceedsOver ==
  ASSUME NEW c \in Desks, Proceeds(c), Following(c) = "over"
  PROVE  desk' = [desk EXCEPT ![c] = NoTool]
BY DEF Proceeds, Returns

--------------------------------------------------------------------------------
(* Calls that owe nothing yet *)

LEMMA OpensKeeps ==
  ASSUME DeskInv, NEW c \in Desks, NEW tool \in DeskTools, NEW who \in Owners, NEW arg \in Anyone,
         Opens(c, tool, who, arg)
  PROVE  DeskInv'
<1> PICK status \in Statuses, assignee \in Anyone : status = board.status /\ assignee = board.assignee
  BY BoardAt
<1> DEFINE row == [pc |-> "check", tool |-> tool, who |-> who, arg |-> arg, status |-> status,
                   assignee |-> assignee, run |-> 0]
<1>1. desk[c] = NoTool /\ desk' = [desk EXCEPT ![c] = row]
      /\ UNCHANGED <<board, sibling, decisions, runsMade, ledgers>>
  BY DEF Opens
<1>2. row \in DeskRows /\ row.pc = "check" /\ row.run = 0 /\ row.arg \in Anyone
  BY DEF DeskRows, DeskSteps, Anyone
<1> HIDE DEF row
<1>3. OwesNothing(desk[c]) /\ OwesNothing(row) /\ RowFits(row)
  BY <1>1, <1>2, BlankTool, BoardAt DEF OwesNothing, RowFits
<1> QED BY <1>1, <1>2, <1>3, OnlyTheCall

LEMMA RefreshKeeps ==
  ASSUME DeskInv, NEW c \in Desks, NEW tool, NEW owner \in Owners, RefreshQueue(c, tool, owner)
  PROVE  DeskInv'
<1> DEFINE row == [NoTool EXCEPT !.pc = "list", !.tool = tool, !.who = owner,
                                 !.arg = IF tool = "queue" THEN "review" ELSE "orphaned_task"]
<1>1. desk[c] = NoTool /\ desk' = [desk EXCEPT ![c] = row] /\ tool \in {"queue", "pass"}
      /\ UNCHANGED <<board, sibling, decisions, runsMade, ledgers>>
  BY DEF RefreshQueue
<1>2. /\ row \in DeskRows /\ row.pc = "list" /\ row.run = 0 /\ row.who = owner /\ row.arg \in Kinds
  BY <1>1 DEF NoTool, DeskRows, DeskSteps, DeskTools, Anyone, Kinds
<1> HIDE DEF row
<1>3. OwesNothing(desk[c]) /\ OwesNothing(row) /\ RowFits(row)
  BY <1>1, <1>2, BlankTool, BoardAt DEF OwesNothing, RowFits
<1> QED BY <1>1, <1>2, <1>3, OnlyTheCall

LEMMA StartsCallKeeps == ASSUME DeskInv, NEW c \in Desks, StartsCall(c) PROVE DeskInv'
<1>1. CASE \E tool \in {"pending", "in_progress", "done", "attach", "accept", "reject"}, who \in Owners :
             ReadTask(c, tool, who, "none")
  BY <1>1, OpensKeeps DEF ReadTask, DeskTools, Anyone
<1>2. CASE \E tool \in {"update", "cancel", "delete", "participants"} : ReadTask(c, tool, Manager, "none")
  BY <1>2, OpensKeeps DEF ReadTask, DeskTools, Anyone, Owners
<1>3. CASE \E to \in (Owners \cup Robots) \ circumstances.gone : ReadTask(c, "reassign", Manager, to)
  BY <1>3, OpensKeeps DEF ReadTask, DeskTools, Anyone, Owners
<1>4. CASE Opens(c, "sibling", Manager, "none")
  BY <1>4, OpensKeeps DEF DeskTools, Anyone, Owners
<1>5. CASE \E tool \in {"queue", "pass"}, owner \in Owners : RefreshQueue(c, tool, owner)
  BY <1>5, RefreshKeeps
<1> QED BY <1>1, <1>2, <1>3, <1>4, <1>5 DEF StartsCall

LEMMA CheckAccessKeeps == ASSUME DeskInv, NEW c \in Desks, CheckAccess(c) PROVE DeskInv'
<1>1. desk[c].pc = "check" /\ OwesNothing(desk[c]) /\ UNCHANGED <<board, sibling, decisions, runsMade, ledgers>>
  BY DEF CheckAccess, OwesNothing
<1>2. CASE Allowed(c)
  <2> PICK n \in Nat : n = IF After(desk[c].tool) \in {"stop", "close"} THEN board.run ELSE 0
    BY BoardAt
  <2> PICK old \in DeskRows : old = desk[c]
    BY DeskAt
  <2> DEFINE row == [old EXCEPT !.pc = "commit", !.run = n]
  <2>1. desk' = [desk EXCEPT ![c] = row]
    BY <1>2 DEF CheckAccess, DeskInv, DeskTyped
  <2>2. /\ row \in DeskRows /\ row.pc = "commit" /\ row.run = n /\ row.tool = old.tool /\ row.arg = old.arg
        /\ row.assignee = old.assignee
    BY DEF DeskRows, DeskSteps
  <2> HIDE DEF row
  <2>3. (old.tool = "reassign" => old.arg # old.assignee) /\ old.arg \in Anyone
    BY <1>1, <1>2, DeskAt DEF Allowed, RowFits
  <2>4. n <= runsMade
    BY BoardAt
  <2>5. OwesNothing(row) /\ RowFits(row)
    BY <2>2, <2>3, <2>4 DEF OwesNothing, RowFits
  <2> QED BY <1>1, <2>1, <2>2, <2>5, OnlyTheCall
<1>3. CASE ~Allowed(c)
  <2>1. desk' = [desk EXCEPT ![c] = NoTool]
    BY <1>3, CallEnds DEF CheckAccess
  <2>2. OwesNothing(NoTool) /\ RowFits(NoTool)
    BY BlankTool, BlankFits, BoardAt DEF OwesNothing
  <2> QED BY <1>1, <2>1, <2>2, BlankTool, OnlyTheCall
<1> QED BY <1>2, <1>3

\* The row of a refresh that goes to the next kind of items.
LEMMA NextItemRow ==
  ASSUME DeskInv, NEW c \in Desks, desk[c].pc \in {"list", "put"}, NextItem(c)
  PROVE  \E row \in DeskRows : desk' = [desk EXCEPT ![c] = row] /\ OwesNothing(row) /\ RowFits(row)
<1>1. desk[c].who \in Owners /\ desk[c].run <= runsMade /\ desk[c].run \in Nat /\ RowFits(desk[c])
  BY DeskAt DEF RowFits
<1>2. CASE NextKind(desk[c].arg) # "dangling"
  <2> PICK kind \in Kinds : kind = NextKind(desk[c].arg)
    BY <1>2 DEF NextKind, Kinds
  <2>1. desk' = [desk EXCEPT ![c].pc = "list", ![c].arg = kind]
    BY <1>2 DEF NextItem
  <2>2. "list" \in DeskSteps /\ kind \in Anyone \cup Kinds \cup {"same"}
    BY StepsNamed
  <2>3. \E row \in DeskRows : GoesTo(c, row, "list") /\ row.arg = kind
    BY <2>1, <2>2, GoesOnWith, ZenonT(60)
  <2> PICK row \in DeskRows : GoesTo(c, row, "list") /\ row.arg = kind
    BY <2>3
  <2> QED BY <1>1 DEF GoesTo, OwesNothing, RowFits
<1>3. CASE NextKind(desk[c].arg) = "dangling" /\ desk[c].tool = "queue"
  <2>1. desk' = [desk EXCEPT ![c].pc = "dangling"]
    BY <1>3 DEF NextItem
  <2> PICK row \in DeskRows : GoesTo(c, row, "dangling")
    BY <2>1, CallGoesOn, StepsNamed
  <2> QED BY <1>1 DEF GoesTo, OwesNothing, RowFits
<1>4. CASE NextKind(desk[c].arg) = "dangling" /\ desk[c].tool # "queue"
  <2>1. desk' = [desk EXCEPT ![c] = NoTool]
    BY <1>4, CallEnds DEF NextItem
  <2>2. OwesNothing(NoTool) /\ RowFits(NoTool)
    BY BlankTool, BlankFits, BoardAt DEF OwesNothing
  <2> QED BY <2>1, <2>2, BlankTool
<1> QED BY <1>2, <1>3, <1>4

LEMMA ListItemsKeeps == ASSUME DeskInv, NEW c \in Desks, ListItems(c) PROVE DeskInv'
<1>1. desk[c].pc = "list" /\ OwesNothing(desk[c]) /\ UNCHANGED <<board, sibling, decisions, runsMade, ledgers>>
  BY DEF ListItems, OwesNothing
<1>2. CASE Concerns(desk[c].who, desk[c].arg)
  <2>1. desk' = [desk EXCEPT ![c].pc = "put"]
    BY <1>2 DEF ListItems
  <2> PICK row \in DeskRows : GoesTo(c, row, "put") /\ row.arg = desk[c].arg
    BY <2>1, CallGoesOn, StepsNamed
  <2>2. OwesNothing(row) /\ RowFits(row) /\ desk' = [desk EXCEPT ![c] = row]
    BY <1>1, DeskAt DEF GoesTo, OwesNothing, RowFits
  <2> QED BY <1>1, <2>2, OnlyTheCall
<1>3. CASE ~Concerns(desk[c].who, desk[c].arg)
  <2> PICK row \in DeskRows : desk' = [desk EXCEPT ![c] = row] /\ OwesNothing(row) /\ RowFits(row)
    BY <1>1, <1>3, NextItemRow DEF ListItems
  <2> QED BY <1>1, OnlyTheCall
<1> QED BY <1>2, <1>3

LEMMA UpsertKeeps == ASSUME DeskInv, NEW c \in Desks, UpsertDecisionItem(c) PROVE DeskInv'
<1> PICK owner \in Owners, kind \in Kinds : owner = desk[c].who /\ kind = desk[c].arg /\ desk[c].pc = "put"
  BY DeskAt DEF UpsertDecisionItem, RowFits
<1>1. /\ UNCHANGED <<board, roster, circumstances, sibling, runsMade, verdicts, ledger, announced, toldToStop>>
      /\ slips' = (IF Concerns(owner, kind) THEN slips ELSE slips \cup {"stale item"})
      /\ OwesNothing(desk[c])
  BY DEF UpsertDecisionItem, OwesNothing
<1> PICK row \in DeskRows : desk' = [desk EXCEPT ![c] = row] /\ OwesNothing(row) /\ RowFits(row)
  BY NextItemRow DEF UpsertDecisionItem
<1>2. RowFits(row)'
  BY <1>1 DEF RowFits
<1>3. /\ decisions' \in [Owners -> [Kinds -> {"none", "open", "closed"}]]
      /\ \A o \in Owners : o # owner => decisions'[o] = decisions[o]
  <2> PICK item \in {"none", "open", "closed"} : item = decisions[owner][kind]
    BY DEF DeskInv, DeskTyped
  <2> PICK items \in [Kinds -> {"none", "open", "closed"}] :
        items = [decisions[owner] EXCEPT ![kind] = IF item = "none" THEN "open" ELSE item]
    BY DEF DeskInv, DeskTyped
  <2>1. decisions' = [decisions EXCEPT ![owner] = items]
    BY DEF UpsertDecisionItem
  <2> QED BY <2>1 DEF DeskInv, DeskTyped
<1>4. Undisturbed
  <2>1. ASSUME slips' = {}, Finished' PROVE Open' => Open
    <3>1. Concerns(owner, kind)
      BY <1>1, <2>1
    <3>2. board.status \notin {"cancelled", "accepted"}
      BY <1>1, <2>1, <3>1 DEF Finished, Concerns, IsOpen
    <3> QED BY <1>1, <2>1, <3>2 DEF Finished
  <2>2. (Finished' <=> Finished) /\ (Ready' <=> Ready)
    BY <1>1 DEF Finished, Ready
  <2>3. slips' = {} /\ Finished' /\ Open' => Finished /\ Open
    BY <2>1, <2>2
  <2>4. UNCHANGED <<sibling, verdicts, ledger, announced, toldToStop>> /\ slips \subseteq slips'
    BY <1>1
  <2> QED BY <1>3, <2>2, <2>3, <2>4 DEF Undisturbed
<1>5. board' \in BoardRows /\ runsMade' \in Nat /\ runsMade <= runsMade' /\ Stays
  <2>1. board' = board /\ runsMade' = runsMade
    BY <1>1
  <2> QED BY <2>1, BoardAt DEF Stays
<1>6. BoardStands'
  BY <1>1 DEF DeskInv, BoardStands
<1> QED BY <1>1, <1>2, <1>4, <1>5, <1>6, QuietMoves, StaysPast

\* Closing items opens none.
LEMMA ItemsClosedAt ==
  ASSUME DeskInv, NEW owner \in Owners, NEW kinds,
         decisions' = [decisions EXCEPT ![owner] = ItemsClosed(decisions[owner], kinds)]
  PROVE  /\ decisions' \in [Owners -> [Kinds -> {"none", "open", "closed"}]]
         /\ Open' => Open
         /\ owner = Manager /\ Kinds \subseteq kinds => ~Open'
<1> PICK old \in [Kinds -> {"none", "open", "closed"}] : old = decisions[owner]
  BY DEF DeskInv, DeskTyped
<1> PICK items : items = ItemsClosed(old, kinds)
  OBVIOUS
<1>1. /\ items \in [Kinds -> {"none", "open", "closed"}]
      /\ \A k \in Kinds : items[k] = "open" => old[k] = "open" /\ k \notin kinds
  BY DEF ItemsClosed
<1>2. decisions' = [decisions EXCEPT ![owner] = items]
  OBVIOUS
<1>3. /\ decisions' \in [Owners -> [Kinds -> {"none", "open", "closed"}]] /\ decisions'[owner] = items
      /\ \A o \in Owners : o # owner => decisions'[o] = decisions[o]
  BY <1>1, <1>2 DEF DeskInv, DeskTyped
<1>4. Manager \in Owners
  BY DEF Owners
<1> QED BY <1>1, <1>3, <1>4 DEF Open

LEMMA DanglingKeeps == ASSUME DeskInv, NEW c \in Desks, closeDanglingTaskDecisionItems(c) PROVE DeskInv'
<1>1. /\ UNCHANGED <<board, sibling, runsMade, ledgers>> /\ desk[c].pc = "dangling" /\ OwesNothing(desk[c])
      /\ desk' = [desk EXCEPT ![c] = NoTool]
  BY CallEnds DEF closeDanglingTaskDecisionItems, OwesNothing
<1> PICK owner \in Owners : owner = desk[c].who
  BY <1>1, DeskAt DEF RowFits
<1>2. decisions' \in [Owners -> [Kinds -> {"none", "open", "closed"}]] /\ (Open' => Open)
  <2>1. CASE board.status = "absent"
    <3>1. decisions' = [decisions EXCEPT ![owner] = ItemsClosed(decisions[owner], Kinds)]
      BY <2>1 DEF closeDanglingTaskDecisionItems
    <3> QED BY <3>1, ItemsClosedAt
  <2>2. CASE board.status # "absent"
    BY <2>2 DEF closeDanglingTaskDecisionItems, DeskInv, DeskTyped, Open
  <2> QED BY <2>1, <2>2
<1>3. Undisturbed
  <2>1. UNCHANGED <<sibling, verdicts, ledger, announced, toldToStop, slips>>
    BY <1>1 DEF ledgers
  <2>2. (Finished' <=> Finished) /\ (Ready' <=> Ready)
    BY <1>1, <2>1 DEF Finished, Ready
  <2> QED BY <1>2, <2>1, <2>2 DEF Undisturbed
<1>4. board' \in BoardRows /\ runsMade' \in Nat /\ runsMade <= runsMade' /\ Stays /\ BoardStands'
  BY <1>1, BoardAt DEF Stays, DeskInv, BoardStands, ledgers
<1>5. OwesNothing(NoTool) /\ RowFits(NoTool)'
  BY <1>4, BlankTool DEF OwesNothing, RowFits
<1> QED BY <1>1, <1>3, <1>4, <1>5, BlankTool, QuietMoves, StaysPast

--------------------------------------------------------------------------------
(* Transactions after which nothing is owed *)

\* What a transaction leaves alone.
LEMMA CommitsLeaves ==
  ASSUME NEW c \in Desks, NEW tool, Commits(c, tool)
  PROVE  /\ desk[c].pc = "commit" /\ desk[c].tool = tool /\ OwesNothing(desk[c])
         /\ UNCHANGED <<decisions, ledger, announced, toldToStop, slips>>
BY DEF Commits, OwesNothing

\* A call whose transaction starts the task over, or does nothing to it, and ends.
LEMMA ReturnKeeps ==
  ASSUME DeskInv, NEW c \in Desks, OwesNothing(desk[c]), Returns(c),
         UNCHANGED <<decisions, sibling, verdicts, ledger, announced, toldToStop, slips>>,
         \/ NoChange
         \/ /\ verdicts["accepted"] = 0
            /\ \E status \in Statuses : StartsOver(status) /\ status # "cancelled"
         \/ StartsOver("absent")
  PROVE  DeskInv'
<1>1. desk' = [desk EXCEPT ![c] = NoTool] /\ OwesNothing(NoTool)
  BY CallEnds, BlankTool DEF OwesNothing
<1>2. decisions' \in [Owners -> [Kinds -> {"none", "open", "closed"}]] /\ (Open' <=> Open)
  BY DEF DeskInv, DeskTyped, Open
<1>3. CASE NoChange
  <2>1. Undisturbed
    BY <1>2, <1>3 DEF NoChange, Undisturbed, Finished, Ready
  <2>2. board' \in BoardRows /\ runsMade' \in Nat /\ runsMade <= runsMade' /\ PastStays
    BY <1>3, BoardAt, TaskStays, StaysPast DEF NoChange
  <2>3. BoardStands'
    BY <1>3 DEF NoChange, DeskInv, BoardStands
  <2>4. RowFits(NoTool)'
    BY <2>2, BlankTool DEF RowFits
  <2> QED BY <1>1, <2>1, <2>2, <2>3, <2>4, BlankTool, QuietMoves
<1>4. ASSUME NEW status \in Statuses, StartsOver(status), status # "cancelled",
             verdicts["accepted"] = 0 \/ status = "absent"
      PROVE  DeskInv'
  <2>1. ~Finished' /\ ~Ready'
    BY <1>4, NoneAccepted DEF StartsOver, Finished, Ready
  <2>2. Undisturbed
    BY <1>2, <2>1 DEF Undisturbed
  <2>3. board' \in BoardRows /\ runsMade' \in Nat /\ runsMade <= runsMade' /\ PastStays
    BY <1>4, StartsFresh DEF StartsOver
  <2>4. verdicts' \in [Judging -> Nat] /\ (verdicts'["accepted"] > 0 => status \in {"accepted", "absent"})
    BY <1>4, NoneAccepted DEF DeskInv, DeskTyped
  <2>5. BoardStands'
    BY <1>4, <2>4, StartsStand
  <2>6. RowFits(NoTool)'
    BY <2>3, BlankTool DEF RowFits
  <2> QED BY <1>1, <2>2, <2>3, <2>5, <2>6, BlankTool, QuietMoves
<1>5. CASE StartsOver("absent")
  BY <1>4, <1>5 DEF Statuses
<1> QED BY <1>3, <1>4, <1>5

\* The task starts over with another status.
LEMMA RestartWith ==
  ASSUME DeskInv, NEW status \in Statuses, Restarted([board EXCEPT !.status = status])
  PROVE  StartsOver(status) /\ board'.assignee = board.assignee
<1> PICK row : row = [board EXCEPT !.status = status]
  OBVIOUS
<1>1. row \in BoardRows /\ row.status = status /\ row.assignee = board.assignee
  BY BoardAt DEF BoardRows
<1>2. Restarted(row)
  BY DEF Restarted
<1>3. StartsOver(row.status) /\ board'.assignee = row.assignee
  BY <1>1, <1>2, RestartStarts
<1> QED BY <1>1, <1>3 DEF StartsOver

LEMMA ReviseIs ==
  ASSUME DeskInv, Revise
  PROVE  \/ NoChange /\ board.assignee \notin Robots
         \/ StartsOver("pending") /\ board'.assignee = board.assignee
<1>1. CASE board.assignee \in Robots
  BY <1>1, RestartWith DEF Revise, Statuses
<1>2. CASE board.assignee \notin Robots
  BY <1>2 DEF Revise, NoChange
<1> QED BY <1>1, <1>2

LEMMA SetMyStatusKeeps == ASSUME DeskInv, NEW c \in Desks, NEW status, SetMyStatus(c, status) PROVE DeskInv'
<1>1. /\ status \in Statuses /\ status # "cancelled" /\ OwesNothing(desk[c]) /\ Returns(c)
      /\ UNCHANGED <<decisions, sibling, verdicts, ledger, announced, toldToStop, slips>>
  BY CommitsLeaves DEF SetMyStatus, Statuses
<1>2. CASE board.status \in {"accepted", "cancelled", "absent", status}
  BY <1>1, <1>2, ReturnKeeps DEF SetMyStatus
<1>3. CASE board.status \notin {"accepted", "cancelled", "absent", status}
  <2>1. StartsOver(status)
    BY <1>1, <1>3, RestartWith DEF SetMyStatus
  <2>2. verdicts["accepted"] = 0
    BY <1>3, NoneAccepted
  <2> QED BY <1>1, <2>1, <2>2, ReturnKeeps
<1> QED BY <1>2, <1>3

LEMMA SubmitResultKeeps == ASSUME DeskInv, NEW c \in Desks, SubmitResult(c) PROVE DeskInv'
<1>1. /\ OwesNothing(desk[c]) /\ Returns(c)
      /\ UNCHANGED <<decisions, sibling, verdicts, ledger, announced, toldToStop, slips>>
  BY CommitsLeaves DEF SubmitResult
<1>2. CASE Submits(c)
  <2> PICK status \in {"accepted", "done"} : status = SubmittedStatus
    BY DEF SubmittedStatus
  <2>1. status \in Statuses /\ status # "cancelled" /\ RunsCancelled(status)
    BY <1>2 DEF SubmitResult, Statuses
  <2>2. StartsOver(status)
    BY <2>1, CancelStarts
  <2>3. verdicts["accepted"] = 0
    BY <1>2, NoneAccepted DEF Submits
  <2> QED BY <1>1, <2>1, <2>2, <2>3, ReturnKeeps
<1>3. CASE ~Submits(c)
  BY <1>1, <1>3, ReturnKeeps DEF SubmitResult
<1> QED BY <1>2, <1>3

LEMMA AttachKeeps == ASSUME DeskInv, NEW c \in Desks, NEW inserted, Attach(c, inserted) PROVE DeskInv'
<1>1. /\ OwesNothing(desk[c]) /\ Returns(c)
      /\ UNCHANGED <<decisions, sibling, verdicts, ledger, announced, toldToStop, slips>>
  BY CommitsLeaves DEF Attach
<1>2. CASE NoChange
  BY <1>1, <1>2, ReturnKeeps
<1>3. CASE ~NoChange
  <2>1. IsOpen /\ Revise
    BY <1>3 DEF Attach
  <2>2. StartsOver("pending")
    BY <1>3, <2>1, ReviseIs
  <2>3. verdicts["accepted"] = 0 /\ "pending" \in Statuses /\ "pending" # "cancelled"
    BY <2>1, NoneAccepted DEF IsOpen, Statuses
  <2> QED BY <1>1, <2>2, <2>3, ReturnKeeps
<1> QED BY <1>2, <1>3

LEMMA ParticipantsKeeps == ASSUME DeskInv, NEW c \in Desks, NEW wanted, SetParticipants(c, wanted) PROVE DeskInv'
<1>1. /\ OwesNothing(desk[c]) /\ Returns(c) /\ NoChange
      /\ UNCHANGED <<decisions, sibling, verdicts, ledger, announced, toldToStop, slips>>
  BY CommitsLeaves DEF SetParticipants, NoChange
<1> QED BY <1>1, ReturnKeeps

--------------------------------------------------------------------------------
(* Transactions that leave something to do *)

LEMMA TypesKept ==
  ASSUME DeskInv, NEW c \in Desks, NEW row \in DeskRows, desk' = [desk EXCEPT ![c] = row],
         board' \in BoardRows, runsMade' \in Nat, runsMade <= runsMade', RowFits(row)',
         sibling' \in BOOLEAN, announced' \in BOOLEAN,
         decisions' \in [Owners -> [Kinds -> {"none", "open", "closed"}]],
         verdicts' \in [Judging -> Nat], ledger' \in [Judging -> Nat]
  PROVE  DeskTyped' /\ \A d \in Desks : RowFits(desk[d])'
<1>1. \A d \in Desks : RowFits(desk[d])'
  BY RowsFit
<1>2. desk' \in [Desks -> DeskRows]
  BY DeskSet
<1> QED BY <1>1, <1>2 DEF DeskTyped

\* Where a call may go after its transaction.
FitsAfter(tool, pc) ==
  \/ pc = "fire" /\ tool \in {"accept", "sibling"}
  \/ pc = "outcome" /\ tool = "reject"
  \/ pc = "stop" /\ tool \in {"update", "cancel", "delete"}
  \/ pc = "close" /\ tool = "reassign"

LEMMA CommittedFits ==
  ASSUME DeskInv, NEW c \in Desks, NEW row \in DeskRows, NEW pc, GoesTo(c, row, pc), FitsAfter(desk[c].tool, pc),
         runsMade' \in Nat, runsMade <= runsMade'
  PROVE  RowFits(row)'
<1> PICK n \in Nat, m \in Nat : n = runsMade /\ m = runsMade'
  BY BoardAt
<1>1. row.run \in Nat /\ row.run <= n /\ n <= m /\ row.pc = pc /\ row.tool = desk[c].tool
  BY DeskAt DEF GoesTo, RowFits
<1>2. row.run <= m
  BY <1>1
<1> QED BY <1>1, <1>2 DEF RowFits, FitsAfter

LEMMA CommittedGoes ==
  ASSUME DeskInv, NEW c \in Desks, desk[c].pc = "commit", Proceeds(c),
         NEW pc \in {"fire", "outcome", "stop", "close"}, FitsAfter(desk[c].tool, pc)
  PROVE  \E row \in DeskRows : GoesTo(c, row, pc) /\ row.arg = desk[c].arg
<1>1. Following(c) = pc /\ pc # "over"
  BY FollowingIs DEF FitsAfter
<1>2. pc \in DeskSteps
  BY StepsNamed
<1> QED BY <1>1, <1>2, ProceedsTo

LEMMA AcceptKeeps == ASSUME DeskInv, NEW c \in Desks, AcceptWork(c) PROVE DeskInv'
<1>1. /\ desk[c].pc = "commit" /\ desk[c].tool = "accept" /\ OwesNothing(desk[c])
      /\ UNCHANGED <<decisions, sibling, runsMade, ledger, announced, toldToStop, slips>>
  BY CommitsLeaves DEF AcceptWork, Judged
<1>2. CASE ~Reviewable
  <2>1. Returns(c) /\ NoChange /\ UNCHANGED <<decisions, sibling, verdicts, ledger, announced, toldToStop, slips>>
    BY <1>1, <1>2 DEF AcceptWork, Judged, Continues, NoChange
  <2> QED BY <1>1, <2>1, ReturnKeeps
<1>3. CASE Reviewable
  <2>1. Proceeds(c) /\ verdicts' = [verdicts EXCEPT !["accepted"] = @ + 1]
        /\ board' = [board EXCEPT !.status = "accepted"]
    BY <1>3 DEF AcceptWork, Judged, Continues
  <2>2. FitsAfter(desk[c].tool, "fire")
    BY <1>1 DEF FitsAfter
  <2> PICK row \in DeskRows : GoesTo(c, row, "fire")
    BY <1>1, <2>1, <2>2, CommittedGoes
  <2>3. desk' = [desk EXCEPT ![c] = row] /\ row.pc = "fire" /\ row.tool = "accept"
    BY <1>1 DEF GoesTo
  <2>4. /\ board' \in BoardRows /\ board'.status = "accepted" /\ board'.assignee = board.assignee
        /\ board'.run = board.run /\ board'.claimed = board.claimed
    BY <2>1, BoardAt DEF BoardRows, Statuses
  <2>5. /\ verdicts' \in [Judging -> Nat] /\ verdicts'["accepted"] = verdicts["accepted"] + 1
        /\ verdicts'["rejected"] = verdicts["rejected"] /\ ledger' \in [Judging -> Nat] /\ ledger' = ledger
    BY <1>1, <2>1 DEF DeskInv, DeskTyped, Judging
  <2>6. Stays /\ runsMade' \in Nat /\ runsMade <= runsMade'
    BY <1>1, <2>4, BoardAt DEF Stays
  <2>7. BoardStands'
    BY <1>3, <2>4, <2>6, NoneAccepted, StaysStand DEF Reviewable
  <2>8. DeskTyped' /\ \A d \in Desks : RowFits(desk[d])'
    BY <1>1, <2>2, <2>3, <2>4, <2>5, <2>6, CommittedFits, TypesKept DEF DeskInv, DeskTyped
  <2>9. StopsStand'
    BY <1>1, <2>3, <2>6, StaysPast, StopsKept DEF OwesStop
  <2>10. LedgerStands'
    <3>1. VerdictGiven(c, row, "accepted") /\ VerdictKept(c, row, "rejected")
      BY <1>1, <2>3, <2>5 DEF VerdictGiven, VerdictKept, OwesVerdict, VerdictOf
    <3> QED BY <1>1, <2>3, <2>5, <3>1, LedgerKept DEF Judging
  <2>11. NewsStands'
    <3>1. announced' => sibling'
      BY <1>1 DEF DeskInv, NewsStands
    <3> QED BY <1>1, <2>3, <3>1, NewsKept DEF OwesNews
  <2>12. ClosingStands'
    BY <1>1, <2>3, ClosingKept DEF OwesClosing
  <2> QED BY <2>7, <2>8, <2>9, <2>10, <2>11, <2>12 DEF DeskInv
<1> QED BY <1>2, <1>3

LEMMA RejectWorkKeeps == ASSUME DeskInv, NEW c \in Desks, RejectWork(c) PROVE DeskInv'
<1>1. /\ desk[c].pc = "commit" /\ desk[c].tool = "reject" /\ OwesNothing(desk[c])
      /\ UNCHANGED <<decisions, sibling, ledger, announced, toldToStop, slips>>
  BY CommitsLeaves DEF RejectWork, Judged
<1>2. CASE ~Reviewable
  <2>1. Returns(c) /\ NoChange /\ UNCHANGED <<decisions, sibling, verdicts, ledger, announced, toldToStop, slips>>
    BY <1>1, <1>2 DEF RejectWork, Judged, Continues
  <2> QED BY <1>1, <2>1, ReturnKeeps
<1>3. CASE Reviewable
  <2>1. Proceeds(c) /\ verdicts' = [verdicts EXCEPT !["rejected"] = @ + 1]
    BY <1>3 DEF RejectWork, Judged, Continues
  <2>2. FitsAfter(desk[c].tool, "outcome")
    BY <1>1 DEF FitsAfter
  <2> PICK row \in DeskRows : GoesTo(c, row, "outcome")
    BY <1>1, <2>1, <2>2, CommittedGoes
  <2>3. desk' = [desk EXCEPT ![c] = row] /\ row.pc = "outcome" /\ row.tool = "reject"
    BY <1>1 DEF GoesTo
  <2> PICK status \in {"pending", "in_progress"} : status = IF board.assignee \in Robots THEN "pending" ELSE "in_progress"
    OBVIOUS
  <2>4. status \in Statuses /\ Restarted([board EXCEPT !.status = status])
    BY <1>3 DEF RejectWork, Statuses
  <2>5. StartsOver(status)
    BY <2>4, RestartWith
  <2>6. /\ verdicts' \in [Judging -> Nat] /\ verdicts'["accepted"] = verdicts["accepted"]
        /\ verdicts'["rejected"] = verdicts["rejected"] + 1 /\ ledger' \in [Judging -> Nat] /\ ledger' = ledger
    BY <1>1, <2>1 DEF DeskInv, DeskTyped, Judging
  <2>7. verdicts'["accepted"] = 0
    BY <1>3, <2>6, NoneAccepted DEF Reviewable
  <2>8. BoardStands' /\ PastStays
    BY <2>5, <2>6, <2>7, StartsStand, StartsFresh
  <2>9. ~Ready' /\ ~Finished'
    BY <2>5, <2>7 DEF Ready, Finished, StartsOver
  <2>10. board' \in BoardRows /\ runsMade' \in Nat /\ runsMade <= runsMade'
    BY <2>5 DEF StartsOver
  <2>11. DeskTyped' /\ \A d \in Desks : RowFits(desk[d])'
    BY <1>1, <2>2, <2>3, <2>6, <2>10, CommittedFits, TypesKept DEF DeskInv, DeskTyped
  <2>12. StopsStand'
    BY <1>1, <2>3, <2>8, StopsKept DEF OwesStop
  <2>13. LedgerStands'
    <3>1. VerdictGiven(c, row, "rejected") /\ VerdictKept(c, row, "accepted")
      BY <1>1, <2>3, <2>6 DEF VerdictGiven, VerdictKept, OwesVerdict, VerdictOf
    <3> QED BY <1>1, <2>3, <2>6, <3>1, LedgerKept DEF Judging
  <2>14. NewsStands'
    <3>1. announced' => sibling'
      BY <1>1 DEF DeskInv, NewsStands
    <3> QED BY <1>1, <2>3, <2>9, <3>1, NewsKept
  <2>15. ClosingStands'
    BY <1>1, <2>3, <2>9, ClosingKept
  <2> QED BY <2>8, <2>11, <2>12, <2>13, <2>14, <2>15 DEF DeskInv
<1> QED BY <1>2, <1>3

\* A call that changed the task and will stop its worker.
LEMMA StopGoes ==
  ASSUME DeskInv, NEW c \in Desks, desk[c].pc = "commit", NEW pc \in {"stop", "close"}, FitsAfter(desk[c].tool, pc),
         NEW row \in DeskRows, GoesTo(c, row, pc),
         UNCHANGED <<decisions, sibling, verdicts, ledger, announced, toldToStop, slips>>,
         board' \in BoardRows, runsMade' \in Nat, runsMade <= runsMade', PastStays, BoardStands',
         OwesStop(row) => Past(row.assignee, row.run)',
         ~Ready', ~Finished' \/ desk[c].tool = "cancel"
  PROVE  DeskInv'
<1>1. /\ desk' = [desk EXCEPT ![c] = row] /\ row.pc = pc /\ row.tool = desk[c].tool
      /\ row.tool \in {"update", "cancel", "delete", "reassign"}
  BY DEF GoesTo, FitsAfter
<1>2. DeskTyped' /\ \A d \in Desks : RowFits(desk[d])'
  BY <1>1, CommittedFits, TypesKept DEF DeskInv, DeskTyped
<1>3. StopsStand'
  BY <1>1, StopsKept
<1>4. LedgerStands'
  <2>1. \A v \in Judging : VerdictKept(c, row, v)
    BY <1>1 DEF VerdictKept, OwesVerdict
  <2>2. verdicts' \in [Judging -> Nat] /\ ledger' \in [Judging -> Nat] /\ slips \subseteq slips'
    BY DEF DeskInv, DeskTyped
  <2> QED BY <1>1, <2>1, <2>2, LedgerKept
<1>5. NewsStands'
  <2>1. announced' => sibling'
    BY DEF DeskInv, NewsStands
  <2> QED BY <1>1, <2>1, NewsKept
<1>6. ClosingStands'
  BY <1>1, ClosingKept DEF OwesClosing
<1> QED BY <1>2, <1>3, <1>4, <1>5, <1>6 DEF DeskInv

\* The run a call has read was given out.
LEMMA ReadRun ==
  ASSUME DeskInv, NEW c \in Desks, NEW row, NEW pc, GoesTo(c, row, pc)
  PROVE  row.run \in Nat /\ row.run <= runsMade /\ row.assignee = desk[c].assignee
         /\ (row.run # 0 => row.run \in 1..runsMade)
<1> PICK n \in Nat, m \in Nat : n = desk[c].run /\ m = runsMade
  BY DeskAt, BoardAt
<1>1. n <= m /\ row.run = n /\ row.assignee = desk[c].assignee
  BY DeskAt DEF RowFits, GoesTo
<1> QED BY <1>1

\* A task that starts over has none of the runs that were read.
LEMMA FreshRun ==
  ASSUME DeskInv, NEW c \in Desks, NEW row, NEW pc, GoesTo(c, row, pc), NEW status, StartsOver(status)
  PROVE  OwesStop(row) => Past(row.assignee, row.run)'
<1> SUFFICES ASSUME OwesStop(row) PROVE Past(row.assignee, row.run)'
  OBVIOUS
<1> PICK n \in Nat : n = row.run
  BY ReadRun
<1> PICK a : a = row.assignee
  OBVIOUS
<1>1. n \in 1..runsMade
  BY ReadRun DEF OwesStop
<1>2. Past(a, n)'
  BY <1>1, StartsFresh
<1> QED BY <1>2 DEF Past

\* Nor has one that is somebody else's.
LEMMA OthersRun ==
  ASSUME DeskInv, NEW c \in Desks, NEW row, NEW pc, GoesTo(c, row, pc), NoChange,
         OwesStop(row) => board.assignee # desk[c].assignee
  PROVE  OwesStop(row) => Past(row.assignee, row.run)'
<1> SUFFICES ASSUME OwesStop(row) PROVE Past(row.assignee, row.run)'
  OBVIOUS
<1>1. row.run \in 1..runsMade /\ row.assignee # board.assignee
  BY ReadRun DEF OwesStop
<1> QED BY <1>1 DEF Past, NoChange

\* What the board shows after a transaction that leaves the task or starts it over.
LEMMA BoardAfter ==
  ASSUME DeskInv, UNCHANGED verdicts,
         NoChange \/ \E status \in Statuses : StartsOver(status) /\ (verdicts["accepted"] = 0 \/ status = "absent")
  PROVE  board' \in BoardRows /\ runsMade' \in Nat /\ runsMade <= runsMade' /\ PastStays /\ BoardStands'
<1>1. CASE NoChange
  <2>1. BoardStands'
    BY <1>1 DEF NoChange, DeskInv, BoardStands
  <2> QED BY <1>1, <2>1, BoardAt, TaskStays, StaysPast DEF NoChange
<1>2. ASSUME NEW status \in Statuses, StartsOver(status), verdicts["accepted"] = 0 \/ status = "absent"
      PROVE  board' \in BoardRows /\ runsMade' \in Nat /\ runsMade <= runsMade' /\ PastStays /\ BoardStands'
  <2>1. verdicts' \in [Judging -> Nat] /\ (verdicts'["accepted"] > 0 => status \in {"accepted", "absent"})
    BY <1>2, NoneAccepted DEF DeskInv, DeskTyped
  <2> QED BY <1>2, <2>1, StartsStand, StartsFresh DEF StartsOver
<1> QED BY <1>1, <1>2

\* Nothing of a task that is open, or not accepted, is finished by leaving or restarting it.
LEMMA OpenTask ==
  ASSUME DeskInv, IsOpen, UNCHANGED <<sibling, verdicts>>, NoChange \/ StartsOver("pending")
  PROVE  /\ ~Ready' /\ ~Finished' /\ verdicts["accepted"] = 0
         /\ board' \in BoardRows /\ runsMade' \in Nat /\ runsMade <= runsMade' /\ PastStays /\ BoardStands'
<1>1. board'.status \in {"pending", "in_progress", "awaiting_input"}
  BY DEF IsOpen, NoChange, StartsOver
<1>2. verdicts["accepted"] = 0 /\ "pending" \in Statuses
  BY NoneAccepted DEF IsOpen, Statuses
<1>3. ~Ready' /\ ~Finished'
  BY <1>1 DEF Ready, Finished
<1> QED BY <1>2, <1>3, BoardAfter

LEMMA UpdateKeeps == ASSUME DeskInv, NEW c \in Desks, NEW changes, UpdateAssigned(c, changes) PROVE DeskInv'
<1>1. /\ desk[c].pc = "commit" /\ desk[c].tool = "update" /\ OwesNothing(desk[c]) /\ FitsAfter(desk[c].tool, "stop")
      /\ UNCHANGED <<decisions, sibling, verdicts, ledger, announced, toldToStop, slips>>
  BY CommitsLeaves DEF UpdateAssigned, FitsAfter
<1>2. CASE ~IsOpen
  <2>1. Returns(c) /\ NoChange
    BY <1>2 DEF UpdateAssigned, Continues, NoChange
  <2> QED BY <1>1, <2>1, ReturnKeeps
<1>3. CASE IsOpen /\ ~changes
  <2>1. desk' = [desk EXCEPT ![c].pc = "stop", ![c].arg = "same"] /\ NoChange
    BY <1>3 DEF UpdateAssigned
  <2>2. "stop" \in DeskSteps /\ "same" \in Anyone \cup Kinds \cup {"same"}
    BY StepsNamed
  <2> PICK row \in DeskRows : GoesTo(c, row, "stop") /\ row.arg = "same"
    BY <2>1, <2>2, GoesOnWith
  <2>3. ~OwesStop(row)
    BY DEF OwesStop
  <2>4. /\ ~Ready' /\ ~Finished'
        /\ board' \in BoardRows /\ runsMade' \in Nat /\ runsMade <= runsMade' /\ PastStays /\ BoardStands'
    BY <1>1, <1>3, <2>1, OpenTask
  <2> QED BY <1>1, <2>3, <2>4, StopGoes
<1>4. CASE IsOpen /\ changes
  <2>1. Proceeds(c) /\ Revise
    BY <1>4 DEF UpdateAssigned, Continues
  <2> PICK row \in DeskRows : GoesTo(c, row, "stop")
    BY <1>1, <2>1, CommittedGoes
  <2>2. OwesStop(row) => Past(row.assignee, row.run)'
    <3>1. CASE NoChange /\ board.assignee \notin Robots
      <4>1. OwesStop(row) => board.assignee # desk[c].assignee
        BY <3>1, ReadRun DEF OwesStop
      <4> QED BY <3>1, <4>1, OthersRun
    <3>2. CASE StartsOver("pending")
      BY <3>2, FreshRun
    <3> QED BY <2>1, <3>1, <3>2, ReviseIs
  <2>3. /\ ~Ready' /\ ~Finished'
        /\ board' \in BoardRows /\ runsMade' \in Nat /\ runsMade <= runsMade' /\ PastStays /\ BoardStands'
    BY <1>1, <1>4, <2>1, ReviseIs, OpenTask
  <2> QED BY <1>1, <2>2, <2>3, StopGoes
<1> QED BY <1>2, <1>3, <1>4

LEMMA ReassignKeeps == ASSUME DeskInv, NEW c \in Desks, Reassign(c) PROVE DeskInv'
<1>1. /\ desk[c].pc = "commit" /\ desk[c].tool = "reassign" /\ OwesNothing(desk[c]) /\ FitsAfter(desk[c].tool, "close")
      /\ UNCHANGED <<decisions, sibling, verdicts, ledger, announced, toldToStop, slips>>
  BY CommitsLeaves DEF Reassign, FitsAfter
<1>2. CASE ~IsOpen
  <2>1. Returns(c) /\ NoChange
    BY <1>2 DEF Reassign, Continues
  <2> QED BY <1>1, <2>1, ReturnKeeps
<1>3. CASE IsOpen
  <2>1. Proceeds(c)
    BY <1>3 DEF Reassign, Continues
  <2> PICK row \in DeskRows : GoesTo(c, row, "close")
    BY <1>1, <2>1, CommittedGoes
  <2> PICK to : to = desk[c].arg
    OBVIOUS
  <2>2. to \in Anyone /\ to # desk[c].assignee
    BY <1>1, DeskAt DEF RowFits
  <2>3. CASE board.assignee = to
    <3>1. NoChange
      BY <2>3 DEF Reassign
    <3>2. OwesStop(row) => Past(row.assignee, row.run)'
      BY <2>2, <2>3, <3>1, OthersRun
    <3>3. /\ ~Ready' /\ ~Finished'
          /\ board' \in BoardRows /\ runsMade' \in Nat /\ runsMade <= runsMade' /\ PastStays /\ BoardStands'
      BY <1>1, <1>3, <3>1, OpenTask
    <3> QED BY <1>1, <3>2, <3>3, StopGoes
  <2>4. CASE board.assignee # to
    <3>1. StartsOver("pending")
      <4> PICK new : new = [board EXCEPT !.status = "pending", !.assignee = to]
        OBVIOUS
      <4>1. new \in BoardRows /\ new.status = "pending"
        BY <2>2, BoardAt DEF BoardRows, Statuses
      <4>2. Restarted(new)
        BY <1>3, <2>4 DEF Reassign
      <4>3. StartsOver(new.status)
        BY <4>1, <4>2, RestartStarts
      <4> QED BY <4>1, <4>3
    <3>2. OwesStop(row) => Past(row.assignee, row.run)'
      BY <3>1, FreshRun
    <3>3. /\ ~Ready' /\ ~Finished'
          /\ board' \in BoardRows /\ runsMade' \in Nat /\ runsMade <= runsMade' /\ PastStays /\ BoardStands'
      BY <1>1, <1>3, <3>1, OpenTask
    <3> QED BY <1>1, <3>2, <3>3, StopGoes
  <2> QED BY <2>3, <2>4
<1> QED BY <1>2, <1>3

LEMMA CancelKeeps == ASSUME DeskInv, NEW c \in Desks, CancelAssigned(c) PROVE DeskInv'
<1>1. /\ desk[c].pc = "commit" /\ desk[c].tool = "cancel" /\ OwesNothing(desk[c]) /\ FitsAfter(desk[c].tool, "stop")
      /\ UNCHANGED <<decisions, sibling, verdicts, ledger, announced, toldToStop, slips>>
  BY CommitsLeaves DEF CancelAssigned, FitsAfter
<1>2. CASE ~(IsOpen \/ board.status = "done")
  <2>1. Returns(c) /\ NoChange
    BY <1>2 DEF CancelAssigned, Continues, NoChange
  <2> QED BY <1>1, <2>1, ReturnKeeps
<1>3. CASE IsOpen \/ board.status = "done"
  <2>1. Proceeds(c) /\ RunsCancelled("cancelled") /\ "cancelled" \in Statuses
    BY <1>3 DEF CancelAssigned, Continues, Statuses
  <2> PICK row \in DeskRows : GoesTo(c, row, "stop")
    BY <1>1, <2>1, CommittedGoes
  <2>2. StartsOver("cancelled")
    BY <2>1, CancelStarts
  <2>3. OwesStop(row) => Past(row.assignee, row.run)'
    BY <2>2, FreshRun
  <2>4. verdicts["accepted"] = 0
    BY <1>3, NoneAccepted DEF IsOpen
  <2>5. board' \in BoardRows /\ runsMade' \in Nat /\ runsMade <= runsMade' /\ PastStays /\ BoardStands'
    BY <1>1, <2>1, <2>2, <2>4, BoardAfter
  <2>6. ~Ready'
    BY <2>2 DEF Ready, StartsOver
  <2> QED BY <1>1, <2>3, <2>5, <2>6, StopGoes
<1> QED BY <1>2, <1>3

LEMMA DeleteKeeps == ASSUME DeskInv, NEW c \in Desks, DeleteAssigned(c) PROVE DeskInv'
<1>1. /\ desk[c].pc = "commit" /\ desk[c].tool = "delete" /\ OwesNothing(desk[c]) /\ FitsAfter(desk[c].tool, "stop")
      /\ UNCHANGED <<decisions, sibling, verdicts, ledger, announced, toldToStop, slips>>
  BY CommitsLeaves DEF DeleteAssigned, FitsAfter
<1>2. StartsOver("absent") /\ "absent" \in Statuses
  BY CancelStarts DEF DeleteAssigned, Statuses
<1>3. CASE board.status = "absent"
  <2>1. Returns(c)
    BY <1>3 DEF DeleteAssigned, Continues
  <2> QED BY <1>1, <1>2, <2>1, ReturnKeeps
<1>4. CASE board.status # "absent"
  <2>1. Proceeds(c)
    BY <1>4 DEF DeleteAssigned, Continues
  <2> PICK row \in DeskRows : GoesTo(c, row, "stop")
    BY <1>1, <2>1, CommittedGoes
  <2>2. OwesStop(row) => Past(row.assignee, row.run)'
    BY <1>2, FreshRun
  <2>3. board' \in BoardRows /\ runsMade' \in Nat /\ runsMade <= runsMade' /\ PastStays /\ BoardStands'
    BY <1>1, <1>2, BoardAfter
  <2>4. ~Ready' /\ ~Finished'
    BY <1>2 DEF Ready, Finished, StartsOver
  <2> QED BY <1>1, <2>2, <2>3, <2>4, StopGoes
<1> QED BY <1>3, <1>4

LEMMA SiblingKeeps == ASSUME DeskInv, NEW c \in Desks, AcceptSibling(c) PROVE DeskInv'
<1>1. /\ desk[c].pc = "commit" /\ desk[c].tool = "sibling" /\ OwesNothing(desk[c]) /\ FitsAfter(desk[c].tool, "fire")
      /\ UNCHANGED <<board, decisions, runsMade, verdicts, ledger, announced, toldToStop, slips>>
      /\ sibling' = TRUE /\ Proceeds(c)
  BY CommitsLeaves DEF AcceptSibling, FitsAfter
<1> PICK row \in DeskRows : GoesTo(c, row, "fire")
  BY <1>1, CommittedGoes
<1>2. desk' = [desk EXCEPT ![c] = row] /\ row.pc = "fire" /\ row.tool = "sibling"
  BY <1>1 DEF GoesTo
<1>3. board' \in BoardRows /\ runsMade' \in Nat /\ runsMade <= runsMade' /\ PastStays /\ BoardStands'
  BY <1>1, BoardAfter DEF NoChange
<1>4. verdicts' \in [Judging -> Nat] /\ ledger' \in [Judging -> Nat] /\ slips \subseteq slips'
  BY <1>1 DEF DeskInv, DeskTyped
<1>5. DeskTyped' /\ \A d \in Desks : RowFits(desk[d])'
  BY <1>1, <1>2, <1>3, <1>4, CommittedFits, TypesKept DEF DeskInv, DeskTyped
<1>6. StopsStand'
  BY <1>1, <1>2, <1>3, StopsKept DEF OwesStop
<1>7. LedgerStands'
  <2>1. \A v \in Judging : VerdictKept(c, row, v)
    BY <1>1, <1>2 DEF VerdictKept, OwesVerdict
  <2> QED BY <1>2, <1>4, <2>1, LedgerKept
<1>8. NewsStands'
  BY <1>1, <1>2, NewsKept DEF OwesNews
<1>9. ClosingStands'
  <2>1. (Finished' <=> Finished) /\ (Open' <=> Open) /\ ~OwesClosing(desk[c])
    BY <1>1 DEF Finished, Open, OwesClosing
  <2> QED BY <1>1, <1>2, <2>1, ClosingKept
<1> QED BY <1>3, <1>5, <1>6, <1>7, <1>8, <1>9 DEF DeskInv

LEMMA CommitsCallKeeps == ASSUME DeskInv, NEW c \in Desks, CommitsCall(c) PROVE DeskInv'
BY SetMyStatusKeeps, SubmitResultKeeps, AcceptKeeps, RejectWorkKeeps, UpdateKeeps, AttachKeeps, ReassignKeeps, CancelKeeps,
   DeleteKeeps, ParticipantsKeeps, SiblingKeeps DEF CommitsCall

--------------------------------------------------------------------------------
(* Following up *)

\* A call takes the next of its follow-ups, or ends after the last.
FollowedUp(c, row) ==
  /\ desk' = [desk EXCEPT ![c] = row]
  /\ RowFits(row)
  /\ OwesStop(row) => OwesStop(desk[c]) /\ row.assignee = desk[c].assignee /\ row.run = desk[c].run
  /\ \A v \in Judging : OwesVerdict(row, v) <=> OwesVerdict(desk[c], v) /\ desk[c].pc # "outcome"
  /\ ~OwesNews(row)
  /\ OwesClosing(row) <=> OwesClosing(desk[c]) /\ desk[c].pc # "close"

LEMMA NextFollowUp ==
  ASSUME DeskInv, NEW c \in Desks, desk[c].pc \in {"fire", "outcome", "close", "stop"}, Proceeds(c)
  PROVE  \E row \in DeskRows : FollowedUp(c, row)
<1>1. RowFits(desk[c])
  BY DeskAt
<1>2. ASSUME NEW row \in DeskRows, NEW pc, GoesTo(c, row, pc), row.arg = desk[c].arg,
             \/ desk[c].pc = "fire" /\ desk[c].tool = "accept" /\ pc = "outcome"
             \/ desk[c].pc = "outcome" /\ pc = "close"
             \/ desk[c].pc = "close" /\ desk[c].tool = "reassign" /\ pc = "stop"
             \/ desk[c].pc = "stop" /\ desk[c].tool = "cancel" /\ pc = "close"
      PROVE  FollowedUp(c, row)
  <2>1. /\ desk' = [desk EXCEPT ![c] = row] /\ row.pc = pc /\ row.tool = desk[c].tool
        /\ row.assignee = desk[c].assignee /\ row.run = desk[c].run
    BY <1>2 DEF GoesTo
  <2>2. RowFits(row)
    BY <1>1, <1>2, <2>1 DEF RowFits
  <2>3. OwesStop(row) => OwesStop(desk[c])
    BY <1>1, <1>2, <2>1 DEF RowFits, OwesStop
  <2>4. \A v \in Judging : OwesVerdict(row, v) <=> OwesVerdict(desk[c], v) /\ desk[c].pc # "outcome"
    BY <1>1, <1>2, <2>1 DEF RowFits, OwesVerdict
  <2>5. ~OwesNews(row) /\ (OwesClosing(row) <=> OwesClosing(desk[c]) /\ desk[c].pc # "close")
    BY <1>1, <1>2, <2>1 DEF RowFits, OwesNews, OwesClosing
  <2> QED BY <2>1, <2>2, <2>3, <2>4, <2>5 DEF FollowedUp
<1>3. ASSUME \/ desk[c].pc = "fire" /\ desk[c].tool # "accept"
             \/ desk[c].pc = "close" /\ desk[c].tool # "reassign"
             \/ desk[c].pc = "stop" /\ desk[c].tool # "cancel"
      PROVE  FollowedUp(c, NoTool)
  <2>1. Following(c) = "over"
    BY <1>3, FollowingIs
  <2>2. desk' = [desk EXCEPT ![c] = NoTool]
    BY <2>1, ProceedsOver
  <2>3. RowFits(NoTool) /\ ~OwesStop(NoTool) /\ ~OwesNews(NoTool) /\ ~OwesClosing(NoTool)
        /\ \A v \in Judging : ~OwesVerdict(NoTool, v)
    BY BlankTool, BlankFits, BoardAt DEF OwesStop, OwesNews, OwesClosing, OwesVerdict
  <2>4. \A v \in Judging : ~OwesVerdict(desk[c], v)
    BY <1>1, <1>3 DEF RowFits, OwesVerdict
  <2>5. ~(OwesClosing(desk[c]) /\ desk[c].pc # "close")
    BY <1>1, <1>3 DEF RowFits, OwesClosing
  <2> QED BY <2>2, <2>3, <2>4, <2>5 DEF FollowedUp
<1>4. ASSUME NEW pc \in DeskSteps, Following(c) = pc, pc # "over",
             \/ desk[c].pc = "fire" /\ desk[c].tool = "accept" /\ pc = "outcome"
             \/ desk[c].pc = "outcome" /\ pc = "close"
             \/ desk[c].pc = "close" /\ desk[c].tool = "reassign" /\ pc = "stop"
             \/ desk[c].pc = "stop" /\ desk[c].tool = "cancel" /\ pc = "close"
      PROVE  \E row \in DeskRows : FollowedUp(c, row)
  <2> PICK row \in DeskRows : GoesTo(c, row, pc) /\ row.arg = desk[c].arg
    BY <1>4, ProceedsTo
  <2> QED BY <1>2, <1>4
<1>5. CASE desk[c].pc = "fire" /\ desk[c].tool = "accept"
  BY <1>4, <1>5, FollowingIs, StepsNamed
<1>6. CASE desk[c].pc = "outcome"
  BY <1>4, <1>6, FollowingIs, StepsNamed
<1>7. CASE desk[c].pc = "close" /\ desk[c].tool = "reassign"
  BY <1>4, <1>7, FollowingIs, StepsNamed
<1>8. CASE desk[c].pc = "stop" /\ desk[c].tool = "cancel"
  BY <1>4, <1>8, FollowingIs, StepsNamed
<1> QED BY <1>3, <1>5, <1>6, <1>7, <1>8, BlankTool

\* A follow-up does its part, or is lost.
LEMMA FollowKeeps ==
  ASSUME DeskInv, NEW c \in Desks, NEW row \in DeskRows, FollowedUp(c, row),
         UNCHANGED <<board, sibling, runsMade, verdicts>>, slips \subseteq slips',
         announced' \in BOOLEAN, announced => announced', announced' => sibling,
         decisions' \in [Owners -> [Kinds -> {"none", "open", "closed"}]], ledger' \in [Judging -> Nat],
         \A stop \in toldToStop' : stop \in toldToStop \/ Past(stop[1], stop[2]),
         \A v \in Judging : VerdictKept(c, row, v) \/ VerdictRecorded(c, row, v),
         desk[c].pc = "fire" => Lost' \/ announced' \/ ~Ready,
         Open' => Open, desk[c].pc = "close" => slips' # {} \/ ~Open' \/ ~OwesClosing(desk[c])
  PROVE  DeskInv'
<1>1. desk' = [desk EXCEPT ![c] = row] /\ RowFits(row) /\ ~OwesNews(row)
  BY DEF FollowedUp
<1>2. RowFits(row)' /\ (Ready' <=> Ready) /\ (Finished' <=> Finished)
  BY <1>1 DEF RowFits, Ready, Finished
<1>3. board' \in BoardRows /\ runsMade' \in Nat /\ runsMade <= runsMade' /\ PastStays /\ BoardStands'
  BY BoardAfter DEF NoChange
<1>4. verdicts' \in [Judging -> Nat] /\ sibling' \in BOOLEAN /\ (announced' => sibling')
  BY DEF DeskInv, DeskTyped
<1>5. DeskTyped' /\ \A d \in Desks : RowFits(desk[d])'
  BY <1>1, <1>2, <1>3, <1>4, TypesKept
<1>6. StopsStand'
  <2>1. \A stop \in toldToStop' : stop \in toldToStop \/ Past(stop[1], stop[2])'
    BY <1>3 DEF PastStays
  <2>2. OwesStop(row) => OwesStop(desk[c]) /\ row.assignee = desk[c].assignee /\ row.run = desk[c].run
    BY DEF FollowedUp
  <2> QED BY <1>1, <1>3, <2>1, <2>2, StopsKept
<1>7. LedgerStands'
  BY <1>1, <1>4, LedgerKept
<1>8. NewsStands'
  <2>1. OwesNews(desk[c]) => desk[c].pc = "fire"
    BY DEF OwesNews
  <2> QED BY <1>1, <1>2, <1>4, <2>1, NewsKept
<1>9. ClosingStands'
  <2>1. OwesClosing(row) <=> OwesClosing(desk[c]) /\ desk[c].pc # "close"
    BY DEF FollowedUp
  <2>2. slips' # {} \/ ~Finished' \/ ~Open' \/ OwesClosing(row) \/ (Finished /\ Open /\ ~OwesClosing(desk[c]))
    BY <1>2, <2>1
  <2> QED BY <1>1, <2>2, ClosingKept
<1> QED BY <1>3, <1>5, <1>6, <1>7, <1>8, <1>9 DEF DeskInv

\* What a verdict's owner and the others do in a step that records none.
LEMMA NoVerdict ==
  ASSUME NEW c \in Desks, NEW row, FollowedUp(c, row), desk[c].pc # "outcome", UNCHANGED <<verdicts, ledger>>
  PROVE  \A v \in Judging : VerdictKept(c, row, v)
BY DEF FollowedUp, VerdictKept

LEMMA FireKeeps == ASSUME DeskInv, NEW c \in Desks, FireReadyDependents(c) PROVE DeskInv'
<1>1. /\ desk[c].pc = "fire" /\ Proceeds(c) /\ announced' = (announced \/ FiresFor(c))
      /\ UNCHANGED <<board, sibling, runsMade, verdicts, decisions, ledger, toldToStop, slips>>
  BY DEF FireReadyDependents, Follows
<1> PICK row \in DeskRows : FollowedUp(c, row)
  BY <1>1, NextFollowUp
<1>2. /\ announced' \in BOOLEAN /\ (announced => announced') /\ (announced' => sibling) /\ (announced' \/ ~Ready)
  BY <1>1 DEF FiresFor, ReadyDependents, Ready, DeskInv, DeskTyped, NewsStands
<1>3. /\ decisions' \in [Owners -> [Kinds -> {"none", "open", "closed"}]] /\ ledger' \in [Judging -> Nat]
      /\ (Open' => Open) /\ slips \subseteq slips' /\ \A stop \in toldToStop' : stop \in toldToStop
  BY <1>1 DEF DeskInv, DeskTyped, Open
<1>4. \A v \in Judging : VerdictKept(c, row, v)
  BY <1>1, NoVerdict
<1> QED BY <1>1, <1>2, <1>3, <1>4, FollowKeeps

LEMMA OutcomeKeeps == ASSUME DeskInv, NEW c \in Desks, RecordTaskOutcome(c) PROVE DeskInv'
<1>1. /\ desk[c].pc = "outcome" /\ Proceeds(c)
      /\ UNCHANGED <<board, sibling, runsMade, verdicts, decisions, announced, toldToStop, slips>>
  BY DEF RecordTaskOutcome, Follows
<1> PICK row \in DeskRows : FollowedUp(c, row)
  BY <1>1, NextFollowUp
<1> PICK given \in Judging : given = VerdictOf(desk[c].tool)
  BY DEF VerdictOf, Judging
<1>2. desk[c].tool \in {"accept", "reject"}
  BY <1>1, DeskAt DEF RowFits
<1>3. ledger' = [ledger EXCEPT ![given] = ledger[given] + 1]
  BY DEF RecordTaskOutcome
<1>4. /\ ledger' \in [Judging -> Nat] /\ ledger'[given] = ledger[given] + 1
      /\ \A v \in Judging : v # given => ledger'[v] = ledger[v]
  BY <1>3 DEF DeskInv, DeskTyped
<1>5. \A v \in Judging : ~OwesVerdict(row, v) /\ (OwesVerdict(desk[c], v) <=> v = given)
  BY <1>1, <1>2 DEF FollowedUp, OwesVerdict
<1>6. \A v \in Judging : VerdictKept(c, row, v) \/ VerdictRecorded(c, row, v)
  BY <1>1, <1>4, <1>5 DEF VerdictKept, VerdictRecorded
<1>7. /\ decisions' \in [Owners -> [Kinds -> {"none", "open", "closed"}]] /\ (Open' => Open)
      /\ announced' \in BOOLEAN /\ (announced => announced') /\ (announced' => sibling)
      /\ slips \subseteq slips' /\ \A stop \in toldToStop' : stop \in toldToStop
  BY <1>1 DEF DeskInv, DeskTyped, NewsStands, Open
<1> QED BY <1>1, <1>4, <1>6, <1>7, FollowKeeps

LEMMA CloseKeeps == ASSUME DeskInv, NEW c \in Desks, CloseDecisions(c) PROVE DeskInv'
<1>1. /\ desk[c].pc = "close" /\ Proceeds(c)
      /\ UNCHANGED <<board, sibling, runsMade, verdicts, ledger, announced, toldToStop, slips>>
      /\ Manager \in Owners
  BY DEF CloseDecisions, Follows, Owners
<1> PICK row \in DeskRows : FollowedUp(c, row)
  BY <1>1, NextFollowUp
<1> PICK kinds : kinds = Closes(desk[c].tool)
  OBVIOUS
<1>2. decisions' = [decisions EXCEPT ![Manager] = ItemsClosed(decisions[Manager], kinds)]
  BY DEF CloseDecisions
<1>3. /\ decisions' \in [Owners -> [Kinds -> {"none", "open", "closed"}]]
      /\ Open' => Open
      /\ Kinds \subseteq kinds => ~Open'
  BY <1>1, <1>2, ItemsClosedAt
<1>4. ~Open' \/ ~OwesClosing(desk[c])
  <2>1. desk[c].tool = "reassign" \/ kinds = Kinds
    BY DEF Closes
  <2> QED BY <1>3, <2>1 DEF OwesClosing
<1>5. /\ announced' \in BOOLEAN /\ (announced => announced') /\ (announced' => sibling)
      /\ ledger' \in [Judging -> Nat] /\ slips \subseteq slips' /\ \A stop \in toldToStop' : stop \in toldToStop
  BY <1>1 DEF DeskInv, DeskTyped, NewsStands
<1>6. \A v \in Judging : VerdictKept(c, row, v)
  BY <1>1, NoVerdict
<1> QED BY <1>1, <1>3, <1>4, <1>5, <1>6, FollowKeeps

LEMMA StopKeeps == ASSUME DeskInv, NEW c \in Desks, StopWorker(c) PROVE DeskInv'
<1>1. /\ desk[c].pc = "stop" /\ Proceeds(c)
      /\ UNCHANGED <<board, sibling, runsMade, verdicts, decisions, ledger, announced, slips>>
  BY DEF StopWorker, Follows
<1> PICK row \in DeskRows : FollowedUp(c, row)
  BY <1>1, NextFollowUp
<1>2. \A stop \in toldToStop' : stop \in toldToStop \/ Past(stop[1], stop[2])
  <2> SUFFICES ASSUME NEW stop \in toldToStop', stop \notin toldToStop PROVE Past(stop[1], stop[2])
    OBVIOUS
  <2>1. TellsWorker(c) /\ desk[c].arg # "same" /\ stop = <<desk[c].assignee, desk[c].run>>
    BY DEF StopWorker, ToStop
  <2>2. OwesStop(desk[c])
    BY <1>1, <2>1, DeskAt DEF TellsWorker, ToStop, OwesStop, RowFits
  <2>3. Past(desk[c].assignee, desk[c].run)
    BY <2>2 DEF DeskInv, StopsStand
  <2> QED BY <2>1, <2>3
<1>3. /\ announced' \in BOOLEAN /\ (announced => announced') /\ (announced' => sibling)
      /\ decisions' \in [Owners -> [Kinds -> {"none", "open", "closed"}]] /\ (Open' => Open)
      /\ ledger' \in [Judging -> Nat] /\ slips \subseteq slips'
  BY <1>1 DEF DeskInv, DeskTyped, NewsStands, Open
<1>4. \A v \in Judging : VerdictKept(c, row, v)
  BY <1>1, NoVerdict
<1> QED BY <1>1, <1>2, <1>3, <1>4, FollowKeeps

\* A follow-up that is lost owes nothing more, and the slip is known.
LEMMA LostAt ==
  ASSUME slips' = slips \cup {"lost follow-up"}
  PROVE  Lost' /\ slips \subseteq slips' /\ slips' # {}
BY DEF Lost

LEMMA FollowUpFailsKeeps == ASSUME DeskInv, NEW c \in Desks, FollowUpFails(c) PROVE DeskInv'
<1>1. /\ desk[c].pc \in {"fire", "outcome", "close", "stop"} /\ Proceeds(c)
      /\ slips' = slips \cup {"lost follow-up"}
      /\ UNCHANGED <<board, sibling, runsMade, verdicts, decisions, ledger, announced, toldToStop>>
  BY DEF FollowUpFails
<1> PICK row \in DeskRows : FollowedUp(c, row)
  BY <1>1, NextFollowUp
<1>2. Lost' /\ slips \subseteq slips' /\ slips' # {}
  BY <1>1, LostAt
<1>3. \A v \in Judging : VerdictKept(c, row, v) \/ VerdictRecorded(c, row, v)
  BY <1>1, <1>2 DEF FollowedUp, VerdictKept, VerdictRecorded
<1>4. /\ announced' \in BOOLEAN /\ (announced => announced') /\ (announced' => sibling)
      /\ decisions' \in [Owners -> [Kinds -> {"none", "open", "closed"}]] /\ (Open' => Open)
      /\ ledger' \in [Judging -> Nat] /\ \A stop \in toldToStop' : stop \in toldToStop
  BY <1>1 DEF DeskInv, DeskTyped, NewsStands, Open
<1> QED BY <1>1, <1>2, <1>3, <1>4, FollowKeeps

LEMMA DiesKeeps == ASSUME DeskInv, NEW c \in Desks, DeskCallDies(c) PROVE DeskInv'
<1>1. /\ desk' = [desk EXCEPT ![c] = NoTool] /\ NoTool \in DeskRows
      /\ UNCHANGED <<board, sibling, runsMade, verdicts, decisions, ledger, announced, toldToStop>>
      /\ RowFits(NoTool)
  BY CallEnds, BlankTool, BlankFits, BoardAt DEF DeskCallDies
<1>2. CASE OwesNothing(desk[c])
  <2>1. slips' = slips
    BY <1>2 DEF DeskCallDies, OwesNothing
  <2>2. OwesNothing(NoTool)
    BY BlankTool DEF OwesNothing
  <2> QED BY <1>1, <1>2, <2>1, <2>2, OnlyTheCall DEF ledgers
<1>3. CASE ~OwesNothing(desk[c])
  <2>1. slips' = slips \cup {"lost follow-up"}
    BY <1>3 DEF DeskCallDies, OwesNothing
  <2>2. Lost' /\ slips \subseteq slips' /\ slips' # {}
    BY <2>1, LostAt
  <2>3. RowFits(NoTool)' /\ \A v \in Judging : ~OwesVerdict(NoTool, v)
    BY <1>1, BlankTool DEF RowFits, OwesVerdict
  <2>4. board' \in BoardRows /\ runsMade' \in Nat /\ runsMade <= runsMade' /\ PastStays /\ BoardStands'
    BY <1>1, BoardAfter DEF NoChange
  <2>5. /\ verdicts' \in [Judging -> Nat] /\ ledger' \in [Judging -> Nat] /\ (announced' => sibling')
        /\ sibling' \in BOOLEAN /\ announced' \in BOOLEAN /\ decisions' \in [Owners -> [Kinds -> {"none", "open", "closed"}]]
    BY <1>1 DEF DeskInv, DeskTyped, NewsStands
  <2>6. DeskTyped' /\ \A d \in Desks : RowFits(desk[d])'
    BY <1>1, <2>3, <2>4, <2>5, TypesKept
  <2>7. StopsStand'
    BY <1>1, <2>4, BlankTool, StopsKept DEF OwesStop
  <2>8. LedgerStands'
    <3>1. \A v \in Judging : VerdictKept(c, NoTool, v) \/ VerdictRecorded(c, NoTool, v)
      BY <1>1, <2>2, <2>3 DEF VerdictKept, VerdictRecorded
    <3> QED BY <1>1, <2>2, <2>5, <3>1, LedgerKept
  <2>9. NewsStands' /\ ClosingStands'
    BY <1>1, <2>2, <2>5, NewsKept, ClosingKept
  <2> QED BY <2>4, <2>6, <2>7, <2>8, <2>9 DEF DeskInv
<1> QED BY <1>2, <1>3

--------------------------------------------------------------------------------
(* The worker, and the theorem *)

\* The worker moves the task nobody has accepted.
LEMMA WorkerMoves ==
  ASSUME DeskInv, Stays, UNCHANGED <<sibling, decisions, desk, ledgers>>,
         board.status \notin {"accepted", "absent"}, board'.status \notin {"accepted", "cancelled"},
         board'.claimed => board'.status = "in_progress"
  PROVE  DeskInv'
<1>1. verdicts' = verdicts /\ ledger' = ledger /\ announced' = announced /\ toldToStop' = toldToStop /\ slips' = slips
  BY DEF ledgers
<1>2. verdicts["accepted"] = 0 /\ runsMade' = runsMade /\ board' \in BoardRows /\ runsMade \in Nat
  BY NoneAccepted, BoardAt DEF Stays
<1>3. DeskTyped' /\ \A d \in Desks : RowFits(desk[d])'
  <2>1. \A d \in Desks : RowFits(desk[d])'
    BY <1>2 DEF DeskInv, RowFits
  <2> QED BY <1>1, <1>2, <2>1 DEF DeskInv, DeskTyped
<1>4. BoardStands'
  BY <1>1, <1>2, StaysStand
<1>5. StopsStand'
  <2>1. PastStays
    BY StaysPast
  <2> QED BY <1>1, <2>1 DEF DeskInv, StopsStand, PastStays, OwesStop, Past
<1>6. LedgerStands'
  <2>1. (Lost' <=> Lost) /\ \A v \in Judging : Owing(v)' = Owing(v)
    BY <1>1 DEF Lost, Owing, OwesVerdict
  <2> QED BY <1>1, <2>1 DEF DeskInv, LedgerStands
<1>7. NewsStands' /\ ClosingStands'
  <2>1. ~Ready' /\ ~Finished'
    BY <1>1, <1>2 DEF Ready, Finished
  <2> QED BY <1>1, <2>1 DEF DeskInv, NewsStands, ClosingStands
<1> QED BY <1>3, <1>4, <1>5, <1>6, <1>7 DEF DeskInv

LEMMA WorkerStartsKeeps == ASSUME DeskInv, WorkerStarts PROVE DeskInv'
<1>1. /\ UNCHANGED <<sibling, decisions, desk, ledgers, runsMade>> /\ board.status \in {"pending", "in_progress"}
      /\ board' = [board EXCEPT !.status = "in_progress", !.claimed = TRUE]
  BY DEF WorkerStarts
<1>2. /\ board' \in BoardRows /\ board'.status = "in_progress" /\ board'.assignee = board.assignee
      /\ board'.run = board.run
  BY <1>1, BoardAt DEF BoardRows, Statuses
<1> QED BY <1>1, <1>2, WorkerMoves DEF Stays

LEMMA WorkerEndsKeeps == ASSUME DeskInv, NEW status, WorkerEnds(status) PROVE DeskInv'
<1> PICK run \in Nat : run = IF status = "done" THEN 0 ELSE board.run
  BY BoardAt
<1>1. /\ UNCHANGED <<sibling, decisions, desk, ledgers, runsMade>> /\ board.claimed
      /\ status \in {"done", "awaiting_input"}
      /\ board' = [board EXCEPT !.status = status, !.claimed = FALSE, !.run = run]
  BY DEF WorkerEnds
<1>2. status \in Statuses /\ board.status = "in_progress"
  BY <1>1, NoneAccepted DEF Statuses
<1>3. /\ board' \in BoardRows /\ board'.status = status /\ board'.assignee = board.assignee
      /\ board'.run = run /\ ~board'.claimed
  BY <1>1, <1>2, BoardAt DEF BoardRows
<1> QED BY <1>1, <1>2, <1>3, WorkerMoves DEF Stays

LEMMA DeskStep == DeskInv /\ [DeskNext]_deskVars => DeskInv'
<1> SUFFICES ASSUME DeskInv, [DeskNext]_deskVars PROVE DeskInv'
  OBVIOUS
<1>1. CASE \E c \in Desks :
             \/ StartsCall(c)
             \/ CheckAccess(c)
             \/ CommitsCall(c)
             \/ FireReadyDependents(c)
             \/ RecordTaskOutcome(c)
             \/ CloseDecisions(c)
             \/ StopWorker(c)
             \/ ListItems(c)
             \/ UpsertDecisionItem(c)
             \/ closeDanglingTaskDecisionItems(c)
             \/ FollowUpFails(c)
             \/ DeskCallDies(c)
  BY <1>1, StartsCallKeeps, CheckAccessKeeps, CommitsCallKeeps, FireKeeps, OutcomeKeeps, CloseKeeps, StopKeeps,
     ListItemsKeeps, UpsertKeeps, DanglingKeeps, FollowUpFailsKeeps, DiesKeeps
<1>2. CASE WorkerStarts
  BY <1>2, WorkerStartsKeeps
<1>3. CASE \E status \in {"done", "awaiting_input"} : WorkerEnds(status)
  BY <1>3, WorkerEndsKeeps
<1>4. CASE UNCHANGED deskVars
  <2>1. UNCHANGED <<board, sibling, decisions, desk, runsMade, verdicts, ledger, announced, toldToStop, slips>>
    BY <1>4 DEF deskVars
  <2>2. DeskTyped' /\ (\A d \in Desks : RowFits(desk[d])') /\ BoardStands'
    BY <2>1 DEF DeskInv, DeskTyped, RowFits, BoardStands
  <2>3. StopsStand' /\ NewsStands' /\ ClosingStands'
    BY <2>1 DEF DeskInv, StopsStand, NewsStands, ClosingStands, Past, OwesStop, OwesNews, OwesClosing, Lost, Ready,
                Open, Finished
  <2>4. LedgerStands'
    BY <2>1 DEF DeskInv, LedgerStands, Lost, Owing, OwesVerdict
  <2> QED BY <2>2, <2>3, <2>4 DEF DeskInv
<1> QED BY <1>1, <1>2, <1>3, <1>4 DEF DeskNext

LEMMA DeskInitial == DeskInit => DeskInv
<1> SUFFICES ASSUME DeskInit PROVE DeskInv
  OBVIOUS
<1>1. \A c \in Desks : desk[c] = NoTool
  BY DEF DeskInit
<1> PICK status \in {"pending", "done"}, u \in People \cup Robots, run \in {0, 1} :
      board = [status |-> status, assignee |-> u, claimed |-> FALSE, run |-> run]
  BY DEF DeskInit
<1>2. board \in BoardRows /\ board.run \in {0, 1} /\ ~board.claimed /\ board.status \in {"pending", "done"}
  BY DEF BoardRows, Statuses, Anyone, Owners
<1>3. /\ runsMade = 1 /\ slips = {} /\ toldToStop = {} /\ sibling = FALSE /\ announced = FALSE
      /\ \A v \in Judging : verdicts[v] = 0 /\ ledger[v] = 0
      /\ verdicts \in [Judging -> Nat] /\ ledger \in [Judging -> Nat]
      /\ decisions \in [Owners -> [Kinds -> {"none", "open", "closed"}]]
  BY DEF DeskInit
<1>4. DeskTyped
  <2>1. desk \in [Desks -> DeskRows]
    BY BlankTool DEF DeskInit
  <2> QED BY <1>2, <1>3, <2>1 DEF DeskTyped
<1>5. (\A c \in Desks : RowFits(desk[c])) /\ BoardStands
  BY <1>1, <1>2, <1>3, BlankFits DEF BoardStands, Judging
<1>6. StopsStand /\ NewsStands /\ ClosingStands
  BY <1>1, <1>2, <1>3, BlankTool DEF StopsStand, OwesStop, NewsStands, Ready, ClosingStands, Finished
<1>7. LedgerStands
  <2> SUFFICES ASSUME NEW v \in Judging PROVE ledger[v] + Cardinality(Owing(v)) = verdicts[v]
    BY <1>3 DEF LedgerStands
  <2>1. Owing(v) = {}
    BY <1>1, BlankTool DEF Owing, OwesVerdict
  <2> QED BY <1>3, <2>1, FS_EmptySet
<1> QED BY <1>4, <1>5, <1>6, <1>7 DEF DeskInv

LEMMA DeskShows == DeskInv => DeskIsTrue
<1> SUFFICES ASSUME DeskInv PROVE DeskIsTrue
  OBVIOUS
<1>1. StopsAreDue
  BY DEF DeskInv, StopsStand, StopsAreDue, Past
<1>2. AtRest => \A c \in Desks : desk[c].pc = "idle"
  BY BlankTool DEF AtRest
<1>3. LedgerIsTrue
  <2> SUFFICES ASSUME NEW v \in Judging
               PROVE  /\ ledger[v] <= verdicts[v]
                      /\ AtRest /\ "lost follow-up" \notin slips => ledger[v] = verdicts[v]
    BY DEF LedgerIsTrue
  <2> PICK n \in Nat, l \in Nat, g \in Nat : n = Cardinality(Owing(v)) /\ l = ledger[v] /\ g = verdicts[v]
    BY OwingFinite DEF DeskInv, DeskTyped
  <2>0. l + n <= g
    BY DEF DeskInv, LedgerStands
  <2>1. "lost follow-up" \notin slips => l + n = g
    BY DEF DeskInv, LedgerStands, Lost
  <2>2. AtRest => n = 0
    <3>1. AtRest => Owing(v) = {}
      BY <1>2 DEF Owing, OwesVerdict
    <3> QED BY <3>1, FS_EmptySet
  <2>3. l <= g
    BY <2>0
  <2>4. ASSUME AtRest, "lost follow-up" \notin slips PROVE l = g
    <3>1. n = 0 /\ l + n = g
      BY <2>1, <2>2, <2>4
    <3> QED BY <3>1
  <2> QED BY <2>3, <2>4
<1>4. DependentIsAnnounced
  BY <1>2 DEF DeskInv, NewsStands, DependentIsAnnounced, Lost, Ready, OwesNews
<1>5. FinishedLeavesNoDecision
  BY <1>2 DEF DeskInv, ClosingStands, FinishedLeavesNoDecision, Open, OwesClosing
<1> QED BY <1>1, <1>3, <1>4, <1>5 DEF DeskIsTrue

(* The desk is true for any number of people, workers, calls and runs: no worker  *)
(* is told to stop a run it still has in hand, the ledger has every verdict, a   *)
(* dependent is announced by the call that sees both, and a finished task leaves   *)
(* no decision item open (src/tools/tasks.go).                                     *)
THEOREM DeskTrue == DeskSpec => []DeskIsTrue
BY DeskInitial, DeskStep, DeskShows, PTL DEF DeskSpec
================================================================================
