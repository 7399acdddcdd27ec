------------------------------- MODULE Campaigns -------------------------------
(***************************************************************************)
(* One data collection campaign of nbco: a manager asks members for fields *)
(* of their profile, reminds those who lack some, looks at the progress    *)
(* and closes it, while the members fill the fields in.  The state of each *)
(* target is copied from the profiles by refreshes, which read all of them *)
(* first and write one target after the other, under no lock.              *)
(*                                                                         *)
(* Who may send to whom is a choice.  Titles, instructions and times are   *)
(* left out.                                                               *)
(***************************************************************************)
EXTENDS Integers, FiniteSets

CONSTANTS
  Members,          \* the people asked
  Required,         \* required_fields
  Askers,           \* calls under way at a time
  MaxCampaignCalls  \* a bound on the calls made

VARIABLES
  info,      \* users.info: the fields filled in
  campaign,  \* data_collection_campaigns.status
  targetRow, \* data_collection_campaign_targets
  calling,   \* the calls under way
  called,    \* how many were made
  delivered, \* members a message of the campaign reached
  excused    \* members whose row a call left behind or wrote late

campaignVars == <<info, campaign, targetRow, calling, called, delivered, excused>>

NoTarget == [is |-> FALSE, status |-> "pending", missing |-> {}, notified |-> FALSE]
NoCall   == [pc |-> "idle", kind |-> "none", member |-> "none", read |-> [m \in Members |-> {}],
             left |-> {}, sent |-> {}]

CampaignInit ==
  /\ info \in {[m \in Members |-> Required], [m \in Members |-> {}]}
  /\ campaign = "none"
  /\ targetRow = [m \in Members |-> NoTarget]
  /\ calling = [c \in Askers |-> NoCall]
  /\ called = 0
  /\ delivered = {} /\ excused = {}

Targets == {m \in Members : targetRow[m].is}

missingRequiredFields(filled) == Required \ filled

StatusOf(filled) == IF missingRequiredFields(filled) = {} THEN "completed" ELSE "pending"

Starts(c, kind, member, pc) ==
  /\ calling[c] = NoCall /\ called < MaxCampaignCalls
  /\ called' = called + 1
  /\ calling' = [calling EXCEPT ![c] = [NoCall EXCEPT !.pc = pc, !.kind = kind, !.member = member]]

StepsTo(c, pc) == calling' = [calling EXCEPT ![c].pc = pc]

CallOver(c) == calling' = [calling EXCEPT ![c] = NoCall]

--------------------------------------------------------------------------------
(* Profiles *)

\* UpdateUserInfo: the fields are merged in one statement, the campaigns follow.
UpdateUserInfo(c, m, filled) ==
  /\ filled # info[m]
  /\ Starts(c, "fill", m, "affected")
  /\ info' = [info EXCEPT ![m] = filled]
  /\ UNCHANGED <<campaign, targetRow, delivered, excused>>

\* Mistake: the member's campaigns are not looked for.
RefreshesNone(m) == FALSE

Refreshes(m) == m \in Targets /\ campaign = "active"

RefreshDataCollectionCampaignsForUser(c) ==
  /\ calling[c].pc = "affected"
  /\ IF Refreshes(calling[c].member) THEN StepsTo(c, "read") ELSE CallOver(c)
  /\ UNCHANGED <<info, campaign, targetRow, called, delivered, excused>>

--------------------------------------------------------------------------------
(* RefreshDataCollectionCampaign *)

ReadInfos(c) ==
  /\ calling[c].pc = "read"
  /\ calling' = [calling EXCEPT ![c].pc = "write", ![c].read = info, ![c].left = Targets]
  /\ UNCHANGED <<info, campaign, targetRow, called, delivered, excused>>

\* What is written may have been overtaken by a change of the profile.
WriteTarget(c, m) ==
  /\ calling[c].pc = "write" /\ m \in calling[c].left
  /\ targetRow' = [targetRow EXCEPT ![m].status  = StatusOf(calling[c].read[m]),
                              ![m].missing = missingRequiredFields(calling[c].read[m])]
  /\ calling' = [calling EXCEPT ![c].left = @ \ {m}]
  /\ excused' = IF calling[c].read[m] = info[m] THEN excused \ {m} ELSE excused \cup {m}
  /\ UNCHANGED <<info, campaign, called, delivered>>

AfterRefresh(kind) ==
  CASE kind = "create" -> "list"
    [] kind = "remind" -> "check"
    [] OTHER -> "over"

Refreshed(c) ==
  /\ calling[c].pc = "write" /\ calling[c].left = {}
  /\ IF AfterRefresh(calling[c].kind) = "over"
     THEN CallOver(c)
     ELSE calling' = [calling EXCEPT ![c].pc = AfterRefresh(calling[c].kind),
                                     ![c].read = NoCall.read]
  /\ UNCHANGED <<info, campaign, targetRow, called, delivered, excused>>

--------------------------------------------------------------------------------
(* The tools *)

\* create_data_collection_campaign; the members are written with the campaign.
CreateDataCollectionCampaign(c, members) ==
  /\ campaign = "none" /\ members # {}
  /\ Starts(c, "create", "none", "read")
  /\ campaign' = "active"
  /\ targetRow' = [m \in Members |-> [NoTarget EXCEPT !.is = m \in members]]
  /\ UNCHANGED <<info, delivered, excused>>

\* get_data_collection_campaign and send_data_collection_reminder refresh first.
AskCampaign(c, kind) ==
  /\ campaign # "none" /\ kind \in {"get", "remind"}
  /\ Starts(c, kind, "none", "read")
  /\ UNCHANGED <<info, campaign, targetRow, delivered, excused>>

\* close_data_collection_campaign, whatever the status was.
SetDataCollectionCampaignStatus(status) ==
  /\ campaign # "none"
  /\ campaign' = status
  /\ UNCHANGED <<info, targetRow, calling, called, delivered, excused>>

CheckActive(c) ==
  /\ calling[c].pc = "check"
  /\ IF campaign = "active" THEN StepsTo(c, "list") ELSE CallOver(c)
  /\ UNCHANGED <<info, campaign, targetRow, called, delivered, excused>>

Pending == {m \in Targets : targetRow[m].status # "completed"}

\* A member the caller may not write to refuses the whole reminder, and a campaign
\* may be created without a message.
ListPending(c, refused) ==
  /\ calling[c].pc = "list"
  /\ IF refused \/ Pending = {}
     THEN CallOver(c)
     ELSE calling' = [calling EXCEPT ![c].pc = "notify", ![c].left = Pending]
  /\ UNCHANGED <<info, campaign, targetRow, called, delivered, excused>>

\* notifyDataCampaignTargets
NotifyTarget(c, m, reached) ==
  /\ calling[c].pc = "notify" /\ m \in calling[c].left
  /\ calling' = [calling EXCEPT ![c].left = @ \ {m},
                                ![c].sent = IF reached THEN @ \cup {m} ELSE @]
  /\ delivered' = IF reached THEN delivered \cup {m} ELSE delivered
  /\ UNCHANGED <<info, campaign, targetRow, called, excused>>

\* Mistake: everyone who was pending is marked.
MarkPending(c) == Pending

ToMark(c) == calling[c].sent

MarkDataCollectionCampaignTargetsNotified(c) ==
  /\ calling[c].pc = "notify" /\ calling[c].left = {}
  /\ targetRow' = [m \in Members |->
                  [targetRow[m] EXCEPT !.notified = @ \/ m \in ToMark(c)]]
  /\ CallOver(c)
  /\ UNCHANGED <<info, campaign, called, delivered, excused>>

--------------------------------------------------------------------------------

\* Rows a call has yet to write when it stops, or would have written.
Abandons(c) ==
  CASE calling[c].pc = "affected" -> {calling[c].member}
    [] calling[c].pc = "read"     -> Members
    [] calling[c].pc = "write"    -> calling[c].left
    [] OTHER                      -> {}

\* An error of the database, or the process stops.
CallDies(c) ==
  /\ calling[c] # NoCall
  /\ excused' = excused \cup Abandons(c)
  /\ CallOver(c)
  /\ UNCHANGED <<info, campaign, targetRow, called, delivered>>

CampaignNext ==
  \/ \E c \in Askers, m \in Members :
       \/ \E filled \in SUBSET Required : UpdateUserInfo(c, m, filled)
       \/ WriteTarget(c, m)
       \/ \E reached \in BOOLEAN : NotifyTarget(c, m, reached)
  \/ \E c \in Askers :
       \/ RefreshDataCollectionCampaignsForUser(c)
       \/ ReadInfos(c)
       \/ Refreshed(c)
       \/ \E members \in SUBSET Members : CreateDataCollectionCampaign(c, members)
       \/ \E kind \in {"get", "remind"} : AskCampaign(c, kind)
       \/ CheckActive(c)
       \/ \E refused \in BOOLEAN : ListPending(c, refused)
       \/ MarkDataCollectionCampaignTargetsNotified(c)
       \/ CallDies(c)
  \/ \E status \in {"closed", "cancelled"} : SetDataCollectionCampaignStatus(status)

CampaignSpec == CampaignInit /\ [][CampaignNext]_campaignVars

--------------------------------------------------------------------------------
(* While no call is under way, the progress of an active campaign is that of the  *)
(* profiles, except where a call stopped halfway or a refresh wrote what it had     *)
(* read before a later change.                                                      *)
ProgressIsTrue ==
  campaign = "active" /\ (\A c \in Askers : calling[c] = NoCall) =>
    \A m \in Targets \ excused :
      /\ targetRow[m].status = StatusOf(info[m])
      /\ targetRow[m].missing = missingRequiredFields(info[m])

(* A member counts as notified only when a message has reached it, although the     *)
(* mark is set for all of them after the last was sent, and members fill in their    *)
(* profiles and campaigns close meanwhile.                                           *)
NotifiedWereReached == \A m \in Members : targetRow[m].notified => m \in delivered

(* A campaign shows what the members filled in and whom it reached. *)
CampaignIsHonest == ProgressIsTrue /\ NotifiedWereReached
================================================================================
