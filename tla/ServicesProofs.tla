---------------------------- MODULE ServicesProofs ----------------------------
(***************************************************************************)
(* Proofs about the services beside the task board: the event bus, the     *)
(* membership an outbox carries, schedules and the rows they leave,        *)
(* automation runs, the reminders of a deadline, and the Telegram inbox.   *)
(* Each component is proved on its own, in the order given: the types of   *)
(* its rows and copies, the invariant that makes its property inductive,   *)
(* one lemma per operation, and the theorem.  The theorems hold for every  *)
(* number of handlers, couriers, firers, runners and updates, and for      *)
(* every bound of the model.                                               *)
(***************************************************************************)
EXTENDS EventBus, DomainOutbox, Schedules, ScheduleDeliveries, AutomationRuns, Reminders,
        TelegramInbox, FiniteSetTheorems, WellFoundedInduction, TLAPS

--------------------------------------------------------------------------------
(* The event bus *)

EventModes    == {"", "generating", "handled", "fallback", "skipped"}
EventReplies  == {"", "text", "fact"}
HandlerSteps    == {"free", "start", "begin", "decide", "skip", "prepare", "send", "transmit",
             "markSent", "markFailed", "settle", "settleUnsent", "drop", "retry"}
Speaking == {"prepare", "send", "transmit", "markSent", "markFailed", "settle", "settleUnsent"}

EventRows == [fact : Facts \cup {"none"}, required : BOOLEAN, recent : BOOLEAN,
       status : {"absent", "pending", "processing", "done", "failed"},
       attempts : 0 .. MaxEventAttempts,
       outcome : {"", "handled", "skipped", "fallback", "dropped", "send_failed"},
       mode : EventModes, reply : EventReplies,
       claim : Nat, claims : Nat, ready : BOOLEAN, stale : BOOLEAN]
Receipts == {"none", "started", "delivered", "failed"}

Slots == [pc : HandlerSteps, event : EventIds \cup {0}, claim : Nat, attempts : Nat,
          required : BOOLEAN, mode : EventModes, reply : EventReplies]

Tallies ==
  /\ event \in [EventIds -> EventRows]
  /\ receipt \in [EventIds -> Receipts]
  /\ handler \in [Handlers -> Slots]
  /\ begun \in [EventIds -> Nat]
  /\ sends \in [EventIds -> Nat]
  /\ told \in [EventIds -> BOOLEAN]

RowSound(e) ==
  /\ event[e].status = "absent" => event[e].claims = 0 /\ begun[e] = 0
  /\ event[e].mode = "skipped" => event[e].status = "done"
  /\ event[e].reply = "" <=> event[e].mode \in {"", "generating"}
  /\ begun[e] \in {0, 1}
  /\ event[e].mode = "" => begun[e] = 0
  /\ sends[e] \in {0, 1}
  /\ receipt[e] = "none" => sends[e] = 0

RowClaim(e) == event[e].claim <= event[e].claims

RowTrue(e) ==
  /\ receipt[e] = "delivered" => told[e]
  /\ WasDelivered(e) => told[e]
  /\ event[e].required /\ event[e].status = "done" => event[e].outcome # "skipped"

SlotSound(h) ==
  LET e == handler[h].event IN
  handler[h].pc # "free" =>
    /\ handler[h].mode # "skipped"
    /\ handler[h].reply = "" <=> handler[h].mode \in {"", "generating"}
    /\ handler[h].pc \in Speaking => handler[h].mode \in {"handled", "fallback"}
    /\ handler[h].pc \in {"start", "begin"} /\ StillClaimed(h)
         => event[e].mode = handler[h].mode /\ event[e].reply = handler[h].reply
    /\ handler[h].pc = "begin" => handler[h].mode = ""
    /\ handler[h].pc = "transmit" => receipt[e] # "none" /\ sends[e] = 0

SlotClaim(h) ==
  handler[h].pc # "free" =>
    /\ handler[h].event \in EventIds
    /\ handler[h].claim >= 1
    /\ handler[h].claim <= event[handler[h].event].claims

SlotTrue(h) == handler[h].pc \in {"markSent", "settle"} => told[handler[h].event]

Apart(g, h) ==
  (g # h /\ handler[g].pc # "free" /\ handler[h].pc # "free" /\ handler[g].event = handler[h].event)
    => /\ handler[g].claim # handler[h].claim
       /\ ~(handler[g].pc = "transmit" /\ handler[h].pc = "transmit")

BusInv ==
  /\ Tallies
  /\ \A e \in EventIds : RowSound(e) /\ RowClaim(e) /\ RowTrue(e)
  /\ \A h \in Handlers : SlotSound(h) /\ SlotClaim(h) /\ SlotTrue(h)
  /\ \A g, h \in Handlers : Apart(g, h)



LEMMA RowFields ==
  ASSUME NEW r \in EventRows
  PROVE  /\ r.claim \in Nat /\ r.claims \in Nat /\ r.required \in BOOLEAN
         /\ r.attempts \in 0 .. MaxEventAttempts
         /\ r.mode \in EventModes /\ r.reply \in EventReplies
         /\ r.status \in {"absent", "pending", "processing", "done", "failed"}
  BY DEF EventRows

LEMMA SlotFields ==
  ASSUME NEW t \in Slots
  PROVE  t.claim \in Nat /\ t.mode \in EventModes /\ t.reply \in EventReplies /\ t.pc \in HandlerSteps
  BY DEF Slots

LEMMA BlankIsRow == BlankEvent \in EventRows
<1>1. 0 \in 0 .. MaxEventAttempts
  BY EventBusAssumption
<1> QED
  BY <1>1 DEF EventRows, BlankEvent, EventModes, EventReplies

LEMMA BusInitSound == BusInit => BusInv
<1> SUFFICES ASSUME BusInit PROVE BusInv
  OBVIOUS
<1>1. Tallies
  BY BlankIsRow DEF BusInit, Tallies, FreeSlot, EventModes, EventReplies, HandlerSteps, Receipts, Slots
<1>3. ASSUME NEW e \in EventIds PROVE RowSound(e) /\ RowClaim(e) /\ RowTrue(e)
  <2>1. /\ event[e].claims = 0 /\ event[e].claim = 0 /\ event[e].status = "absent"
        /\ event[e].mode = "" /\ event[e].reply = ""
        /\ begun[e] = 0 /\ sends[e] = 0 /\ receipt[e] = "none"
    BY DEF BusInit, BlankEvent
  <2>2. RowSound(e)
    BY <2>1 DEF RowSound
  <2>3. RowTrue(e)
    BY <2>1 DEF RowTrue, WasDelivered
  <2>4. event[e].claim = 0 /\ event[e].claims = 0
    BY <2>1
  <2>5. RowClaim(e)
    BY <2>4 DEF RowClaim
  <2> QED
    BY <2>2, <2>3, <2>5
<1>4. (\A h \in Handlers : SlotSound(h) /\ SlotClaim(h) /\ SlotTrue(h)) /\ (\A g, h \in Handlers : Apart(g, h))
  BY DEF BusInit, SlotSound, SlotClaim, SlotTrue, Apart, FreeSlot
<1> QED BY <1>1, <1>3, <1>4 DEF BusInv

\* A step that changes one row and no slot disturbs no slot, if the claim it
\* leaves in the row is the one it found there or none.
LEMMA OnlyARow ==
  ASSUME BusInv, NEW e \in EventIds, Tallies', RowSound(e)', RowTrue(e)', RowClaim(e)',
         UNCHANGED <<receipt, handler, sends, told>>,
         \A d \in EventIds : d # e => event'[d] = event[d] /\ begun'[d] = begun[d],
         event'[e].claims = event[e].claims,
         event'[e].claim # 0 => /\ event'[e].claim = event[e].claim
                                /\ event'[e].mode = event[e].mode
                                /\ event'[e].reply = event[e].reply
                                /\ event'[e].status = "processing" => event[e].status = "processing"
  PROVE  BusInv'
<1>1. ASSUME NEW d \in EventIds PROVE RowSound(d)' /\ RowClaim(d)' /\ RowTrue(d)'
  <2>1. CASE d = e
    BY <2>1
  <2>2. CASE d # e
    <3>1. event'[d] = event[d] /\ begun'[d] = begun[d] /\ RowSound(d) /\ RowClaim(d) /\ RowTrue(d)
      BY <2>2 DEF BusInv
    <3>2. RowSound(d)'
      BY <3>1 DEF RowSound
    <3>3. RowTrue(d)'
      BY <3>1 DEF RowTrue, WasDelivered
    <3>4. RowClaim(d)'
      BY <3>1 DEF RowClaim
    <3> QED BY <3>2, <3>3, <3>4
  <2> QED BY <2>1, <2>2
<1>4. \A h \in Handlers : SlotTrue(h)'
  BY DEF BusInv, SlotTrue
<1>5. ASSUME NEW h \in Handlers PROVE SlotClaim(h)'
  <2>1. SlotClaim(h)
    BY DEF BusInv
  <2>2. handler[h].pc # "free" => event'[handler[h].event].claims = event[handler[h].event].claims
    BY <2>1 DEF SlotClaim
  <2> QED BY <2>1, <2>2 DEF SlotClaim
<1>2. \A h \in Handlers : SlotSound(h)'
  <2> TAKE h \in Handlers
  <2>1. SlotSound(h) /\ SlotClaim(h)
    BY DEF BusInv
  <2>2. CASE handler[h].event = e
    <3>1. handler[h].pc # "free" => handler[h].claim # 0
      BY <2>1 DEF SlotClaim
    <3>2. handler[h].pc # "free" /\ StillClaimed(h)' => StillClaimed(h)
      BY <2>2, <3>1 DEF StillClaimed
    <3> QED
      BY <2>1, <2>2, <3>1, <3>2 DEF SlotSound, StillClaimed
  <2>3. CASE handler[h].event # e
    BY <2>1, <2>3 DEF SlotSound, SlotClaim, StillClaimed
  <2> QED BY <2>2, <2>3
<1>3. \A g, h \in Handlers : Apart(g, h)'
  BY DEF BusInv, Apart
<1> QED BY <1>1, <1>2, <1>3, <1>4, <1>5 DEF BusInv

LEMMA RecordFactSound ==
  ASSUME BusInv, NEW f \in Facts, NEW required \in BOOLEAN, RecordFact(f, required)
  PROVE  BusInv'
<1> DEFINE r == [BlankEvent EXCEPT !.fact = f, !.required = required,
                    !.recent = f \notin StableFacts, !.status = "pending", !.ready = TRUE]
<1>0. r \in EventRows
  BY BlankIsRow DEF EventRows
<1>9. r.claim = 0 /\ r.claims = 0 /\ r.mode = "" /\ r.reply = "" /\ r.status = "pending"
  BY DEF BlankEvent
<1>1. PICK e \in EventIds : event[e].status = "absent" /\ event' = [event EXCEPT ![e] = r]
  BY DEF RecordFact
<1>2. UNCHANGED <<receipt, handler, begun, sends, told>>
  BY DEF RecordFact
<1> HIDE DEF r
<1>3. event'[e] = r /\ \A d \in EventIds : d # e => event'[d] = event[d]
  BY <1>1 DEF BusInv, Tallies
<1>5. Tallies'
  BY <1>0, <1>1, <1>2 DEF BusInv, Tallies
<1>6. RowSound(e) /\ RowTrue(e) /\ event[e].claims = 0 /\ begun[e] = 0
  BY <1>1 DEF BusInv, RowSound
<1>7. RowSound(e)'
  BY <1>2, <1>3, <1>6, <1>9 DEF RowSound
<1>8. RowTrue(e)' /\ RowClaim(e)'
  <2>1. RowTrue(e)'
    BY <1>2, <1>3, <1>6, <1>9 DEF RowTrue, WasDelivered
  <2>2. event'[e].claim = 0 /\ event'[e].claims = 0
    BY <1>3, <1>9
  <2>3. RowClaim(e)'
    BY <2>2 DEF RowClaim
  <2> QED BY <2>1, <2>3
<1> QED BY <1>2, <1>3, <1>5, <1>6, <1>7, <1>8, <1>9, OnlyARow

LEMMA RecordDuplicateSound ==
  ASSUME BusInv, NEW f \in Facts, RecordDuplicate(f)
  PROVE  BusInv'
<1>1. PICK e \in EventIds :
         /\ Represents(e, f)
         /\ ~event[e].required \/ Reopens(e)
         /\ event' = [event EXCEPT ![e] = Opened(e)]
         /\ begun' = IF Reopens(e) THEN [begun EXCEPT ![e] = 0] ELSE begun
  BY DEF RecordDuplicate
<1>2. UNCHANGED <<receipt, handler, sends, told>>
  BY DEF RecordDuplicate
<1>3. /\ event'[e] = Opened(e)
      /\ \A d \in EventIds : d # e => event'[d] = event[d]
      /\ \A d \in EventIds : d # e => begun'[d] = begun[d]
      /\ begun'[e] = IF Reopens(e) THEN 0 ELSE begun[e]
  BY <1>1 DEF BusInv, Tallies
<1>0. event[e] \in EventRows
  BY DEF BusInv, Tallies
<1>4. Opened(e) \in EventRows
  <2>1. 0 \in 0 .. MaxEventAttempts
    BY EventBusAssumption
  <2> QED
    BY <1>0, <2>1 DEF Opened, EventRows, EventModes, EventReplies
<1>5. Tallies'
  BY <1>1, <1>2, <1>4 DEF BusInv, Tallies
<1>6. RowSound(e) /\ RowClaim(e) /\ RowTrue(e)
  BY DEF BusInv
<1>7. CASE Reopens(e)
  <2>2. /\ event'[e].claims = event[e].claims /\ event'[e].claim = 0
        /\ event'[e].status = "pending" /\ event'[e].mode = "" /\ event'[e].reply = ""
    BY <1>0, <1>3, <1>7 DEF Opened, EventRows
  <2>1. RowSound(e)'
    BY <1>0, <1>2, <1>3, <1>6, <1>7, <2>2, RowFields DEF RowSound
  <2>3. RowTrue(e)'
    BY <1>2, <1>6, <2>2 DEF RowTrue, WasDelivered
  <2>5. event'[e].claim = 0 /\ event'[e].claims = event[e].claims /\ event[e].claims \in Nat
    BY <1>0, <2>2, RowFields
  <2>4. RowClaim(e)'
    BY <2>5 DEF RowClaim
  <2> QED BY <1>2, <1>3, <1>5, <2>1, <2>2, <2>3, <2>4, OnlyARow
<1>8. CASE ~Reopens(e)
  <2>2. /\ event'[e].claims = event[e].claims
        /\ event'[e].claim = event[e].claim
        /\ event'[e].mode = event[e].mode
        /\ event'[e].reply = event[e].reply
        /\ event'[e].status = event[e].status
        /\ event'[e].outcome = event[e].outcome
    BY <1>0, <1>3, <1>8 DEF Opened, EventRows
  <2>3. ~event[e].required
    BY <1>1, <1>8
  <2>4. event[e].status = "done" => event[e].outcome # "skipped"
    BY <1>8, <2>3 DEF Reopens, EventEnded, WasDelivered
  <2>1. RowSound(e)'
    BY <1>2, <1>3, <1>6, <1>8, <2>2 DEF RowSound
  <2>5. RowTrue(e)'
    BY <1>2, <1>6, <2>2, <2>4 DEF RowTrue, WasDelivered
  <2>6. RowClaim(e)'
    BY <1>6, <2>2 DEF RowClaim
  <2> QED BY <1>2, <1>3, <1>5, <2>1, <2>2, <2>5, <2>6, OnlyARow
<1> QED BY <1>7, <1>8

LEMMA RowStepSound ==
  ASSUME BusInv, NEW e \in EventIds,
         WindowCloses(e) \/ Exhaust(e) \/ BackoffEnds(e) \/ ClaimExpires(e)
  PROVE  BusInv'
<1>1. UNCHANGED <<receipt, handler, begun, sends, told>>
  BY DEF WindowCloses, Exhaust, BackoffEnds, ClaimExpires
<1>0. event \in [EventIds -> EventRows] /\ event[e] \in EventRows
  BY DEF BusInv, Tallies
<1>2. PICK r \in EventRows : 
        /\ event' = [event EXCEPT ![e] = r]
        /\ r.claims = event[e].claims
        /\ r.mode = event[e].mode
        /\ r.reply = event[e].reply
        /\ r.required = event[e].required
        /\ r.claim # 0 => r.claim = event[e].claim /\ r.status = event[e].status
        /\ r.claim = event[e].claim \/ r.claim = 0
        /\ \/ r.status = event[e].status /\ r.outcome = event[e].outcome
           \/ event[e].status \in {"pending", "processing"} /\ r.status = "failed"
  <2>1. CASE WindowCloses(e)
    <3> DEFINE r == [event[e] EXCEPT !.recent = FALSE]
    <3>1. event' = [event EXCEPT ![e] = r]
      BY <1>0, <2>1 DEF WindowCloses
    <3>2. r \in EventRows
      BY <1>0 DEF EventRows
    <3> QED
      BY <1>0, <3>1, <3>2 DEF EventRows
  <2>2. CASE Exhaust(e)
    <3> DEFINE r == [event[e] EXCEPT !.status = "failed", !.outcome = "send_failed", !.claim = 0, !.stale = FALSE]
    <3>1. event' = [event EXCEPT ![e] = r]
      BY <1>0, <2>2 DEF Exhaust
    <3>2. r \in EventRows
      BY <1>0 DEF EventRows
    <3>3. event[e].status \in {"pending", "processing"}
      BY <2>2 DEF Exhaust, DueAgain
    <3> QED
      BY <1>0, <3>1, <3>2, <3>3 DEF EventRows
  <2>3. CASE BackoffEnds(e)
    <3> DEFINE r == [event[e] EXCEPT !.ready = TRUE]
    <3>1. event' = [event EXCEPT ![e] = r]
      BY <1>0, <2>3 DEF BackoffEnds
    <3>2. r \in EventRows
      BY <1>0 DEF EventRows
    <3> QED
      BY <1>0, <3>1, <3>2 DEF EventRows
  <2>4. CASE ClaimExpires(e)
    <3> DEFINE r == [event[e] EXCEPT !.stale = TRUE]
    <3>1. event' = [event EXCEPT ![e] = r]
      BY <1>0, <2>4 DEF ClaimExpires
    <3>2. r \in EventRows
      BY <1>0 DEF EventRows
    <3> QED
      BY <1>0, <3>1, <3>2 DEF EventRows
  <2> QED BY <2>1, <2>2, <2>3, <2>4
<1>3. event'[e] = r /\ \A d \in EventIds : d # e => event'[d] = event[d] /\ begun'[d] = begun[d]
  BY <1>0, <1>1, <1>2
<1>5. Tallies'
  BY <1>0, <1>1, <1>2 DEF BusInv, Tallies
<1>6. RowSound(e) /\ RowClaim(e) /\ RowTrue(e)
  BY DEF BusInv
<1>7. RowSound(e)'
  BY <1>0, <1>1, <1>2, <1>3, <1>6, RowFields DEF RowSound
<1>8. RowTrue(e)'
  BY <1>0, <1>1, <1>2, <1>3, <1>6 DEF RowTrue, WasDelivered
<1>9. RowClaim(e)'
  BY <1>0, <1>2, <1>3, <1>6, RowFields DEF RowClaim
<1> QED BY <1>1, <1>2, <1>3, <1>5, <1>7, <1>8, <1>9, OnlyARow

\* A handler's step disturbs no other handler: what it writes it writes under its
\* own claim, and a message it may send it alone may send.
LEMMA OneSlot ==
  ASSUME BusInv, NEW h \in Handlers, NEW s, handler[h].pc # "free",
         handler' = [handler EXCEPT ![h] = s],
         s.pc # "free" => s.event = handler[h].event /\ s.claim = handler[h].claim,
         Tallies',
         \A d \in EventIds : RowSound(d)' /\ RowClaim(d)' /\ RowTrue(d)',
         \A d \in EventIds : event'[d].claims = event[d].claims,
         \A d \in EventIds : \/ event'[d] = event[d]
                             \/ /\ StillClaimed(h) /\ d = handler[h].event
                                /\ event'[d].claim \in {0, event[d].claim},
         \A d \in EventIds : receipt[d] # "none" => receipt'[d] # "none",
         \A d \in EventIds : told[d] => told'[d],
         \A d \in EventIds : sends'[d] = sends[d] \/ (d = handler[h].event /\ handler[h].pc = "transmit"),
         s.pc = "transmit" => receipt[handler[h].event] = "none",
         SlotSound(h)', SlotTrue(h)'
  PROVE  BusInv'
<1>1. handler'[h] = s /\ \A g \in Handlers : g # h => handler'[g] = handler[g]
  BY DEF BusInv, Tallies
<1>2. ASSUME NEW g \in Handlers PROVE SlotClaim(g)'
  <2>1. SlotClaim(g) /\ SlotClaim(h)
    BY DEF BusInv
  <2>2. handler'[g].pc # "free" =>
          /\ handler[g].pc # "free"
          /\ handler'[g].event = handler[g].event
          /\ handler'[g].claim = handler[g].claim
    BY <1>1
  <2>3. handler[g].pc # "free" => event'[handler[g].event].claims = event[handler[g].event].claims
    BY <2>1 DEF SlotClaim
  <2> QED BY <2>1, <2>2, <2>3 DEF SlotClaim
<1>3. ASSUME NEW g \in Handlers, g # h PROVE SlotSound(g)'
  <2>1. handler'[g] = handler[g]
    BY <1>1, <1>3
  <2>2. SlotSound(g) /\ SlotSound(h)
    BY DEF BusInv
  <2>3. handler[g].pc # "free" => handler[g].claim # 0 /\ handler[g].event \in EventIds
    <3>1. SlotClaim(g)
      BY DEF BusInv
    <3> QED BY <3>1 DEF SlotClaim
  <2>4. Apart(g, h)
    BY DEF BusInv
  <2>5. CASE handler[g].pc \in {"start", "begin"} /\ StillClaimed(g)'
    <3>1. event'[handler[g].event] = event[handler[g].event]
      BY <1>3, <2>1, <2>3, <2>4, <2>5 DEF Apart, StillClaimed
    <3>2. StillClaimed(g)
      BY <2>1, <2>5, <3>1 DEF StillClaimed
    <3> QED BY <2>1, <2>2, <2>5, <3>1, <3>2 DEF SlotSound
  <2>6. CASE ~(handler[g].pc \in {"start", "begin"} /\ StillClaimed(g)')
    <3>1. handler[g].pc = "transmit" => sends'[handler[g].event] = sends[handler[g].event]
      BY <1>3, <2>3, <2>4 DEF Apart
    <3> QED BY <2>1, <2>2, <2>3, <2>6, <3>1 DEF SlotSound
  <2> QED BY <2>5, <2>6
<1>4. ASSUME NEW g \in Handlers, g # h PROVE SlotTrue(g)'
  <2>1. handler'[g] = handler[g] /\ SlotTrue(g) /\ SlotClaim(g)
    BY <1>1, <1>4 DEF BusInv
  <2> QED BY <2>1 DEF SlotTrue, SlotClaim
<1>5. ASSUME NEW g \in Handlers, g # h PROVE Apart(g, h)' /\ Apart(h, g)'
  <2>1. handler'[g] = handler[g] /\ SlotSound(g) /\ Apart(g, h)
    BY <1>1, <1>5 DEF BusInv
  <2>2. s.pc = "transmit" /\ handler[g].event = handler[h].event => handler[g].pc # "transmit"
    BY <2>1 DEF SlotSound
  <2> QED BY <1>1, <1>5, <2>1, <2>2 DEF Apart
<1>6. ASSUME NEW g \in Handlers, NEW k \in Handlers, g # h, k # h PROVE Apart(g, k)'
  BY <1>1, <1>6 DEF BusInv, Apart
<1>7. Apart(h, h)'
  BY DEF Apart
<1>8. \A g, k \in Handlers : Apart(g, k)'
  BY <1>5, <1>6, <1>7
<1>9. \A g \in Handlers : SlotSound(g)' /\ SlotClaim(g)' /\ SlotTrue(g)'
  BY <1>2, <1>3, <1>4
<1> QED BY <1>8, <1>9 DEF BusInv

LEMMA DispatchSound ==
  ASSUME BusInv, NEW h \in Handlers, NEW e \in EventIds, Dispatch(h, e)
  PROVE  BusInv'
<1> DEFINE c == event[e].claims + 1
           r == [event[e] EXCEPT !.status = "processing", !.claim = c, !.claims = c,
                                 !.attempts = event[e].attempts + 1, !.stale = FALSE]
           s == [pc |-> "start", event |-> e, claim |-> c,
                 attempts |-> event[e].attempts + 1, required |-> event[e].required,
                 mode |-> event[e].mode, reply |-> event[e].reply]
<1>1. UNCHANGED <<receipt, begun, sends, told>>
  BY DEF Dispatch
<1>2. event \in [EventIds -> EventRows] /\ event[e] \in EventRows /\ RowSound(e) /\ RowClaim(e) /\ RowTrue(e)
  BY DEF BusInv, Tallies
<1>3. event' = [event EXCEPT ![e] = r] /\ handler' = [handler EXCEPT ![h] = s]
  BY <1>2 DEF Dispatch
<1>4. event[e].attempts + 1 \in 0 .. MaxEventAttempts /\ event[e].attempts + 1 \in Nat
  <2>1. event[e].attempts \in 0 .. MaxEventAttempts /\ event[e].attempts < MaxEventAttempts
    BY <1>2, RowFields DEF Dispatch
  <2> QED BY <2>1, EventBusAssumption
<1>5. c \in Nat /\ event[e].claims \in Nat /\ c # 0 /\ c >= 1 /\ event[e].claims < c
  BY <1>2, RowFields
<1>6. event[e].status \in {"pending", "processing"}
  BY DEF Dispatch, DueAgain
<1>7. r.status = "processing" /\ r.claim = c /\ r.claims = c /\ r.mode = event[e].mode /\ r.reply = event[e].reply
  BY <1>2 DEF EventRows
<1>8. r \in EventRows
  BY <1>2, <1>4, <1>5 DEF EventRows
<1>9. s \in Slots
  BY <1>2, <1>4, <1>5, RowFields DEF HandlerSteps, Slots
<1>10. s.pc = "start" /\ s.event = e /\ s.claim = c /\ s.mode = event[e].mode /\ s.reply = event[e].reply
  OBVIOUS
<1> HIDE DEF r, s, c
<1>11. /\ event'[e] = r /\ \A d \in EventIds : d # e => event'[d] = event[d]
       /\ handler'[h] = s /\ \A g \in Handlers : g # h => handler'[g] = handler[g]
  BY <1>3 DEF BusInv, Tallies
<1>12. Tallies'
  BY <1>1, <1>3, <1>8, <1>9 DEF BusInv, Tallies
<1>13. ASSUME NEW d \in EventIds PROVE RowSound(d)' /\ RowClaim(d)' /\ RowTrue(d)'
  <2>1. CASE d = e
    <3>1. RowSound(e)'
      BY <1>1, <1>2, <1>6, <1>7, <1>11 DEF RowSound
    <3>2. RowTrue(e)'
      BY <1>1, <1>2, <1>6, <1>7, <1>11 DEF RowTrue, WasDelivered
    <3>3. event'[e].claim = c /\ event'[e].claims = c
      BY <1>7, <1>11
    <3>4. RowClaim(e)'
      BY <1>5, <3>3 DEF RowClaim
    <3> QED BY <2>1, <3>1, <3>2, <3>4
  <2>2. CASE d # e
    <3>1. event'[d] = event[d] /\ RowSound(d) /\ RowClaim(d) /\ RowTrue(d)
      BY <1>11, <2>2 DEF BusInv
    <3>2. RowSound(d)'
      BY <1>1, <3>1 DEF RowSound
    <3>3. RowTrue(d)'
      BY <1>1, <3>1 DEF RowTrue, WasDelivered
    <3>4. RowClaim(d)'
      BY <3>1 DEF RowClaim
    <3> QED BY <3>2, <3>3, <3>4
  <2> QED BY <2>1, <2>2
<1>14. ASSUME NEW g \in Handlers PROVE SlotClaim(g)'
  <2>1. CASE g = h
    <3>1. event'[e].claims = c
      BY <1>7, <1>11
    <3> QED BY <1>5, <1>10, <1>11, <2>1, <3>1 DEF SlotClaim
  <2>2. CASE g # h /\ handler[g].event # e
    BY <1>11, <2>2 DEF BusInv, SlotClaim
  <2>3. CASE g # h /\ handler[g].event = e
    <3>1. SlotClaim(g) /\ handler'[g] = handler[g]
      BY <1>11, <2>3 DEF BusInv
    <3>2. event'[e].claims = c
      BY <1>7, <1>11
    <3>3. handler[g].claim \in Nat
      BY SlotFields DEF BusInv, Tallies
    <3> QED BY <1>5, <2>3, <3>1, <3>2, <3>3 DEF SlotClaim
  <2> QED BY <2>1, <2>2, <2>3
<1>15. ASSUME NEW g \in Handlers, g # h, handler[g].pc # "free", handler[g].event = e PROVE handler[g].claim # c
  <2>1. SlotClaim(g) /\ handler[g].claim \in Nat
    BY SlotFields DEF BusInv, Tallies
  <2>2. handler[g].claim <= event[e].claims
    BY <1>15, <2>1 DEF SlotClaim
  <2> QED BY <1>5, <2>1, <2>2
<1>16. ASSUME NEW g \in Handlers PROVE SlotSound(g)' /\ SlotTrue(g)'
  <2>1. CASE g = h
    <3>1. s.mode # "skipped" /\ (s.reply = "" <=> s.mode \in {"", "generating"})
      BY <1>2, <1>6, <1>10 DEF RowSound
    <3>2. event'[e].mode = s.mode /\ event'[e].reply = s.reply
      BY <1>7, <1>10, <1>11
    <3> QED BY <1>10, <1>11, <2>1, <3>1, <3>2 DEF SlotSound, SlotTrue, Speaking
  <2>2. CASE g # h
    <3>1. handler'[g] = handler[g] /\ SlotSound(g) /\ SlotTrue(g)
      BY <1>11, <2>2 DEF BusInv
    <3>2. handler[g].pc # "free" /\ StillClaimed(g)' => event'[handler[g].event] = event[handler[g].event]
      <4>1. handler[g].pc # "free" => handler[g].event \in EventIds
        BY DEF BusInv, SlotClaim
      <4> QED BY <1>7, <1>11, <1>15, <2>2, <3>1, <4>1 DEF StillClaimed
    <3>3. handler[g].pc # "free" /\ StillClaimed(g)' => StillClaimed(g)
      BY <3>1, <3>2 DEF StillClaimed
    <3>4. SlotSound(g)'
      BY <1>1, <3>1, <3>2, <3>3 DEF SlotSound
    <3> QED BY <1>1, <3>1, <3>4 DEF SlotTrue
  <2> QED BY <2>1, <2>2
<1>17. ASSUME NEW g \in Handlers, NEW k \in Handlers PROVE Apart(g, k)'
  BY <1>10, <1>11, <1>15 DEF Apart, BusInv
<1> QED BY <1>12, <1>13, <1>14, <1>16, <1>17 DEF BusInv

LEMMA BusStopsSound == ASSUME BusInv, BusStops PROVE BusInv'
<1>1. UNCHANGED <<event, receipt, begun, sends, told>>
  BY DEF BusStops
<1>2. \A h \in Handlers : handler'[h].pc = "free"
  BY DEF BusStops, FreeSlot
<1>3. Tallies'
  BY <1>1 DEF BusStops, BusInv, Tallies, Slots, FreeSlot, EventModes, EventReplies, HandlerSteps
<1>4. \A e \in EventIds : RowSound(e)' /\ RowClaim(e)' /\ RowTrue(e)'
  BY <1>1 DEF BusInv, RowSound, RowClaim, RowTrue, WasDelivered
<1>5. \A h \in Handlers : SlotSound(h)' /\ SlotClaim(h)' /\ SlotTrue(h)'
  BY <1>2 DEF SlotSound, SlotClaim, SlotTrue
<1> QED BY <1>2, <1>3, <1>4, <1>5 DEF BusInv, Apart

LEMMA SlotEdits ==
  ASSUME NEW t \in Slots, NEW pc \in HandlerSteps
  PROVE  /\ [t EXCEPT !.pc = pc] \in Slots
         /\ [t EXCEPT !.pc = pc].pc = pc
         /\ [t EXCEPT !.pc = pc].event = t.event
         /\ [t EXCEPT !.pc = pc].claim = t.claim
         /\ [t EXCEPT !.pc = pc].mode = t.mode
         /\ [t EXCEPT !.pc = pc].reply = t.reply
         /\ FreeSlot \in Slots /\ FreeSlot.pc = "free"
  BY DEF Slots, FreeSlot, HandlerSteps, EventModes, EventReplies

\* A handler moves on without writing.
LEMMA OnlyASlot ==
  ASSUME BusInv, NEW h \in Handlers, NEW s \in Slots, handler[h].pc # "free",
         handler' = [handler EXCEPT ![h] = s],
         s.pc # "free" => s.event = handler[h].event /\ s.claim = handler[h].claim,
         s.pc # "transmit",
         UNCHANGED <<event, receipt, begun, sends, told>>,
         SlotSound(h)', SlotTrue(h)'
  PROVE  BusInv'
<1>1. Tallies'
  BY DEF BusInv, Tallies
<1>2. ASSUME NEW d \in EventIds PROVE RowSound(d)' /\ RowClaim(d)' /\ RowTrue(d)'
  BY DEF BusInv, RowSound, RowClaim, RowTrue, WasDelivered
<1> QED BY <1>1, <1>2, OneSlot

\* A handler writes into its event's row while its claim holds.
LEMMA SlotAndRow ==
  ASSUME BusInv, NEW h \in Handlers, NEW s \in Slots, handler[h].pc # "free",
         handler' = [handler EXCEPT ![h] = s],
         s.pc # "free" => s.event = handler[h].event /\ s.claim = handler[h].claim,
         s.pc # "transmit", StillClaimed(h),
         NEW e \in EventIds, e = handler[h].event, NEW r \in EventRows,
         event' = [event EXCEPT ![e] = r],
         r.claims = event[e].claims, r.claim \in {0, event[e].claim},
         begun' \in [EventIds -> Nat],
         \A d \in EventIds : d # e => begun'[d] = begun[d],
         UNCHANGED <<receipt, sends, told>>,
         RowSound(e)', RowTrue(e)', SlotSound(h)', SlotTrue(h)'
  PROVE  BusInv'
<1>1. Tallies'
  BY DEF BusInv, Tallies
<1>0. event'[e] = r /\ \A d \in EventIds : d # e => event'[d] = event[d]
  BY DEF BusInv, Tallies
<1>2. ASSUME NEW d \in EventIds PROVE RowSound(d)' /\ RowClaim(d)' /\ RowTrue(d)'
  <2>1. CASE d = e
    <3>1. RowClaim(e) /\ event[e].claims \in Nat /\ event[e].claim \in Nat
      BY RowFields DEF BusInv, Tallies
    <3>2. event'[e].claim \in {0, event[e].claim} /\ event'[e].claims = event[e].claims
      BY <1>0
    <3>3. RowClaim(e)'
      BY <3>1, <3>2 DEF RowClaim
    <3> QED BY <2>1, <3>3
  <2>2. CASE d # e
    <3>1. event'[d] = event[d] /\ begun'[d] = begun[d] /\ RowSound(d) /\ RowClaim(d) /\ RowTrue(d)
      BY <1>0, <2>2 DEF BusInv
    <3>2. RowSound(d)'
      BY <3>1 DEF RowSound
    <3>3. RowTrue(d)'
      BY <3>1 DEF RowTrue, WasDelivered
    <3>4. RowClaim(d)'
      BY <3>1 DEF RowClaim
    <3> QED BY <3>2, <3>3, <3>4
  <2> QED BY <2>1, <2>2
<1>3. \A d \in EventIds : event'[d].claims = event[d].claims
  BY <1>0
<1>4. \A d \in EventIds : \/ event'[d] = event[d]
                           \/ /\ StillClaimed(h) /\ d = handler[h].event
                              /\ event'[d].claim \in {0, event[d].claim}
  BY <1>0
<1> HIDE DEF BusInv, Tallies
<1> QED BY <1>1, <1>2, <1>3, <1>4, OneSlot

\* To go on, to say something, to be released: the slot stays sound.
LEMMA Going ==
  ASSUME BusInv, NEW h \in Handlers, handler[h].pc # "free", NEW pc \in HandlerSteps, Go(h, pc),
         UNCHANGED <<event, receipt, begun, sends, told>>,
         pc \notin {"start", "transmit"},
         pc = "begin" => handler[h].pc = "start" /\ handler[h].mode = "",
         pc \in Speaking => handler[h].mode \in {"handled", "fallback"},
         pc \in {"markSent", "settle"} => told[handler[h].event]
  PROVE  BusInv'
<1> DEFINE s == [handler[h] EXCEPT !.pc = pc]
<1>1. handler[h] \in Slots /\ SlotSound(h)
  BY DEF BusInv, Tallies
<1>2. handler' = [handler EXCEPT ![h] = s]
  BY DEF BusInv, Tallies, Go
<1>3. s \in Slots /\ s.pc = pc /\ s.event = handler[h].event /\ s.claim = handler[h].claim
      /\ s.mode = handler[h].mode /\ s.reply = handler[h].reply
  BY <1>1, SlotEdits
<1> HIDE DEF s
<1>4. handler'[h] = s
  BY <1>2 DEF BusInv, Tallies
<1>5. SlotSound(h)'
  BY <1>1, <1>3, <1>4 DEF SlotSound, StillClaimed
<1>6. SlotTrue(h)'
  BY <1>3, <1>4 DEF SlotTrue
<1> QED BY <1>2, <1>3, <1>5, <1>6, OnlyASlot

LEMMA Saying ==
  ASSUME BusInv, NEW h \in Handlers, handler[h].pc # "free",
         NEW mode \in {"handled", "fallback"}, NEW reply \in {"text", "fact"}, Say(h, mode, reply),
         UNCHANGED <<event, receipt, begun, sends, told>>
  PROVE  BusInv'
<1> DEFINE s == [handler[h] EXCEPT !.pc = "prepare", !.mode = mode, !.reply = reply]
<1>1. handler[h] \in Slots /\ SlotSound(h)
  BY DEF BusInv, Tallies
<1>2. handler' = [handler EXCEPT ![h] = s]
  BY DEF BusInv, Tallies, Say
<1>0. mode \in EventModes /\ reply \in EventReplies
  BY DEF EventModes, EventReplies
<1>3. s \in Slots /\ s.pc = "prepare" /\ s.event = handler[h].event /\ s.claim = handler[h].claim
      /\ s.mode = mode /\ s.reply = reply
  BY <1>0, <1>1 DEF Slots, HandlerSteps
<1> HIDE DEF s
<1>4. handler'[h] = s
  BY <1>2 DEF BusInv, Tallies
<1>5. SlotSound(h)' /\ SlotTrue(h)'
  BY <1>1, <1>3, <1>4 DEF SlotSound, SlotTrue
<1> QED BY <1>2, <1>3, <1>5, OnlyASlot

LEMMA QuietStepSound ==
  ASSUME BusInv, NEW h \in Handlers, StepFails(h) \/ AckFails(h) \/ FindDecider(h) \/ Decide(h)
  PROVE  BusInv'
<1>0. handler[h] \in Slots /\ SlotSound(h) /\ handler[h].pc # "free"
  BY DEF BusInv, Tallies, StepFails, AckFails, FindDecider, Decide
<1>1. UNCHANGED <<event, receipt, begun, sends, told>>
  BY DEF StepFails, AckFails, FindDecider, Decide
<1>2. CASE StepFails(h)
  <2>1. Go(h, "retry")
    BY <1>2 DEF StepFails
  <2> QED BY <1>0, <1>1, <2>1, Going DEF Speaking, HandlerSteps
<1>3. CASE AckFails(h)
  <2>1. handler' = [handler EXCEPT ![h] = FreeSlot] /\ FreeSlot \in Slots /\ FreeSlot.pc = "free"
    BY <1>3 DEF AckFails, Release, FreeSlot, Slots, HandlerSteps, EventModes, EventReplies
  <2>2. handler'[h] = FreeSlot
    BY <2>1 DEF BusInv, Tallies
  <2>3. SlotSound(h)' /\ SlotTrue(h)'
    BY <2>1, <2>2 DEF SlotSound, SlotTrue
  <2> QED BY <1>0, <1>1, <2>1, <2>3, OnlyASlot
<1>4. CASE FindDecider(h)
  <2>0. handler[h].pc = "start" /\ handler[h].mode \in EventModes
    BY <1>0, <1>4, SlotFields DEF FindDecider
  <2>1. CASE Go(h, "drop")
    BY <1>0, <1>1, <2>1, Going DEF Speaking, HandlerSteps
  <2>2. CASE handler[h].reply # "" /\ Go(h, "send")
    <3>1. handler[h].mode \in {"handled", "fallback"}
      BY <1>0, <2>0, <2>2 DEF SlotSound, EventModes
    <3> QED BY <1>0, <1>1, <2>2, <3>1, Going DEF HandlerSteps
  <2>3. CASE Say(h, "fallback", "fact")
    BY <1>0, <1>1, <2>3, Saying
  <2>4. CASE handler[h].reply = "" /\ handler[h].mode # "generating" /\ Go(h, "begin")
    <3>1. handler[h].mode = ""
      BY <1>0, <2>0, <2>4 DEF SlotSound
    <3> QED BY <1>0, <1>1, <2>0, <2>4, <3>1, Going DEF Speaking, HandlerSteps
  <2> QED BY <1>4, <2>1, <2>2, <2>3, <2>4 DEF FindDecider
<1>5. CASE Decide(h)
  <2>1. CASE Say(h, "handled", "text") \/ Say(h, "fallback", "fact")
    BY <1>0, <1>1, <2>1, Saying
  <2>2. CASE Go(h, "skip")
    BY <1>0, <1>1, <2>2, Going DEF Speaking, HandlerSteps
  <2> QED BY <1>5, <2>1, <2>2 DEF Decide
<1> QED BY <1>2, <1>3, <1>4, <1>5


LEMMA BeginDecisionSound ==
  ASSUME BusInv, NEW h \in Handlers, BeginDecision(h), NEW e, e = handler[h].event
  PROVE  BusInv'
<1> DEFINE r == [event[e] EXCEPT !.mode = "generating"]
           s == [handler[h] EXCEPT !.pc = "decide"]
<1>0. handler[h] \in Slots /\ SlotSound(h) /\ handler[h].pc = "begin" /\ e \in EventIds
  BY DEF BusInv, Tallies, SlotClaim, BeginDecision
<1>1. UNCHANGED <<receipt, sends, told>>
  BY DEF BeginDecision
<1>2. CASE StillClaimed(h) /\ event[e].reply = ""
  <2>1. event[e] \in EventRows /\ RowSound(e) /\ RowTrue(e)
    BY <1>0 DEF BusInv, Tallies
  <2>2. event' = [event EXCEPT ![e] = r] /\ handler' = [handler EXCEPT ![h] = s]
    BY <1>2 DEF BeginDecision, Go, BusInv, Tallies
  <2>a. begun \in [EventIds -> Nat] /\ begun' = [begun EXCEPT ![e] = begun[e] + 1]
    BY <1>2 DEF BeginDecision, BusInv, Tallies
  <2>3. begun' \in [EventIds -> Nat] /\ begun'[e] = begun[e] + 1
    BY <1>0, <2>a
  <2>b. \A d \in EventIds : d # e => begun'[d] = begun[d]
    BY <2>a
  <2>4. r \in EventRows /\ r.claim = event[e].claim /\ r.claims = event[e].claims /\ r.status = event[e].status
        /\ r.mode = "generating" /\ r.reply = event[e].reply /\ r.outcome = event[e].outcome
    BY <2>1 DEF EventRows, EventModes
  <2>5. r.required = event[e].required
    BY <2>1 DEF EventRows
  <2>6. s \in Slots /\ s.pc = "decide" /\ s.event = e /\ s.claim = handler[h].claim
        /\ s.mode = handler[h].mode /\ s.reply = handler[h].reply
    BY <1>0, SlotEdits, ZenonT(60) DEF HandlerSteps
  <2>7. event[e].mode = "" /\ event[e].status = "processing"
    BY <1>0, <1>2 DEF SlotSound, StillClaimed
  <2> HIDE DEF r, s
  <2>8. event'[e] = r /\ handler'[h] = s
    BY <1>0, <2>2 DEF BusInv, Tallies
  <2>9. begun'[e] = 1
    <3>1. begun[e] = 0
      BY <2>1, <2>7 DEF RowSound
    <3> QED BY <2>3, <3>1
  <2>10. RowSound(e)'
    BY <1>1, <1>2, <2>1, <2>4, <2>7, <2>8, <2>9 DEF RowSound
  <2>11. RowTrue(e)'
    BY <1>1, <2>1, <2>4, <2>5, <2>7, <2>8 DEF RowTrue, WasDelivered
  <2>12. SlotSound(h)' /\ SlotTrue(h)'
    BY <1>0, <2>6, <2>8 DEF SlotSound, SlotTrue, Speaking
  <2> QED BY <1>0, <1>1, <1>2, <2>2, <2>3, <2>b, <2>4, <2>6, <2>10, <2>11, <2>12, SlotAndRow
<1>3. CASE ~(StillClaimed(h) /\ event[e].reply = "")
  <2>1. Go(h, "retry") /\ UNCHANGED <<event, begun>>
    BY <1>3 DEF BeginDecision
  <2> QED BY <1>0, <1>1, <2>1, Going DEF Speaking, HandlerSteps
<1> QED BY <1>2, <1>3

LEMMA Settling ==
  ASSUME BusInv, NEW h \in Handlers, handler[h].pc # "free", StillClaimed(h), Release(h),
         NEW e \in EventIds, e = handler[h].event, NEW r \in EventRows,
         event' = [event EXCEPT ![e] = r],
         r.claims = event[e].claims, r.claim = 0,
         UNCHANGED <<receipt, begun, sends, told>>,
         RowSound(e)', RowTrue(e)'
  PROVE  BusInv'
<1>1. handler' = [handler EXCEPT ![h] = FreeSlot] /\ FreeSlot \in Slots /\ FreeSlot.pc = "free"
  BY DEF Release, FreeSlot, Slots, HandlerSteps, EventModes, EventReplies
<1>2. handler'[h] = FreeSlot
  BY <1>1 DEF BusInv, Tallies
<1>3. SlotSound(h)' /\ SlotTrue(h)'
  BY <1>1, <1>2 DEF SlotSound, SlotTrue
<1>4. begun' \in [EventIds -> Nat] /\ \A d \in EventIds : d # e => begun'[d] = begun[d]
  BY DEF BusInv, Tallies
<1> QED BY <1>1, <1>3, <1>4, SlotAndRow

LEMMA FinalizeSkipSound ==
  ASSUME BusInv, NEW h \in Handlers, FinalizeSkip(h), NEW e, e = handler[h].event
  PROVE  BusInv'
<1> DEFINE r == [event[e] EXCEPT !.status = "done", !.outcome = "skipped", !.reply = "text",
                                 !.mode = "skipped", !.claim = 0, !.stale = FALSE]
<1>0. handler[h].pc = "skip" /\ e \in EventIds
  BY DEF BusInv, SlotClaim, FinalizeSkip
<1>1. UNCHANGED <<receipt, begun, sends, told>>
  BY DEF FinalizeSkip
<1>2. CASE StillClaimed(h) /\ ~event[e].required
  <2>1. event[e] \in EventRows /\ RowSound(e) /\ RowTrue(e)
    BY <1>0 DEF BusInv, Tallies
  <2>2. event' = [event EXCEPT ![e] = r] /\ Release(h)
    BY <1>2, ZenonT(60) DEF FinalizeSkip, BusInv, Tallies
  <2>9. "skipped" \in EventModes /\ "text" \in EventReplies
    BY DEF EventModes, EventReplies
  <2>8. r \in EventRows
    BY <2>1, <2>9 DEF EventRows
  <2>3. r.claim = 0 /\ r.claims = event[e].claims /\ r.status = "done"
        /\ r.mode = "skipped" /\ r.reply = "text" /\ r.outcome = "skipped"
    BY <2>1 DEF EventRows
  <2>4. ~r.required
    BY <1>2, <2>1 DEF EventRows
  <2> HIDE DEF r
  <2>5. event'[e] = r
    BY <1>0, <2>2 DEF BusInv, Tallies
  <2>6. RowSound(e)'
    BY <1>1, <2>1, <2>3, <2>5 DEF RowSound
  <2>7. RowTrue(e)'
    BY <1>1, <2>1, <2>3, <2>4, <2>5 DEF RowTrue, WasDelivered
  <2> QED BY <1>0, <1>1, <1>2, <2>2, <2>3, <2>6, <2>7, <2>8, Settling
<1>3. CASE ~(StillClaimed(h) /\ ~event[e].required)
  <2>1. Say(h, "fallback", "fact") /\ UNCHANGED event
    BY <1>3 DEF FinalizeSkip
  <2> QED BY <1>0, <1>1, <2>1, Saying
<1> QED BY <1>2, <1>3

LEMMA PrepareDeliverySound ==
  ASSUME BusInv, NEW h \in Handlers, PrepareDelivery(h), NEW e, e = handler[h].event
  PROVE  BusInv'
<1> DEFINE r == [event[e] EXCEPT !.mode = handler[h].mode, !.reply = handler[h].reply]
           s == [handler[h] EXCEPT !.pc = "send"]
<1>0. handler[h] \in Slots /\ SlotSound(h) /\ handler[h].pc = "prepare" /\ e \in EventIds
  BY DEF BusInv, Tallies, SlotClaim, PrepareDelivery
<1>1. UNCHANGED <<receipt, begun, sends, told>>
  BY DEF PrepareDelivery
<1>4. handler[h].mode \in {"handled", "fallback"} /\ handler[h].reply # "" /\ handler[h].reply \in EventReplies
  BY <1>0, SlotFields DEF SlotSound, Speaking
<1>2. CASE StillClaimed(h)
  <2>1. event[e] \in EventRows /\ RowSound(e) /\ RowTrue(e)
    BY <1>0 DEF BusInv, Tallies
  <2>2. event' = [event EXCEPT ![e] = r] /\ handler' = [handler EXCEPT ![h] = s]
    BY <1>2 DEF PrepareDelivery, Go, BusInv, Tallies
  <2>4. r \in EventRows /\ r.claim = event[e].claim /\ r.claims = event[e].claims /\ r.status = event[e].status
        /\ r.mode = handler[h].mode /\ r.reply = handler[h].reply /\ r.outcome = event[e].outcome
    BY <1>4, <2>1, ZenonT(60) DEF EventRows, EventModes
  <2>6. s \in Slots /\ s.pc = "send" /\ s.event = e /\ s.claim = handler[h].claim
        /\ s.mode = handler[h].mode /\ s.reply = handler[h].reply
    BY <1>0, SlotEdits, ZenonT(60) DEF HandlerSteps
  <2>7. event[e].status = "processing"
    BY <1>2 DEF StillClaimed
  <2> HIDE DEF r, s
  <2>8. event'[e] = r /\ handler'[h] = s
    BY <1>0, <2>2 DEF BusInv, Tallies
  <2>10. RowSound(e)'
    BY <1>1, <1>2, <1>4, <2>1, <2>4, <2>7, <2>8 DEF RowSound
  <2>11. RowTrue(e)'
    BY <1>1, <2>1, <2>4, <2>7, <2>8 DEF RowTrue, WasDelivered
  <2>12. SlotSound(h)' /\ SlotTrue(h)'
    BY <1>0, <1>4, <2>6, <2>8 DEF SlotSound, SlotTrue, Speaking
  <2>13. begun' \in [EventIds -> Nat] /\ \A d \in EventIds : d # e => begun'[d] = begun[d]
    BY <1>1 DEF BusInv, Tallies
  <2> QED BY <1>0, <1>1, <1>2, <2>2, <2>4, <2>6, <2>10, <2>11, <2>12, <2>13, SlotAndRow
<1>3. CASE ~StillClaimed(h)
  <2>1. Go(h, "retry") /\ UNCHANGED <<event, begun>>
    BY <1>1, <1>3 DEF PrepareDelivery
  <2> QED BY <1>0, <1>1, <2>1, Going DEF Speaking, HandlerSteps
<1> QED BY <1>2, <1>3

LEMMA CompleteEventSound ==
  ASSUME BusInv, NEW h \in Handlers, CompleteEvent(h), NEW e, e = handler[h].event
  PROVE  BusInv'
<1> DEFINE r == [event[e] EXCEPT !.status = "done", !.outcome = SettledAs(h), !.claim = 0, !.stale = FALSE]
<1>0. handler[h] \in Slots /\ SlotSound(h) /\ SlotTrue(h) /\ handler[h].pc \in {"drop", "settle", "settleUnsent"}
      /\ e \in EventIds /\ StillClaimed(h) /\ Release(h)
  BY DEF BusInv, Tallies, SlotClaim, CompleteEvent
<1>1. UNCHANGED <<receipt, begun, sends, told>>
  BY DEF CompleteEvent
<1>2. /\ SettledAs(h) \in {"dropped", "send_failed", "handled", "fallback"}
      /\ SettledAs(h) \in {"handled", "fallback"} => told[e]
  BY <1>0 DEF SettledAs, SlotSound, SlotTrue, Speaking
<1>3. event[e] \in EventRows /\ RowSound(e) /\ RowTrue(e)
  BY <1>0 DEF BusInv, Tallies
<1>4. event' = [event EXCEPT ![e] = r]
  BY DEF CompleteEvent, BusInv, Tallies
<1>5. event[e].status = "processing"
  BY <1>0 DEF StillClaimed
<1> HIDE DEF SettledAs
<1>10. r \in EventRows
  BY <1>2, <1>3, ZenonT(60) DEF EventRows
<1>6. r.claim = 0 /\ r.claims = event[e].claims /\ r.status = "done"
        /\ r.mode = event[e].mode /\ r.reply = event[e].reply /\ r.outcome = SettledAs(h)
  BY <1>3 DEF EventRows
<1> HIDE DEF r
<1>7. event'[e] = r
  BY <1>0, <1>4 DEF BusInv, Tallies
<1>8. RowSound(e)'
  BY <1>1, <1>3, <1>5, <1>6, <1>7 DEF RowSound
<1>9. RowTrue(e)'
  BY <1>1, <1>2, <1>3, <1>6, <1>7 DEF RowTrue, WasDelivered
<1> QED BY <1>0, <1>1, <1>4, <1>6, <1>8, <1>9, <1>10, Settling

LEMMA RetryEventSound ==
  ASSUME BusInv, NEW h \in Handlers, RetryEvent(h), NEW e, e = handler[h].event
  PROVE  BusInv'
<1>0. handler[h].pc = "retry" /\ e \in EventIds /\ StillClaimed(h) /\ Release(h)
  BY DEF BusInv, Tallies, SlotClaim, RetryEvent
<1>1. UNCHANGED <<receipt, begun, sends, told>>
  BY DEF RetryEvent
<1>3. event \in [EventIds -> EventRows] /\ event[e] \in EventRows /\ RowSound(e) /\ RowTrue(e)
  BY <1>0 DEF BusInv, Tallies
<1>5. event[e].status = "processing"
  BY <1>0 DEF StillClaimed
<1>4. PICK r \in EventRows :
        /\ event' = [event EXCEPT ![e] = r]
        /\ r.claim = 0 /\ r.claims = event[e].claims /\ r.mode = event[e].mode /\ r.reply = event[e].reply
        /\ r.status \in {"failed", "pending"}
  <2>1. CASE handler[h].attempts >= MaxEventAttempts
    <3> DEFINE r == [event[e] EXCEPT !.status = "failed", !.outcome = "send_failed", !.claim = 0, !.stale = FALSE]
    <3>1. event' = [event EXCEPT ![e] = r]
      BY <2>1 DEF RetryEvent
    <3>2. r \in EventRows
      BY <1>3 DEF EventRows
    <3> QED BY <1>3, <3>1, <3>2 DEF EventRows
  <2>2. CASE ~(handler[h].attempts >= MaxEventAttempts)
    <3> DEFINE r == [event[e] EXCEPT !.status = "pending", !.ready = FALSE, !.claim = 0, !.stale = FALSE]
    <3>1. event' = [event EXCEPT ![e] = r]
      BY <2>2 DEF RetryEvent
    <3>2. r \in EventRows
      BY <1>3 DEF EventRows
    <3> QED BY <1>3, <3>1, <3>2 DEF EventRows
  <2> QED BY <2>1, <2>2
<1>7. event'[e] = r
  BY <1>0, <1>3, <1>4
<1>8. RowSound(e)'
  BY <1>1, <1>3, <1>5, <1>4, <1>7 DEF RowSound
<1>9. RowTrue(e)'
  BY <1>1, <1>3, <1>4, <1>7 DEF RowTrue, WasDelivered
<1> QED BY <1>0, <1>1, <1>4, <1>8, <1>9, Settling

LEMMA BeginSendSound ==
  ASSUME BusInv, NEW h \in Handlers, BeginSend(h), NEW e, e = handler[h].event
  PROVE  BusInv'
<1>0. handler[h] \in Slots /\ SlotSound(h) /\ handler[h].pc = "send" /\ e \in EventIds /\ RowTrue(e) /\ RowSound(e)
  BY DEF BusInv, Tallies, SlotClaim, BeginSend
<1>1. UNCHANGED <<event, begun, sends, told>>
  BY DEF BeginSend
<1>2. handler[h].mode \in {"handled", "fallback"}
  BY <1>0 DEF SlotSound, Speaking
<1>3. CASE receipt[e] = "none"
  <2> DEFINE s == [handler[h] EXCEPT !.pc = "transmit"]
  <2>1. receipt' = [receipt EXCEPT ![e] = "started"] /\ handler' = [handler EXCEPT ![h] = s]
    BY <1>3 DEF BeginSend, Go
  <2>2. s \in Slots /\ s.pc = "transmit" /\ s.event = e /\ s.claim = handler[h].claim
        /\ s.mode = handler[h].mode /\ s.reply = handler[h].reply
    BY <1>0, SlotEdits DEF HandlerSteps
  <2> HIDE DEF s
  <2>3. handler'[h] = s /\ receipt'[e] = "started" /\ \A d \in EventIds : d # e => receipt'[d] = receipt[d]
    BY <1>0, <2>1 DEF BusInv, Tallies
  <2>4. Tallies'
    BY <1>1, <2>1, <2>2 DEF BusInv, Tallies, Receipts
  <2>5. ASSUME NEW d \in EventIds PROVE RowSound(d)' /\ RowClaim(d)' /\ RowTrue(d)'
    <3>1. RowSound(d) /\ RowClaim(d) /\ RowTrue(d)
      BY DEF BusInv
    <3>2. receipt'[d] = receipt[d] \/ receipt'[d] = "started"
      BY <2>3
    <3>3. RowSound(d)'
      BY <1>1, <3>1, <3>2 DEF RowSound
    <3>4. RowTrue(d)'
      BY <1>1, <3>1, <3>2 DEF RowTrue, WasDelivered
    <3>5. RowClaim(d)'
      BY <1>1, <3>1 DEF RowClaim
    <3> QED BY <3>3, <3>4, <3>5
  <2>6. sends[e] = 0
    BY <1>0, <1>3 DEF RowSound
  <2>7. SlotSound(h)' /\ SlotTrue(h)'
    BY <1>0, <1>1, <2>2, <2>3, <2>6 DEF SlotSound, SlotTrue, Speaking
  <2>8. \A d \in EventIds : receipt[d] # "none" => receipt'[d] # "none"
    BY <2>3
  <2> QED BY <1>0, <1>1, <1>3, <2>1, <2>2, <2>4, <2>5, <2>7, <2>8, OneSlot
<1>4. CASE receipt[e] = "delivered"
  <2>1. told[e] /\ Go(h, "settle") /\ UNCHANGED receipt
    BY <1>0, <1>4 DEF BeginSend, RowTrue
  <2> QED BY <1>0, <1>1, <1>2, <2>1, Going DEF HandlerSteps
<1>5. CASE receipt[e] \notin {"none", "delivered"}
  <2>1. Go(h, "settleUnsent") /\ UNCHANGED receipt
    BY <1>5 DEF BeginSend
  <2> QED BY <1>0, <1>1, <1>2, <2>1, Going DEF HandlerSteps
<1> QED BY <1>3, <1>4, <1>5

LEMMA TransmitSound ==
  ASSUME BusInv, NEW h \in Handlers, Transmit(h), NEW e, e = handler[h].event
  PROVE  BusInv'
<1>0. handler[h] \in Slots /\ SlotSound(h) /\ handler[h].pc = "transmit" /\ e \in EventIds /\ RowTrue(e) /\ RowSound(e)
  BY DEF BusInv, Tallies, SlotClaim, Transmit
<1>1. UNCHANGED <<event, receipt, reports, begun>>
  BY DEF Transmit
<1>2. handler[h].mode \in {"handled", "fallback"} /\ receipt[e] # "none" /\ sends[e] = 0
  BY <1>0 DEF SlotSound, Speaking
<1>3. PICK pc \in {"markSent", "markFailed"} :
        /\ Go(h, pc)
        /\ pc = "markSent" => told' = [told EXCEPT ![e] = TRUE]
        /\ pc = "markFailed" => told' = told
  BY DEF Transmit
<1> DEFINE s == [handler[h] EXCEPT !.pc = pc]
<1>4. handler' = [handler EXCEPT ![h] = s]
  BY <1>3 DEF Go
<1>c. pc \in HandlerSteps
  BY DEF HandlerSteps
<1>5. s \in Slots /\ s.pc = pc /\ s.event = e /\ s.claim = handler[h].claim
      /\ s.mode = handler[h].mode /\ s.reply = handler[h].reply
  BY <1>0, <1>c, SlotEdits
<1> HIDE DEF s
<1>6. sends' = [sends EXCEPT ![e] = sends[e] + 1] /\ sends \in [EventIds -> Nat] /\ told \in [EventIds -> BOOLEAN]
  BY DEF Transmit, BusInv, Tallies
<1>7. sends' \in [EventIds -> Nat] /\ sends'[e] = 1
  BY <1>0, <1>2, <1>6
<1>8. \A d \in EventIds : d # e => sends'[d] = sends[d]
  BY <1>6
<1>9. /\ told' \in [EventIds -> BOOLEAN]
      /\ \A d \in EventIds : told[d] => told'[d]
      /\ pc = "markSent" => told'[e]
  BY <1>0, <1>3, <1>6
<1>10. handler'[h] = s
  BY <1>4 DEF BusInv, Tallies
<1>11. Tallies'
  BY <1>1, <1>4, <1>5, <1>7, <1>9 DEF BusInv, Tallies
<1>12. ASSUME NEW d \in EventIds PROVE RowSound(d)' /\ RowClaim(d)' /\ RowTrue(d)'
  <2>1. RowSound(d) /\ RowClaim(d) /\ RowTrue(d)
    BY DEF BusInv
  <2>2. sends'[d] \in {0, 1} /\ (receipt[d] = "none" => sends'[d] = 0)
    BY <1>2, <1>7, <1>8, <2>1 DEF RowSound
  <2>3. RowSound(d)'
    BY <1>1, <2>1, <2>2 DEF RowSound
  <2>4. RowTrue(d)'
    BY <1>1, <1>9, <2>1 DEF RowTrue, WasDelivered
  <2>5. RowClaim(d)'
    BY <1>1, <2>1 DEF RowClaim
  <2> QED BY <2>3, <2>4, <2>5
<1>13. SlotSound(h)'
  BY <1>0, <1>1, <1>2, <1>5, <1>10 DEF SlotSound, Speaking
<1>14. SlotTrue(h)'
  BY <1>3, <1>5, <1>9, <1>10 DEF SlotTrue
<1> QED BY <1>0, <1>1, <1>3, <1>4, <1>5, <1>8, <1>9, <1>11, <1>12, <1>13, <1>14, OneSlot

LEMMA MarkReceiptSound ==
  ASSUME BusInv, NEW h \in Handlers, MarkReceipt(h), NEW e, e = handler[h].event
  PROVE  BusInv'
<1>0. handler[h] \in Slots /\ SlotSound(h) /\ SlotTrue(h) /\ handler[h].pc \in {"markSent", "markFailed"} /\ e \in EventIds
  BY DEF BusInv, Tallies, SlotClaim, MarkReceipt
<1>1. UNCHANGED <<event, reports, begun, sends, told>>
  BY DEF MarkReceipt
<1>2. handler[h].mode \in {"handled", "fallback"}
  BY <1>0 DEF SlotSound, Speaking
<1> DEFINE pc == IF handler[h].pc = "markSent" THEN "settle" ELSE "settleUnsent"
           s == [handler[h] EXCEPT !.pc = pc]
<1>3. pc \in {"settle", "settleUnsent"} /\ (pc = "settle" => told[e])
  BY <1>0 DEF SlotTrue
<1>4. handler' = [handler EXCEPT ![h] = s]
  BY DEF MarkReceipt, Go
<1>a. \/ receipt' = receipt
      \/ receipt' = [receipt EXCEPT ![e] = IF receipt[e] = "started" THEN IF handler[h].pc = "markSent" THEN "delivered" ELSE "failed"
                                           ELSE receipt[e]]
  BY DEF MarkReceipt
<1>b. handler[h].pc = "markSent" => told[e]
  BY <1>0 DEF SlotTrue
<1> HIDE DEF pc
<1>c. pc \in HandlerSteps
  BY <1>3 DEF HandlerSteps
<1>5. s \in Slots /\ s.pc = pc /\ s.event = e /\ s.claim = handler[h].claim
      /\ s.mode = handler[h].mode /\ s.reply = handler[h].reply
  BY <1>0, <1>c, SlotEdits
<1> HIDE DEF s
<1>6. receipt \in [EventIds -> Receipts]
  BY DEF BusInv, Tallies
<1>7. /\ receipt' \in [EventIds -> Receipts]
      /\ \A d \in EventIds : (receipt'[d] = "none") = (receipt[d] = "none")
      /\ \A d \in EventIds : receipt'[d] = "delivered" => receipt[d] = "delivered" \/ told[d]
  BY <1>a, <1>b, <1>6 DEF Receipts
<1>10. handler'[h] = s
  BY <1>4 DEF BusInv, Tallies
<1>11. Tallies'
  BY <1>1, <1>4, <1>5, <1>7 DEF BusInv, Tallies
<1>12. ASSUME NEW d \in EventIds PROVE RowSound(d)' /\ RowClaim(d)' /\ RowTrue(d)'
  <2>1. RowSound(d) /\ RowClaim(d) /\ RowTrue(d)
    BY DEF BusInv
  <2>3. RowSound(d)'
    BY <1>1, <1>7, <2>1 DEF RowSound
  <2>4. RowTrue(d)'
    BY <1>1, <1>7, <2>1 DEF RowTrue, WasDelivered
  <2>5. RowClaim(d)'
    BY <1>1, <2>1 DEF RowClaim
  <2> QED BY <2>3, <2>4, <2>5
<1>13. SlotSound(h)'
  BY <1>0, <1>1, <1>2, <1>3, <1>5, <1>10 DEF SlotSound, Speaking
<1>14. SlotTrue(h)'
  BY <1>1, <1>3, <1>5, <1>10 DEF SlotTrue
<1> QED BY <1>0, <1>1, <1>3, <1>4, <1>5, <1>7, <1>11, <1>12, <1>13, <1>14, OneSlot

LEMMA BusStepSound == BusInv /\ [BusNext]_busVars => BusInv'
<1> SUFFICES ASSUME BusInv, [BusNext]_busVars PROVE BusInv'
  OBVIOUS
<1>1. CASE UNCHANGED busVars
  BY <1>1, ZenonT(60) DEF busVars, BusInv, Tallies, RowSound, RowClaim, RowTrue, SlotSound, SlotClaim, SlotTrue, Apart,
              WasDelivered, StillClaimed
<1>2. ASSUME NEW f \in Facts, \/ \E required \in BOOLEAN : RecordFact(f, required)
                              \/ RecordDuplicate(f)
      PROVE BusInv'
  BY <1>2, RecordFactSound, RecordDuplicateSound
<1>3. ASSUME NEW e \in EventIds, WindowCloses(e) \/ Consume(e) \/ BackoffEnds(e) \/ ClaimExpires(e)
      PROVE BusInv'
  BY <1>3, RowStepSound, DispatchSound DEF Consume
<1>4. ASSUME NEW h \in Handlers, Handle(h) \/ StepFails(h) \/ AckFails(h)
      PROVE BusInv'
  BY <1>4, QuietStepSound, BeginDecisionSound, FinalizeSkipSound, PrepareDeliverySound, BeginSendSound,
     TransmitSound, MarkReceiptSound, CompleteEventSound, RetryEventSound DEF Handle
<1>5. CASE BusStops
  BY <1>5, BusStopsSound
<1> QED BY <1>1, <1>2, <1>3, <1>4, <1>5 DEF BusNext

\* A required event is never passed over in silence, an opened one costs one model
\* turn and gives one message at most, and only what the channel confirmed is
\* recorded as delivered (EnqueueEvent, deliverOnce, FinalizeEventSkip).
THEOREM BusFaithful == BusSpec => []BusKeepsFaith
<1>1. ASSUME BusInv PROVE BusKeepsFaith
  <2>1. RequiredNeverSilenced /\ DeliveredMeansTold
    BY <1>1 DEF BusInv, RowTrue, RequiredNeverSilenced, DeliveredMeansTold
  <2>2. \A e \in EventIds : begun[e] \in {0, 1} /\ sends[e] \in {0, 1}
    BY <1>1 DEF BusInv, RowSound
  <2>3. NothingReplayed
    BY <2>2 DEF NothingReplayed
  <2> QED BY <2>1, <2>3 DEF BusKeepsFaith
<1> QED
  BY <1>1, BusInitSound, BusStepSound, PTL DEF BusSpec

--------------------------------------------------------------------------------
(* The outbox and the membership it carries *)

OutboxRows == [status : {"absent", "pending", "processing", "done", "failed"}, attempts : Nat, claim : Nat,
               ready : BOOLEAN, stale : BOOLEAN]
CourierSlots == [pc : {"idle", "begin", "transmit", "markSent", "markFailed", "complete", "giveBack"},
                 event : Updates \cup {0}, claim : Nat]
GroupRows == [found : BOOLEAN, member : BOOLEAN, last : Updates \cup {0}, marker : {"none", "on", "off"},
              listen : {"none", "on", "off"}, listenView : BOOLEAN]

OutboxTyped ==
  /\ group \in GroupRows
  /\ applied \in [effective : SUBSET Updates, times : Nat]
  /\ outbox \in [Updates -> OutboxRows]
  /\ part \in [Updates -> {"none", "started", "delivered", "failed"}]
  /\ courier \in [Gateways -> CourierSlots]
  /\ greeted \in [Updates -> [sent : Nat, confirmed : BOOLEAN]]

\* The records follow the newest update applied ...
NewestIsRecorded ==
  /\ \A u \in applied.effective : u <= group.last
  /\ group.last # 0 => group.found /\ group.last \in applied.effective
MemberAsRecorded ==
  group.last # 0 => /\ group.member = (group.last \in ActiveUpdates)
                    /\ group.marker = IF group.last \in ActiveUpdates THEN "on" ELSE "off"
ListenAgrees == group.listen # "none" => group.listenView = (group.listen = "on")

\* ... and only an activation that was applied is owed a greeting.
Owed(u) == outbox[u].status # "absent"
OwedAreApplied == \A u \in Updates : Owed(u) => u \in applied.effective /\ u \in ActiveUpdates
DeparturesBetween ==
  \A u, v \in Updates : u < v /\ Owed(u) /\ Owed(v)
    => \E w \in applied.effective \ ActiveUpdates : u < w /\ w < v

\* A greeting is sent by whoever began its part.
PartSound(u) ==
  /\ greeted[u].sent \in {0, 1}
  /\ part[u] = "none" => greeted[u].sent = 0
PartTrue(u) ==
  /\ part[u] = "delivered" => greeted[u].confirmed
  /\ outbox[u].status = "done" => greeted[u].confirmed
CourierSound(g) ==
  courier[g].pc # "idle" =>
    /\ courier[g].event \in Updates
    /\ Owed(courier[g].event)
    /\ courier[g].pc = "transmit" => part[courier[g].event] # "none" /\ greeted[courier[g].event].sent = 0
CourierTrue(g) == courier[g].pc \in {"markSent", "complete"} => greeted[courier[g].event].confirmed
OneSender ==
  \A g, h \in Gateways : courier[g].pc = "transmit" /\ courier[h].pc = "transmit"
                           /\ courier[g].event = courier[h].event => g = h

MemberInv == NewestIsRecorded /\ MemberAsRecorded /\ ListenAgrees /\ OwedAreApplied /\ DeparturesBetween
GreetInv ==
  /\ \A u \in Updates : PartSound(u) /\ PartTrue(u)
  /\ \A g \in Gateways : CourierSound(g) /\ CourierTrue(g)
  /\ OneSender
OutboxInv == OutboxTyped /\ MemberInv /\ GreetInv

LEMMA OutboxInitial == OutboxInit => OutboxInv
<1> SUFFICES ASSUME OutboxInit PROVE OutboxInv
  OBVIOUS
<1>1. OutboxTyped
  BY DEF OutboxInit, OutboxTyped, BlankOutbox, IdleCourier, OutboxRows, CourierSlots, GroupRows
<1>2. group.last = 0 /\ applied.effective = {} /\ group.listen = "none"
  BY DEF OutboxInit
<1>3. \A u \in Updates : ~Owed(u)
  BY DEF OutboxInit, BlankOutbox, Owed
<1>4. MemberInv
  BY <1>2, <1>3 DEF MemberInv, NewestIsRecorded, MemberAsRecorded, ListenAgrees, OwedAreApplied, DeparturesBetween
<1>5. GreetInv
  BY DEF OutboxInit, GreetInv, PartSound, PartTrue, CourierSound, CourierTrue, OneSender, BlankOutbox, IdleCourier
<1> QED BY <1>1, <1>4, <1>5 DEF OutboxInv

\* What the couriers and the clock do leaves the membership alone.
LEMMA MembershipUntouched ==
  ASSUME OutboxInv, UNCHANGED <<group, applied>>, \A u \in Updates : Owed(u)' <=> Owed(u)
  PROVE  MemberInv'
<1>1. NewestIsRecorded' /\ MemberAsRecorded' /\ ListenAgrees'
  BY DEF OutboxInv, MemberInv, NewestIsRecorded, MemberAsRecorded, ListenAgrees
<1>2. OwedAreApplied'
  BY DEF OutboxInv, MemberInv, OwedAreApplied
<1>3. DeparturesBetween'
  BY DEF OutboxInv, MemberInv, DeparturesBetween
<1> QED BY <1>1, <1>2, <1>3 DEF MemberInv

\* What the updates do leaves the greetings alone.
LEMMA GreetingsUntouched ==
  ASSUME OutboxInv, UNCHANGED <<part, courier, greeted>>,
         \A u \in Updates : Owed(u) => Owed(u)',
         \A u \in Updates : outbox'[u].status = "done" => outbox[u].status = "done"
  PROVE  GreetInv'
<1>1. \A u \in Updates : PartSound(u)' /\ PartTrue(u)'
  BY DEF OutboxInv, GreetInv, PartSound, PartTrue
<1>2. ASSUME NEW g \in Gateways PROVE CourierSound(g)' /\ CourierTrue(g)'
  <2>1. CourierSound(g) /\ CourierTrue(g)
    BY DEF OutboxInv, GreetInv
  <2> QED BY <2>1 DEF CourierSound, CourierTrue
<1>3. OneSender'
  BY DEF OutboxInv, GreetInv, OneSender
<1> QED BY <1>1, <1>2, <1>3 DEF GreetInv

LEMMA ObserveGroupKeeps == ASSUME OutboxInv, ObserveGroup PROVE OutboxInv'
<1>1. UNCHANGED <<applied, outbox, part, courier, greeted>>
  BY DEF ObserveGroup
<1>2. group' \in GroupRows
  BY DEF ObserveGroup, OutboxInv, OutboxTyped, GroupRows
<1>3. /\ group'.last = group.last /\ group'.marker = group.marker /\ group'.listen = group.listen
      /\ group'.found
      /\ group.found => group'.member = group.member
  BY DEF ObserveGroup, OutboxInv, OutboxTyped, GroupRows
<1>4. ListenAgrees'
  BY DEF ObserveGroup, OutboxInv, OutboxTyped, GroupRows, ListenAgrees
<1>5. NewestIsRecorded'
  BY <1>1, <1>3 DEF OutboxInv, MemberInv, NewestIsRecorded
<1>6. MemberAsRecorded'
  BY <1>1, <1>3 DEF OutboxInv, MemberInv, MemberAsRecorded, NewestIsRecorded
<1>7. OwedAreApplied' /\ DeparturesBetween'
  BY <1>1 DEF OutboxInv, MemberInv, OwedAreApplied, DeparturesBetween, Owed
<1>8. OutboxTyped'
  BY <1>1, <1>2 DEF OutboxInv, OutboxTyped
<1>9. GreetInv'
  BY <1>1, GreetingsUntouched DEF Owed
<1> QED BY <1>4, <1>5, <1>6, <1>7, <1>8, <1>9 DEF OutboxInv, MemberInv

LEMMA SetListenKeeps == ASSUME OutboxInv, NEW on \in BOOLEAN, SetListen(on) PROVE OutboxInv'
<1>1. UNCHANGED <<applied, outbox, part, courier, greeted>>
  BY DEF SetListen
<1>2. group' \in GroupRows
  BY DEF SetListen, OutboxInv, OutboxTyped, GroupRows
<1>3. /\ group'.last = group.last /\ group'.marker = group.marker
      /\ group'.found = group.found /\ group'.member = group.member
  BY DEF SetListen, OutboxInv, OutboxTyped, GroupRows
<1>4. ListenAgrees'
  BY DEF SetListen, OutboxInv, OutboxTyped, GroupRows, ListenAgrees
<1>5. NewestIsRecorded'
  BY <1>1, <1>3 DEF OutboxInv, MemberInv, NewestIsRecorded
<1>6. MemberAsRecorded'
  BY <1>1, <1>3 DEF OutboxInv, MemberInv, MemberAsRecorded
<1>7. OwedAreApplied' /\ DeparturesBetween'
  BY <1>1 DEF OutboxInv, MemberInv, OwedAreApplied, DeparturesBetween, Owed
<1>8. OutboxTyped'
  BY <1>1, <1>2 DEF OutboxInv, OutboxTyped
<1>9. GreetInv'
  BY <1>1, GreetingsUntouched DEF Owed
<1> QED BY <1>4, <1>5, <1>6, <1>7, <1>8, <1>9 DEF OutboxInv, MemberInv

LEMMA ApplyMembershipKeeps == ASSUME OutboxInv, NEW u \in Updates, ApplyMembership(u) PROVE OutboxInv'
<1> DEFINE active == u \in ActiveUpdates
           became == active /\ ~WasMember
           listening == active /\ (became \/ IF group.listen = "none" THEN group.listenView
                                             ELSE group.listen = "on")
<1>0. UNCHANGED <<part, courier, greeted>>
  BY DEF ApplyMembership
<1>1. CASE Outdated(u)
  <2>1. UNCHANGED <<group, outbox>> /\ applied' = [applied EXCEPT !.times = applied.times + 1]
    BY <1>1 DEF ApplyMembership
  <2>2. applied'.effective = applied.effective /\ applied' \in [effective : SUBSET Updates, times : Nat]
    BY <2>1 DEF OutboxInv, OutboxTyped
  <2>3. OutboxTyped'
    BY <1>0, <2>1, <2>2 DEF OutboxInv, OutboxTyped
  <2>4. MemberInv'
    BY <2>1, <2>2 DEF OutboxInv, MemberInv, NewestIsRecorded, MemberAsRecorded, ListenAgrees,
                      OwedAreApplied, DeparturesBetween, Owed
  <2>5. GreetInv'
    BY <1>0, <2>1, GreetingsUntouched DEF Owed
  <2> QED BY <2>3, <2>4, <2>5 DEF OutboxInv
<1>2. CASE ~Outdated(u)
  <2>1. /\ group' = [found |-> TRUE, member |-> active, last |-> u, marker |-> IF active THEN "on" ELSE "off",
                     listen |-> IF listening THEN "on" ELSE "off", listenView |-> listening]
        /\ applied' = [effective |-> applied.effective \cup {u}, times |-> applied.times + 1]
        /\ outbox' = IF became /\ outbox[u].status = "absent"
                     THEN [outbox EXCEPT ![u].status = "pending", ![u].ready = TRUE] ELSE outbox
    BY <1>2 DEF ApplyMembership
  <2>0. listening \in BOOLEAN /\ active \in BOOLEAN
    BY DEF OutboxInv, OutboxTyped, GroupRows
  <2>2. group' \in GroupRows
    <3>1. /\ (IF active THEN "on" ELSE "off") \in {"none", "on", "off"}
          /\ (IF listening THEN "on" ELSE "off") \in {"none", "on", "off"}
      OBVIOUS
    <3> HIDE DEF active, listening
    <3> QED BY <2>0, <2>1, <3>1 DEF GroupRows
  <2>3. group'.last = u /\ group'.found /\ (group'.listenView = (group'.listen = "on"))
    <3> HIDE DEF active, listening
    <3> QED BY <2>0, <2>1
  <2>4. MemberAsRecorded' /\ ListenAgrees'
    BY <2>1, <2>3 DEF MemberAsRecorded, ListenAgrees
  <2>5. applied'.effective = applied.effective \cup {u} /\ applied' \in [effective : SUBSET Updates, times : Nat]
    BY <2>1 DEF OutboxInv, OutboxTyped
  <2>6. group.last <= u /\ group.last \in Nat /\ u \in Nat /\ u # 0
    <3>1. group.last \in Nat /\ u \in Nat /\ u # 0
      BY OutboxAssumption DEF OutboxInv, OutboxTyped, GroupRows, Updates
    <3>2. group.found => ~(group.last > u)
      BY <1>2 DEF Outdated
    <3>3. ~group.found => group.last = 0
      BY DEF OutboxInv, MemberInv, NewestIsRecorded
    <3> QED BY <3>1, <3>2, <3>3
  <2>7. \A v \in applied.effective : v <= group.last /\ v \in Nat /\ v # 0
    BY OutboxAssumption DEF OutboxInv, MemberInv, NewestIsRecorded, OutboxTyped, Updates
  <2>8. NewestIsRecorded'
    <3>1. \A v \in applied'.effective : v <= u
      BY <2>5, <2>6, <2>7
    <3> QED BY <2>3, <2>5, <3>1 DEF NewestIsRecorded
  <2> DEFINE r == [outbox[u] EXCEPT !.status = "pending", !.ready = TRUE]
  <2>a. outbox \in [Updates -> OutboxRows] /\ outbox[u] \in OutboxRows
    BY DEF OutboxInv, OutboxTyped
  <2>b. r \in OutboxRows /\ r.status = "pending"
    BY <2>a DEF OutboxRows
  <2>c. \/ outbox' = outbox
        \/ became /\ outbox[u].status = "absent" /\ outbox' = [outbox EXCEPT ![u] = r]
    BY <2>1, <2>a
  <2> HIDE DEF r, became
  <2>9. outbox' \in [Updates -> OutboxRows]
    BY <2>a, <2>b, <2>c
  <2>10. OutboxTyped'
    BY <1>0, <2>2, <2>5, <2>9 DEF OutboxInv, OutboxTyped
  <2>11. \A v \in Updates : v # u => outbox'[v] = outbox[v]
    BY <2>a, <2>c
  <2>12. \/ outbox'[u].status = outbox[u].status
         \/ outbox[u].status = "absent" /\ outbox'[u].status = "pending" /\ became
    <3>1. CASE outbox' = outbox
      BY <3>1
    <3>2. CASE became /\ outbox[u].status = "absent" /\ outbox' = [outbox EXCEPT ![u] = r]
      <4>1. outbox'[u] = r
        BY <2>a, <3>2
      <4> QED BY <2>b, <3>2, <4>1
    <3> QED BY <2>c, <3>1, <3>2
  <2> HIDE DEF active, became, listening
  <2>13. GreetInv'
    BY <1>0, <2>11, <2>12, GreetingsUntouched DEF Owed
  <2>14. OwedAreApplied'
    <3>1. became => u \in ActiveUpdates
      BY DEF became, active
    <3> QED BY <2>5, <2>11, <2>12, <3>1 DEF OutboxInv, MemberInv, OwedAreApplied, Owed
  <2>15. ASSUME ~Owed(u), Owed(u)', NEW v \in Updates, Owed(v)
         PROVE  v < u /\ group.last \in applied.effective \ ActiveUpdates /\ v < group.last /\ group.last < u
    <3>1. became
      BY <2>12, <2>15 DEF Owed
    <3>2. v \in applied.effective /\ v \in ActiveUpdates
      BY <2>15 DEF OutboxInv, MemberInv, OwedAreApplied
    <3>3. group.last # 0
      BY <2>6, <2>7, <3>2
    <3>4. group.last \in applied.effective /\ group.marker = IF group.last \in ActiveUpdates THEN "on" ELSE "off"
      BY <3>3 DEF OutboxInv, MemberInv, NewestIsRecorded, MemberAsRecorded
    <3>5. group.last \notin ActiveUpdates /\ u \in ActiveUpdates
      BY <3>1, <3>4 DEF became, active, WasMember
    <3>6. v <= group.last /\ v # group.last /\ group.last # u /\ v \in Nat
      BY <2>7, <3>2, <3>5
    <3> QED BY <2>6, <3>4, <3>5, <3>6
  <2>16. DeparturesBetween'
    <3> SUFFICES ASSUME NEW x \in Updates, NEW y \in Updates, x < y, Owed(x)', Owed(y)'
                 PROVE  \E w \in applied'.effective \ ActiveUpdates : x < w /\ w < y
      BY DEF DeparturesBetween
    <3>0. x \in Nat /\ y \in Nat
      BY OutboxAssumption DEF Updates
    <3>1. CASE Owed(x) /\ Owed(y)
      BY <2>5, <3>1 DEF OutboxInv, MemberInv, DeparturesBetween
    <3>2. CASE ~Owed(y)
      <4>1. y = u /\ Owed(x)
        BY <2>11, <3>2, <3>0 DEF Owed
      <4> QED BY <2>5, <2>15, <3>2, <4>1
    <3>3. CASE ~Owed(x) /\ Owed(y)
      <4>1. x = u
        BY <2>11, <3>3 DEF Owed
      <4>2. y < x
        BY <2>15, <3>3, <4>1
      <4> QED BY <3>0, <4>2
    <3> QED BY <3>1, <3>2, <3>3
  <2> QED BY <2>4, <2>8, <2>10, <2>13, <2>14, <2>16 DEF OutboxInv, MemberInv
<1> QED BY <1>1, <1>2

\* The leases: a row keeps whether it is owed, and none becomes done.
LEMMA LeaseStepKeeps ==
  ASSUME OutboxInv, NEW u \in Updates,
         ExhaustOutbox(u) \/ OutboxWaits(u) \/ OutboxLeaseEnds(u)
  PROVE  OutboxInv'
<1>1. UNCHANGED <<group, applied, part, courier, greeted>>
  BY DEF ExhaustOutbox, OutboxWaits, OutboxLeaseEnds
<1>2. outbox \in [Updates -> OutboxRows] /\ outbox[u] \in OutboxRows
  BY DEF OutboxInv, OutboxTyped
<1>3. PICK r \in OutboxRows : /\ outbox' = [outbox EXCEPT ![u] = r]
                              /\ r.status \in {outbox[u].status, "failed"}
                              /\ outbox[u].status # "absent"
  <2>1. CASE ExhaustOutbox(u)
    <3> DEFINE r == [outbox[u] EXCEPT !.status = "failed", !.stale = FALSE]
    <3>1. outbox' = [outbox EXCEPT ![u] = r] /\ outbox[u].status # "absent"
      BY <1>2, <2>1 DEF ExhaustOutbox, OutboxDue
    <3>2. r \in OutboxRows /\ r.status = "failed"
      BY <1>2 DEF OutboxRows
    <3> QED BY <3>1, <3>2
  <2>2. CASE OutboxWaits(u)
    <3> DEFINE r == [outbox[u] EXCEPT !.ready = TRUE]
    <3>1. outbox' = [outbox EXCEPT ![u] = r] /\ outbox[u].status # "absent"
      BY <1>2, <2>2 DEF OutboxWaits
    <3>2. r \in OutboxRows /\ r.status = outbox[u].status
      BY <1>2 DEF OutboxRows
    <3> QED BY <3>1, <3>2
  <2>3. CASE OutboxLeaseEnds(u)
    <3> DEFINE r == [outbox[u] EXCEPT !.stale = TRUE]
    <3>1. outbox' = [outbox EXCEPT ![u] = r] /\ outbox[u].status # "absent"
      BY <1>2, <2>3 DEF OutboxLeaseEnds
    <3>2. r \in OutboxRows /\ r.status = outbox[u].status
      BY <1>2 DEF OutboxRows
    <3> QED BY <3>1, <3>2
  <2> QED BY <2>1, <2>2, <2>3
<1>4. \A v \in Updates : /\ Owed(v)' <=> Owed(v)
                         /\ outbox'[v].status = "done" => outbox[v].status = "done"
  BY <1>2, <1>3 DEF Owed
<1>5. OutboxTyped'
  BY <1>1, <1>2, <1>3 DEF OutboxInv, OutboxTyped
<1>6. MemberInv'
  BY <1>1, <1>4, MembershipUntouched
<1>7. GreetInv'
  BY <1>1, <1>4, GreetingsUntouched
<1> QED BY <1>5, <1>6, <1>7 DEF OutboxInv

\* A courier's step: what it finds and leaves.
LEMMA OneCourier ==
  ASSUME OutboxInv, NEW g \in Gateways, NEW s \in CourierSlots,
         courier' = [courier EXCEPT ![g] = s], OutboxTyped',
         UNCHANGED <<group, applied>>,
         \A u \in Updates : Owed(u)' <=> Owed(u),
         \A u \in Updates : PartSound(u)' /\ PartTrue(u)',
         \A u \in Updates : part[u] # "none" => part'[u] # "none",
         \A u \in Updates : greeted[u].confirmed => greeted'[u].confirmed,
         \A u \in Updates : \/ greeted'[u].sent = greeted[u].sent
                            \/ courier[g].pc = "transmit" /\ u = courier[g].event,
         s.pc = "transmit" => part[s.event] = "none",
         CourierSound(g)', CourierTrue(g)'
  PROVE  OutboxInv'
<1>1. courier'[g] = s /\ \A h \in Gateways : h # g => courier'[h] = courier[h]
  BY DEF OutboxInv, OutboxTyped
<1>2. ASSUME NEW h \in Gateways, h # g PROVE CourierSound(h)' /\ CourierTrue(h)'
  <2>1. courier'[h] = courier[h] /\ CourierSound(h) /\ CourierTrue(h)
    BY <1>1, <1>2 DEF OutboxInv, GreetInv
  <2>2. courier[h].pc = "transmit" => greeted'[courier[h].event].sent = greeted[courier[h].event].sent
    BY <1>2, <2>1 DEF OutboxInv, GreetInv, OneSender, CourierSound
  <2>3. CourierSound(h)'
    BY <2>1, <2>2 DEF CourierSound
  <2>4. CourierTrue(h)'
    BY <2>1 DEF CourierTrue, CourierSound
  <2> QED BY <2>3, <2>4
<1>3. ASSUME NEW h \in Gateways, h # g, courier'[h].pc = "transmit", courier'[g].pc = "transmit",
             courier'[h].event = courier'[g].event
      PROVE  FALSE
  <2>1. courier'[h] = courier[h] /\ CourierSound(h)
    BY <1>1, <1>3 DEF OutboxInv, GreetInv
  <2> QED BY <1>1, <1>3, <2>1 DEF CourierSound
<1>4. OneSender'
  BY <1>1, <1>3 DEF OutboxInv, GreetInv, OneSender
<1>5. GreetInv'
  BY <1>2, <1>4 DEF GreetInv
<1>6. MemberInv'
  BY MembershipUntouched
<1> QED BY <1>5, <1>6 DEF OutboxInv

LEMMA CourierFields ==
  ASSUME NEW t \in CourierSlots,
         NEW pc \in {"idle", "begin", "transmit", "markSent", "markFailed", "complete", "giveBack"}
  PROVE  /\ [t EXCEPT !.pc = pc] \in CourierSlots
         /\ [t EXCEPT !.pc = pc].pc = pc
         /\ [t EXCEPT !.pc = pc].event = t.event
         /\ IdleCourier \in CourierSlots /\ IdleCourier.pc = "idle"
  BY DEF CourierSlots, IdleCourier

LEMMA ClaimOutboxKeeps == ASSUME OutboxInv, NEW g \in Gateways, NEW u \in Updates, ClaimOutbox(g, u) PROVE OutboxInv'
<1> DEFINE n == outbox[u].attempts + 1
           r == [outbox[u] EXCEPT !.status = "processing", !.attempts = n, !.claim = n, !.stale = FALSE]
           s == [pc |-> "begin", event |-> u, claim |-> n]
<1>1. UNCHANGED <<group, applied, part, greeted>>
  BY DEF ClaimOutbox
<1>2. outbox \in [Updates -> OutboxRows] /\ outbox[u] \in OutboxRows
  BY DEF OutboxInv, OutboxTyped
<1>3. outbox' = [outbox EXCEPT ![u] = r] /\ courier' = [courier EXCEPT ![g] = s] /\ outbox[u].status # "absent"
  BY <1>2 DEF ClaimOutbox, OutboxDue
<1>4. n \in Nat
  BY <1>2 DEF OutboxRows
<1>5. r \in OutboxRows /\ r.status = "processing"
  BY <1>2, <1>4 DEF OutboxRows
<1>6. s \in CourierSlots /\ s.pc = "begin" /\ s.event = u
  BY <1>4 DEF CourierSlots
<1> HIDE DEF r, s
<1>7. OutboxTyped'
  BY <1>1, <1>2, <1>3, <1>5, <1>6 DEF OutboxInv, OutboxTyped
<1>8. \A v \in Updates : /\ Owed(v)' <=> Owed(v)
                         /\ outbox'[v].status = "done" => outbox[v].status = "done"
  BY <1>2, <1>3, <1>5 DEF Owed
<1>9. \A v \in Updates : PartSound(v)' /\ PartTrue(v)'
  BY <1>1, <1>8 DEF OutboxInv, GreetInv, PartSound, PartTrue
<1>10. courier'[g] = s
  BY <1>3 DEF OutboxInv, OutboxTyped
<1>11. CourierSound(g)' /\ CourierTrue(g)'
  BY <1>3, <1>6, <1>8, <1>10 DEF CourierSound, CourierTrue, Owed
<1> QED BY <1>1, <1>3, <1>6, <1>7, <1>8, <1>9, <1>11, OneCourier

LEMMA BeginPartKeeps == ASSUME OutboxInv, NEW g \in Gateways, BeginPart(g), NEW u, u = courier[g].event PROVE OutboxInv'
<1>1. UNCHANGED <<group, applied, outbox, greeted>>
  BY DEF BeginPart
<1>2. courier \in [Gateways -> CourierSlots] /\ courier[g] \in CourierSlots /\ CourierSound(g) /\ courier[g].pc = "begin"
  BY DEF BeginPart, OutboxInv, OutboxTyped, GreetInv
<1>3. u \in Updates /\ Owed(u) /\ PartSound(u) /\ PartTrue(u)
  BY <1>2 DEF CourierSound, OutboxInv, GreetInv
<1>4. \A v \in Updates : Owed(v)' <=> Owed(v)
  BY <1>1 DEF Owed
<1>5. PICK pc \in {"transmit", "complete", "giveBack"} :
        /\ CourierGoes(g, pc)
        /\ pc = "transmit" => part[u] = "none" /\ part' = [part EXCEPT ![u] = "started"]
        /\ pc # "transmit" => part' = part
        /\ pc = "complete" => part[u] = "delivered"
  BY DEF BeginPart
<1> DEFINE s == [courier[g] EXCEPT !.pc = pc]
<1>6. courier' = [courier EXCEPT ![g] = s]
  BY <1>2, <1>5 DEF CourierGoes
<1>b. pc \in {"idle", "begin", "transmit", "markSent", "markFailed", "complete", "giveBack"}
  BY <1>5
<1>7. s \in CourierSlots /\ s.pc = pc /\ s.event = u
  BY <1>2, <1>b, CourierFields
<1> HIDE DEF s
<1>8. part' \in [Updates -> {"none", "started", "delivered", "failed"}]
  BY <1>5 DEF OutboxInv, OutboxTyped
<1>9. /\ \A v \in Updates : part'[v] \in {part[v], "started"}
      /\ pc = "transmit" => part'[u] = "started"
  BY <1>3, <1>5 DEF OutboxInv, OutboxTyped
<1>10. OutboxTyped'
  BY <1>1, <1>6, <1>7, <1>8 DEF OutboxInv, OutboxTyped
<1>11. ASSUME NEW v \in Updates PROVE PartSound(v)' /\ PartTrue(v)'
  <2>1. PartSound(v) /\ PartTrue(v) /\ (part'[v] = part[v] \/ part'[v] = "started")
    BY <1>9 DEF OutboxInv, GreetInv
  <2> QED BY <1>1, <2>1 DEF PartSound, PartTrue
<1>12. courier'[g] = s
  BY <1>6 DEF OutboxInv, OutboxTyped
<1>13. part[u] = "none" => greeted[u].sent = 0
  BY <1>3 DEF PartSound
<1>14. CourierSound(g)'
  BY <1>1, <1>3, <1>4, <1>5, <1>7, <1>9, <1>12, <1>13 DEF CourierSound
<1>15. CourierTrue(g)'
  BY <1>1, <1>3, <1>5, <1>7, <1>12 DEF CourierTrue, PartTrue
<1>16. \A v \in Updates : part[v] # "none" => part'[v] # "none"
  BY <1>9
<1> QED BY <1>1, <1>4, <1>5, <1>6, <1>7, <1>10, <1>11, <1>14, <1>15, <1>16, OneCourier

LEMMA TransmitPartKeeps == ASSUME OutboxInv, NEW g \in Gateways, TransmitPart(g), NEW u, u = courier[g].event PROVE OutboxInv'
<1>1. UNCHANGED <<group, applied, outbox, part>>
  BY DEF TransmitPart
<1>2. courier \in [Gateways -> CourierSlots] /\ courier[g] \in CourierSlots /\ CourierSound(g) /\ courier[g].pc = "transmit"
  BY DEF TransmitPart, OutboxInv, OutboxTyped, GreetInv
<1>3. u \in Updates /\ Owed(u) /\ PartSound(u) /\ PartTrue(u) /\ part[u] # "none" /\ greeted[u].sent = 0
  BY <1>2 DEF CourierSound, OutboxInv, GreetInv
<1>4. \A v \in Updates : Owed(v)' <=> Owed(v)
  BY <1>1 DEF Owed
<1>a. greeted \in [Updates -> [sent : Nat, confirmed : BOOLEAN]]
  BY DEF OutboxInv, OutboxTyped
<1>5. PICK pc \in {"markSent", "markFailed"}, r \in [sent : Nat, confirmed : BOOLEAN] :
        /\ CourierGoes(g, pc)
        /\ greeted' = [greeted EXCEPT ![u] = r]
        /\ r.sent = greeted[u].sent + 1
        /\ greeted[u].confirmed => r.confirmed
        /\ pc = "markSent" => r.confirmed
  <2>1. CASE greeted' = [greeted EXCEPT ![u] = [sent |-> greeted[u].sent + 1, confirmed |-> TRUE]] /\ CourierGoes(g, "markSent")
    <3> DEFINE r == [sent |-> greeted[u].sent + 1, confirmed |-> TRUE]
    <3>1. r \in [sent : Nat, confirmed : BOOLEAN]
      BY <1>3, <1>a
    <3>2. r.sent = greeted[u].sent + 1 /\ r.confirmed /\ greeted' = [greeted EXCEPT ![u] = r]
      BY <2>1
    <3> HIDE DEF r
    <3> QED BY <2>1, <3>1, <3>2
  <2>2. CASE greeted' = [greeted EXCEPT ![u].sent = greeted[u].sent + 1] /\ CourierGoes(g, "markFailed")
    <3> DEFINE r == [greeted[u] EXCEPT !.sent = greeted[u].sent + 1]
    <3>1. r \in [sent : Nat, confirmed : BOOLEAN] /\ r.sent = greeted[u].sent + 1
      BY <1>3, <1>a
    <3>2. (greeted[u].confirmed => r.confirmed) /\ greeted' = [greeted EXCEPT ![u] = r]
      BY <1>3, <1>a, <2>2
    <3> HIDE DEF r
    <3> QED BY <2>2, <3>1, <3>2
  <2> QED BY <2>1, <2>2 DEF TransmitPart
<1> DEFINE s == [courier[g] EXCEPT !.pc = pc]
<1>6. courier' = [courier EXCEPT ![g] = s]
  BY <1>2, <1>5 DEF CourierGoes
<1>b. pc \in {"idle", "begin", "transmit", "markSent", "markFailed", "complete", "giveBack"}
  BY <1>5
<1>7. s \in CourierSlots /\ s.pc = pc /\ s.event = u
  BY <1>2, <1>b, CourierFields, ZenonT(60)
<1> HIDE DEF s
<1>8. greeted'[u] = r /\ \A v \in Updates : v # u => greeted'[v] = greeted[v]
  BY <1>3, <1>5, <1>a
<1>9. greeted'[u].sent = 1
  BY <1>3, <1>5, <1>8
<1>10. OutboxTyped'
  BY <1>1, <1>5, <1>6, <1>7, <1>a DEF OutboxInv, OutboxTyped
<1>16. /\ \A v \in Updates : greeted[v].confirmed => greeted'[v].confirmed
       /\ pc = "markSent" => greeted'[u].confirmed
  BY <1>5, <1>8
<1>11. ASSUME NEW v \in Updates PROVE PartSound(v)' /\ PartTrue(v)'
  <2>1. PartSound(v) /\ PartTrue(v)
    BY DEF OutboxInv, GreetInv
  <2>2. PartSound(v)'
    BY <1>1, <1>3, <1>8, <1>9, <2>1 DEF PartSound
  <2>3. PartTrue(v)'
    BY <1>1, <1>16, <2>1 DEF PartTrue
  <2> QED BY <2>2, <2>3
<1>12. courier'[g] = s
  BY <1>6 DEF OutboxInv, OutboxTyped
<1>14. CourierSound(g)'
  BY <1>3, <1>4, <1>5, <1>7, <1>12 DEF CourierSound
<1>15. CourierTrue(g)'
  BY <1>5, <1>7, <1>12, <1>16 DEF CourierTrue
<1>17. \A v \in Updates : greeted'[v].sent = greeted[v].sent \/ v = courier[g].event
  BY <1>8
<1> QED BY <1>1, <1>2, <1>4, <1>5, <1>6, <1>7, <1>10, <1>11, <1>14, <1>15, <1>16, <1>17, OneCourier

LEMMA MarkPartKeeps == ASSUME OutboxInv, NEW g \in Gateways, MarkPart(g), NEW u, u = courier[g].event PROVE OutboxInv'
<1>1. UNCHANGED <<group, applied, outbox, greeted>>
  BY DEF MarkPart
<1>2. courier \in [Gateways -> CourierSlots] /\ courier[g] \in CourierSlots /\ CourierSound(g) /\ CourierTrue(g)
      /\ courier[g].pc \in {"markSent", "markFailed"} /\ part[u] = "started"
  BY DEF MarkPart, OutboxInv, OutboxTyped, GreetInv
<1>3. u \in Updates /\ Owed(u) /\ (courier[g].pc = "markSent" => greeted[u].confirmed)
  BY <1>2 DEF CourierSound, CourierTrue
<1>4. \A v \in Updates : Owed(v)' <=> Owed(v)
  BY <1>1 DEF Owed
<1>5. PICK pc \in {"complete", "giveBack"} : CourierGoes(g, pc) /\ (pc = "complete" => courier[g].pc = "markSent")
  BY DEF MarkPart
<1>8. PICK p \in {"started", "delivered", "failed"} :
        part' = [part EXCEPT ![u] = p] /\ (p = "delivered" => courier[g].pc = "markSent")
  BY <1>2, <1>3 DEF MarkPart, OutboxInv, OutboxTyped
<1> DEFINE s == [courier[g] EXCEPT !.pc = pc]
<1>6. courier' = [courier EXCEPT ![g] = s]
  BY <1>2, <1>5 DEF CourierGoes
<1>b. pc \in {"idle", "begin", "transmit", "markSent", "markFailed", "complete", "giveBack"}
  BY <1>5
<1>7. s \in CourierSlots /\ s.pc = pc /\ s.event = u
  BY <1>2, <1>b, CourierFields, ZenonT(60)
<1> HIDE DEF s
<1>9. part'[u] = p /\ \A v \in Updates : v # u => part'[v] = part[v]
  BY <1>3, <1>8 DEF OutboxInv, OutboxTyped
<1>10. OutboxTyped'
  BY <1>1, <1>6, <1>7, <1>8 DEF OutboxInv, OutboxTyped
<1>11. ASSUME NEW v \in Updates PROVE PartSound(v)' /\ PartTrue(v)'
  <2>1. PartSound(v) /\ PartTrue(v)
    BY DEF OutboxInv, GreetInv
  <2>2. PartSound(v)'
    BY <1>1, <1>9, <2>1 DEF PartSound
  <2>3. PartTrue(v)'
    BY <1>1, <1>3, <1>8, <1>9, <2>1 DEF PartTrue
  <2> QED BY <2>2, <2>3
<1>12. courier'[g] = s
  BY <1>6 DEF OutboxInv, OutboxTyped
<1>14. CourierSound(g)'
  BY <1>3, <1>4, <1>5, <1>7, <1>12 DEF CourierSound
<1>15. CourierTrue(g)'
  BY <1>1, <1>3, <1>5, <1>7, <1>12 DEF CourierTrue
<1>16. \A v \in Updates : part[v] # "none" => part'[v] # "none"
  BY <1>2, <1>8, <1>9
<1> QED BY <1>1, <1>4, <1>5, <1>6, <1>7, <1>10, <1>11, <1>14, <1>15, <1>16, OneCourier

LEMMA MembershipLeavingKeeps ==
  ASSUME OutboxInv, NEW g \in Gateways, SettleOutbox(g) \/ GatewayStops(g), NEW u, u = courier[g].event
  PROVE  OutboxInv'
<1>1. UNCHANGED <<group, applied, part, greeted>>
  BY DEF SettleOutbox, GatewayStops
<1>2. CourierSound(g) /\ CourierTrue(g) /\ courier[g].pc # "idle" /\ courier' = [courier EXCEPT ![g] = IdleCourier]
  BY DEF SettleOutbox, GatewayStops, OutboxInv, GreetInv
<1>3. u \in Updates /\ Owed(u) /\ (courier[g].pc = "complete" => greeted[u].confirmed)
  BY <1>2 DEF CourierSound, CourierTrue
<1>4. outbox \in [Updates -> OutboxRows] /\ outbox[u] \in OutboxRows
  BY <1>3 DEF OutboxInv, OutboxTyped
<1>5. \/ outbox' = outbox
      \/ \E r \in OutboxRows : /\ outbox' = [outbox EXCEPT ![u] = r]
                               /\ r.status = IF courier[g].pc = "complete" THEN "done" ELSE "pending"
  <2>1. CASE outbox' = [outbox EXCEPT ![u].status = IF courier[g].pc = "complete" THEN "done" ELSE "pending",
                                    ![u].ready = FALSE, ![u].stale = FALSE]
    <3> DEFINE st == IF courier[g].pc = "complete" THEN "done" ELSE "pending"
               r == [outbox[u] EXCEPT !.status = st, !.ready = FALSE, !.stale = FALSE]
    <3>1. outbox' = [outbox EXCEPT ![u] = r]
      BY <1>4, <2>1
    <3>2. st \in {"done", "pending"}
      OBVIOUS
    <3> HIDE DEF st
    <3>3. r \in OutboxRows /\ r.status = st
      BY <1>4, <3>2 DEF OutboxRows
    <3> HIDE DEF r
    <3> QED BY <3>1, <3>3 DEF st
  <2> QED BY <2>1 DEF SettleOutbox, GatewayStops
<1>6. /\ outbox' \in [Updates -> OutboxRows]
      /\ \A v \in Updates : v # u => outbox'[v] = outbox[v]
      /\ \/ outbox'[u] = outbox[u]
         \/ outbox'[u].status = IF courier[g].pc = "complete" THEN "done" ELSE "pending"
  BY <1>3, <1>4, <1>5
<1>7. \A v \in Updates : Owed(v)' <=> Owed(v)
  BY <1>3, <1>6 DEF Owed
<1>8. IdleCourier \in CourierSlots /\ IdleCourier.pc = "idle"
  BY DEF CourierSlots, IdleCourier
<1>9. OutboxTyped'
  BY <1>1, <1>2, <1>6, <1>8 DEF OutboxInv, OutboxTyped
<1>10. courier'[g] = IdleCourier
  BY <1>2 DEF OutboxInv, OutboxTyped
<1>11. ASSUME NEW v \in Updates PROVE PartSound(v)' /\ PartTrue(v)'
  <2>1. PartSound(v) /\ PartTrue(v)
    BY DEF OutboxInv, GreetInv
  <2>2. PartSound(v)'
    BY <1>1, <2>1 DEF PartSound
  <2>3. PartTrue(v)'
    BY <1>1, <1>3, <1>6, <2>1 DEF PartTrue
  <2> QED BY <2>2, <2>3
<1>12. CourierSound(g)' /\ CourierTrue(g)'
  BY <1>8, <1>10 DEF CourierSound, CourierTrue
<1> QED BY <1>1, <1>2, <1>7, <1>8, <1>9, <1>11, <1>12, OneCourier

\* The newest membership update wins, two greetings have a departure between them,
\* and each goes out once, and counts as done only if it was confirmed
\* (ApplyTelegramBotMembershipUpdate, deliverTelegramPartOnce).
THEOREM MembershipSafe == OutboxSpec => []MembershipHolds
<1>1. ASSUME OutboxInv PROVE MembershipHolds
  <2>1. GroupFollowsNewest
    <3>1. group.last \in Nat
      BY <1>1, OutboxAssumption DEF OutboxInv, OutboxTyped, GroupRows, Updates
    <3> QED BY <1>1, <3>1 DEF OutboxInv, MemberInv, NewestIsRecorded, MemberAsRecorded, ListenAgrees, GroupFollowsNewest
  <2>2. GreetingsNeedDepartures
    BY <1>1 DEF OutboxInv, MemberInv, DeparturesBetween, Owed, GreetingsNeedDepartures
  <2>3. \A u \in Updates : greeted[u].sent \in {0, 1}
    BY <1>1 DEF OutboxInv, GreetInv, PartSound
  <2>4. \A u \in Updates : greeted[u].sent <= 1
    BY <2>3
  <2>5. \A u \in Updates : outbox[u].status = "done" => greeted[u].confirmed
    BY <1>1 DEF OutboxInv, GreetInv, PartTrue
  <2> QED BY <2>1, <2>2, <2>4, <2>5 DEF MembershipHolds, GreetedOnce
<1>2. ASSUME OutboxInv, [OutboxNext]_outboxVars PROVE OutboxInv'
  <2>1. CASE UNCHANGED outboxVars
    <3>1. \A u \in Updates : Owed(u)' <=> Owed(u)
      BY <2>1 DEF outboxVars, Owed
    <3>2. OutboxTyped' /\ UNCHANGED <<group, applied, part, courier, greeted, outbox>>
      BY <1>2, <2>1 DEF outboxVars, OutboxInv, OutboxTyped
    <3> QED BY <1>2, <3>1, <3>2, MembershipUntouched, GreetingsUntouched DEF OutboxInv
  <2>2. CASE OutboxNext
    BY <1>2, <2>2, ObserveGroupKeeps, SetListenKeeps, ApplyMembershipKeeps, LeaseStepKeeps, ClaimOutboxKeeps,
       BeginPartKeeps, TransmitPartKeeps, MarkPartKeeps, MembershipLeavingKeeps DEF OutboxNext, TakeUp, Deliver
  <2> QED BY <1>2, <2>1, <2>2
<1> QED
  BY <1>1, <1>2, OutboxInitial, PTL DEF OutboxSpec

--------------------------------------------------------------------------------
(* Schedules *)

ScheduleRows == [status : {"none", "active", "done", "cancelled"}, kind : {"once", "repeat", "daily"},
                 target : SUBSET People, mandatory : BOOLEAN, at : Nat \ {0}, generation : Nat, claim : Nat,
                 stale : BOOLEAN]
FirerCopies == [pc : {"idle", "fire"}, at : Nat, generation : Nat]
EditCopies  == [pc : {"none", "read"}, at : Nat]

Arrived == schedule.at <= clock
Taken   == schedule.claim # 0

PlanTyped ==
  /\ clock \in Nat /\ edits \in Nat
  /\ schedule \in ScheduleRows
  /\ firer \in [Firers -> FirerCopies]
  /\ editor \in EditCopies

\* A claim is on a schedule that is due; nobody fires one that does not exist.
PlanSound ==
  /\ Taken => schedule.status = "active" /\ Arrived
  /\ schedule.status = "none" => \A f \in Firers : firer[f].pc = "idle"
\* A copy of the present plan is a true copy.
FirerSound(f) ==
  firer[f].pc = "fire" => \/ firer[f].generation < schedule.generation
                          \/ firer[f].generation = schedule.generation /\ firer[f].at = schedule.at
EditSound == editor.pc = "read" => editor.at # 0

\* A plan ends by an instant that came or by a change: the generations of the
\* instance are enough.
DueWeight  == IF schedule.status # "none" /\ Arrived THEN 1 ELSE 0
EditWeight == IF editor.pc = "read" THEN 2 ELSE 0
GenerationsSuffice ==
  /\ schedule.generation >= 1
  /\ schedule.generation + DueWeight + EditWeight <= 1 + clock + 2 * edits
  /\ clock <= MaxInstant /\ edits <= MaxEdits

PlanInv ==
  /\ PlanTyped /\ PlanSound /\ EditSound /\ GenerationsSuffice
  /\ \A f \in Firers : FirerSound(f)

\* Only plans that are over left rows.
Closing == schedule.status \in {"done", "cancelled"}
QueueSound ==
  /\ queued \in [Generations \X People -> Nat]
  /\ \A g \in Generations, u \in People :
       queued[<<g, u>>] # NoInstant => g < schedule.generation \/ (g = schedule.generation /\ Closing)
FiredSound ==
  /\ fired \subseteq Nat \ {0}
  /\ schedule.status = "none" => fired = {} /\ schedule.generation = 1
  /\ FiredMeansQueued

SchedulesInv == PlanInv /\ QueueSound /\ FiredSound

LEMMA NextDailyFireIsLater ==
  ASSUME NEW now \in Nat
  PROVE  NextDailyFire(now) \in Nat /\ NextDailyFire(now) > now
<1> DEFINE k == Cardinality(DaysOff)
           I == now + 1 .. now + 1 + k
           Free == I \ DaysOff
           T == {now + 1 .. i : i \in Free}
<1>1. IsFiniteSet(DaysOff) /\ k \in Nat
  BY SchedulesAssumption, FS_CardinalityType
<1>2. I \subseteq Nat /\ IsFiniteSet(I) /\ Cardinality(I) = k + 1
  <2>1. now + 1 \in Int /\ now + 1 + k \in Int /\ ~(now + 1 > now + 1 + k) /\ (now + 1 + k) - (now + 1) + 1 = k + 1
    BY <1>1
  <2>2. IsFiniteSet(I) /\ Cardinality(I) = k + 1
    BY <2>1, FS_Interval
  <2> QED BY <1>1, <2>2
<1>3. Free # {}
  <2> SUFFICES ASSUME I \subseteq DaysOff PROVE FALSE
    OBVIOUS
  <2>1. Cardinality(I) <= k
    BY <1>1, FS_Subset
  <2> QED BY <1>1, <1>2, <2>1
<1>4. T \subseteq FiniteSubsetsOf(I) /\ T # {}
  <2>1. ASSUME NEW i \in Free PROVE now + 1 .. i \in FiniteSubsetsOf(I)
    <3>1. i \in Nat /\ now + 1 .. i \subseteq I
      BY <1>1, <1>2
    <3>2. IsFiniteSet(now + 1 .. i)
      BY <1>2, <3>1, FS_Subset
    <3> QED BY <3>1, <3>2 DEF FiniteSubsetsOf
  <2> QED BY <1>3, <2>1
<1>5. PICK X \in T : \A Y \in T : <<Y, X>> \notin StrictSubsetOrdering(I)
  <2> HIDE DEF T, I
  <2> QED BY <1>4, WFMin, FS_StrictSubsetOrderingWellFounded
<1>6. PICK i \in Free : X = now + 1 .. i
  OBVIOUS
<1>7. ASSUME NEW j \in now + 1 .. i - 1 PROVE j \in DaysOff
  <2> SUFFICES ASSUME j \notin DaysOff PROVE FALSE
    OBVIOUS
  <2>1. i \in Nat /\ i >= now + 1 /\ i <= now + 1 + k
    BY <1>1
  <2>2. j \in Free
    BY <1>1, <2>1
  <2>3. now + 1 .. j \in T
    BY <2>2
  <2>4. now + 1 .. j \subseteq X /\ i \in X /\ i \notin now + 1 .. j
    BY <1>6, <2>1
  <2>5. now + 1 .. j \subseteq I /\ X \subseteq I
    BY <1>1, <1>6, <2>1, <2>4
  <2>6. <<now + 1 .. j, X>> \in StrictSubsetOrdering(I)
    <3> DEFINE Y == now + 1 .. j
    <3>1. Y \subseteq X /\ Y # X /\ Y \subseteq I /\ X \subseteq I
      BY <2>4, <2>5
    <3> HIDE DEF Y, I
    <3>2. <<Y, X>> \in StrictSubsetOrdering(I)
      BY <3>1 DEF StrictSubsetOrdering
    <3> QED BY <3>2 DEF Y
  <2> QED BY <1>5, <2>3, <2>6
<1>8. NextDailyFire(now) \in I
  <2>1. \E x \in I : x \notin DaysOff /\ \A j \in now + 1 .. x - 1 : j \in DaysOff
    BY <1>6, <1>7
  <2> QED BY <2>1 DEF NextDailyFire
<1> QED BY <1>1, <1>8

LEMMA NextFireIsLater ==
  ASSUME NEW kind, NEW now \in Nat
  PROVE  NextFire(kind, now) \in Nat \ {0} /\ NextFire(kind, now) > now
<1>1. CASE kind = "daily"
  <2>1. NextFire(kind, now) = NextDailyFire(now)
    BY <1>1 DEF NextFire
  <2>2. NextDailyFire(now) \in Nat /\ NextDailyFire(now) > now
    BY NextDailyFireIsLater
  <2>3. NextDailyFire(now) # 0
    BY <2>2
  <2> QED BY <2>1, <2>2, <2>3
<1>2. CASE kind # "daily"
  <2>1. NextFire(kind, now) = now + 1
    BY <1>2 DEF NextFire
  <2> QED BY <2>1
<1> QED BY <1>1, <1>2

LEMMA UnclaimedRow ==
  ASSUME NEW r \in ScheduleRows
  PROVE  /\ Unclaimed(r) \in ScheduleRows /\ Unclaimed(r).claim = 0
         /\ Unclaimed(r).status = r.status /\ Unclaimed(r).kind = r.kind /\ Unclaimed(r).target = r.target
         /\ Unclaimed(r).at = r.at /\ Unclaimed(r).generation = r.generation
         /\ Unclaimed(r).mandatory = r.mandatory
  BY DEF ScheduleRows, Unclaimed

\* A plan that changed gets a generation of its own and no claim.
LEMMA ReplannedRow ==
  ASSUME schedule \in ScheduleRows, NEW r \in ScheduleRows, r.claim = 0, r.generation = schedule.generation
  PROVE  /\ Replanned(r) \in ScheduleRows /\ Replanned(r).claim = 0
         /\ Replanned(r).status = r.status /\ Replanned(r).target = r.target /\ Replanned(r).at = r.at
         /\ \/ Replanned(r).generation = schedule.generation + 1
            \/ Replanned(r).generation = schedule.generation /\ r.at = schedule.at
<1>1. CASE <<r.at, r.mandatory>> # <<schedule.at, schedule.mandatory>>
  <2> DEFINE g == schedule.generation + 1
             s == [r EXCEPT !.generation = g]
  <2>1. g \in Nat
    BY DEF ScheduleRows
  <2> HIDE DEF g
  <2>2. s \in ScheduleRows /\ s.status = r.status /\ s.target = r.target /\ s.at = r.at /\ s.generation = g
    BY <2>1 DEF ScheduleRows
  <2>3. Replanned(r) = Unclaimed(s)
    BY <1>1 DEF Replanned, g
  <2> HIDE DEF s
  <2> QED BY <2>2, <2>3, UnclaimedRow DEF g
<1>2. CASE <<r.at, r.mandatory>> = <<schedule.at, schedule.mandatory>>
  <2>1. Replanned(r) = r /\ r.at = schedule.at
    BY <1>2 DEF Replanned
  <2> QED BY <2>1
<1> QED BY <1>1, <1>2
LEMMA WeightsAreSmall == DueWeight \in {0, 1} /\ EditWeight \in {0, 2}
  BY DEF DueWeight, EditWeight

LEMMA SchedulesInitial == SchedulesInit => SchedulesInv
<1> SUFFICES ASSUME SchedulesInit PROVE SchedulesInv
  OBVIOUS
<1> DEFINE s == NoSchedule
<1>1. s \in ScheduleRows /\ s.status = "none" /\ s.claim = 0 /\ s.generation = 1
  BY DEF NoSchedule, ScheduleRows
<1>2. IdleFirer \in FirerCopies /\ IdleFirer.pc = "idle" /\ NoEdit \in EditCopies /\ NoEdit.pc = "none"
  BY DEF IdleFirer, FirerCopies, NoEdit, EditCopies
<1>3. schedule = s
  BY DEF SchedulesInit
<1> HIDE DEF s
<1>4. PlanTyped
  BY <1>1, <1>2, <1>3 DEF SchedulesInit, PlanTyped
<1>5. \A f \in Firers : firer[f].pc = "idle"
  BY <1>2 DEF SchedulesInit
<1>6. editor.pc = "none" /\ clock = 0 /\ edits = 0 /\ fired = {}
  BY <1>2 DEF SchedulesInit
<1>7. PlanSound
  BY <1>1, <1>3, <1>5 DEF PlanSound, Taken
<1>8. EditSound
  BY <1>6 DEF EditSound
<1>9. GenerationsSuffice
  <2>1. DueWeight = 0
    BY <1>1, <1>3 DEF DueWeight
  <2>2. EditWeight = 0
    BY <1>6 DEF EditWeight
  <2>3. MaxInstant \in Nat /\ MaxEdits \in Nat /\ schedule.generation = 1
    BY <1>1, <1>3, SchedulesAssumption
  <2> QED BY <1>6, <2>1, <2>2, <2>3 DEF GenerationsSuffice
<1>10. \A f \in Firers : FirerSound(f)
  BY <1>5 DEF FirerSound
<1>11. QueueSound
  <2>1. queued \in [Generations \X People -> Nat]
    BY DEF SchedulesInit, NoInstant
  <2>2. \A g \in Generations, u \in People : queued[<<g, u>>] = NoInstant
    BY DEF SchedulesInit
  <2> QED BY <2>1, <2>2 DEF QueueSound
<1>12. FiredSound
  <2>1. FiredMeansQueued
    BY <1>6 DEF FiredMeansQueued
  <2> QED BY <1>1, <1>3, <1>6, <2>1 DEF FiredSound
<1> QED BY <1>4, <1>7, <1>8, <1>9, <1>10, <1>11, <1>12 DEF SchedulesInv, PlanInv

--------------------------------------------------------------------------------
(* The plan *)

\* The firers after a step: as they were, gone, or with a copy of the present plan.
FirersFollow ==
  /\ firer' \in [Firers -> FirerCopies]
  /\ \A f \in Firers : \/ firer'[f] = firer[f]
                       \/ firer'[f].pc = "idle"
                       \/ firer'[f].generation = schedule.generation /\ firer'[f].at = schedule.at
  /\ schedule.status = "none" => \A f \in Firers : firer'[f] = firer[f]

LEMMA GenerationSum ==
  ASSUME NEW g \in Nat, NEW h \in Nat, NEW d \in Nat, NEW e \in Nat, NEW c \in Nat, NEW n \in Nat,
         NEW dd \in Nat, NEW ee \in Nat, NEW nn \in Nat,
         g + d + e <= 1 + c + 2 * n,
         h + dd + ee - 2 * nn <= g + d + e - 2 * n
  PROVE  h + dd + ee <= 1 + c + 2 * nn
  OBVIOUS

\* The plan stays: the schedule is claimed, let go, marked stale or closed.
LEMMA PlanStays ==
  ASSUME PlanInv, FirersFollow, clock' = clock, NEW s \in ScheduleRows, schedule' = s,
         s.at = schedule.at, s.generation = schedule.generation,
         s.status = schedule.status \/ (schedule.status = "active" /\ s.status \in {"done", "cancelled"}),
         Taken' => s.status = "active" /\ Arrived,
         editor' \in EditCopies, editor'.pc = "read" => editor'.at # 0,
         edits' \in Nat, edits' <= MaxEdits, EditWeight' - 2 * edits' <= EditWeight - 2 * edits
  PROVE  PlanInv'
<1>1. PlanTyped'
  BY DEF PlanInv, PlanTyped, FirersFollow
<1>2. Arrived' = Arrived
  BY DEF Arrived
<1>3. s.status = "none" => schedule.status = "none"
  OBVIOUS
<1>4. PlanSound'
  <2>1. schedule.status = "none" => \A f \in Firers : firer'[f].pc = "idle"
    BY DEF PlanInv, PlanSound, FirersFollow
  <2> QED BY <1>2, <1>3, <2>1 DEF PlanSound
<1>5. EditSound'
  BY DEF EditSound
<1>6. GenerationsSuffice'
  <2>1. DueWeight' = DueWeight
    <3>1. (s.status # "none") = (schedule.status # "none")
      OBVIOUS
    <3> QED BY <1>2, <3>1 DEF DueWeight
  <2>2. /\ clock \in Nat /\ edits \in Nat /\ schedule.generation \in Nat
        /\ schedule.generation >= 1
        /\ schedule.generation + DueWeight + EditWeight <= 1 + clock + 2 * edits
        /\ clock <= MaxInstant
    BY DEF PlanInv, PlanTyped, ScheduleRows, GenerationsSuffice
  <2>3. schedule'.generation = schedule.generation
    OBVIOUS
  <2>4. EditWeight \in Nat /\ DueWeight \in Nat /\ EditWeight' \in Nat
    BY DEF EditWeight, DueWeight
  <2>5. schedule'.generation + DueWeight' + EditWeight' <= 1 + clock' + 2 * edits'
    <3>1. schedule'.generation + DueWeight' + EditWeight' - 2 * edits' <= schedule.generation + DueWeight + EditWeight - 2 * edits
      <4> SUFFICES ASSUME NEW g \in Nat, NEW d \in Nat, NEW e \in Nat, NEW n \in Nat, NEW ee \in Nat, NEW nn \in Nat,
                          ee - 2 * nn <= e - 2 * n
                   PROVE  g + d + ee - 2 * nn <= g + d + e - 2 * n
        BY <2>1, <2>2, <2>3, <2>4
      <4> QED OBVIOUS
    <3> QED BY <2>1, <2>2, <2>3, <2>4, <3>1, GenerationSum
  <2> QED BY <2>2, <2>3, <2>5 DEF GenerationsSuffice
<1>7. ASSUME NEW f \in Firers PROVE FirerSound(f)'
  <2>1. FirerSound(f)
    BY DEF PlanInv
  <2> QED BY <2>1 DEF FirerSound, FirersFollow
<1> QED BY <1>1, <1>4, <1>5, <1>6, <1>7 DEF PlanInv

\* A new plan: every copy that is out is of an older one.
LEMMA PlanChanges ==
  ASSUME PlanInv, clock' = clock, NEW s \in ScheduleRows, schedule' = s, schedule.status = "active",
         s.status = "active", s.claim = 0, s.generation = schedule.generation + 1,
         firer' \in [Firers -> FirerCopies],
         \A f \in Firers : firer'[f] = firer[f] \/ firer'[f].pc = "idle",
         editor' \in EditCopies, editor'.pc = "read" => editor'.at # 0, edits' \in Nat, edits' <= MaxEdits,
         1 + DueWeight' + EditWeight' - 2 * edits' <= DueWeight + EditWeight - 2 * edits
  PROVE  PlanInv'
<1>1. PlanTyped'
  BY DEF PlanInv, PlanTyped
<1>2. PlanSound'
  BY DEF PlanSound, Taken
<1>3. EditSound'
  BY DEF EditSound
<1>4. /\ clock \in Nat /\ edits \in Nat /\ schedule.generation \in Nat
      /\ schedule.generation >= 1
      /\ schedule.generation + DueWeight + EditWeight <= 1 + clock + 2 * edits
      /\ clock <= MaxInstant
  BY DEF PlanInv, PlanTyped, ScheduleRows, GenerationsSuffice
<1>5. schedule'.generation = schedule.generation + 1
  OBVIOUS
<1>6. GenerationsSuffice'
  <2>1. EditWeight \in Nat /\ DueWeight \in Nat /\ EditWeight' \in Nat /\ DueWeight' \in Nat
    BY DEF EditWeight, DueWeight
  <2>2. schedule'.generation + DueWeight' + EditWeight' <= 1 + clock' + 2 * edits'
    <3>1. schedule'.generation + DueWeight' + EditWeight' - 2 * edits' <= schedule.generation + DueWeight + EditWeight - 2 * edits
      <4> SUFFICES ASSUME NEW g \in Nat, NEW d \in Nat, NEW e \in Nat, NEW n \in Nat, NEW dd \in Nat, NEW ee \in Nat,
                          NEW nn \in Nat, 1 + dd + ee - 2 * nn <= d + e - 2 * n
                   PROVE  (g + 1) + dd + ee - 2 * nn <= g + d + e - 2 * n
        BY <1>4, <1>5, <2>1
      <4> QED OBVIOUS
    <3> QED BY <1>4, <1>5, <2>1, <3>1, GenerationSum
  <2> QED BY <1>4, <1>5, <2>2 DEF GenerationsSuffice
<1>7. ASSUME NEW f \in Firers PROVE FirerSound(f)'
  <2>1. FirerSound(f) /\ firer[f] \in FirerCopies
    BY DEF PlanInv, PlanTyped
  <2>2. firer[f].generation \in Nat
    BY <2>1 DEF FirerCopies
  <2>3. firer[f].pc = "fire" => firer[f].generation < schedule'.generation
    <3>1. firer[f].pc = "fire" => firer[f].generation < schedule.generation \/ firer[f].generation = schedule.generation
      BY <2>1 DEF FirerSound
    <3> QED BY <1>4, <1>5, <2>2, <3>1
  <2> QED BY <2>3 DEF FirerSound
<1> QED BY <1>1, <1>2, <1>3, <1>6, <1>7 DEF PlanInv

--------------------------------------------------------------------------------
(* What the plans left behind *)

LEMMA RowsStay ==
  ASSUME PlanInv, QueueSound, FiredSound, UNCHANGED <<queued, fired>>, NEW s \in ScheduleRows, schedule' = s,
         s.generation = schedule.generation \/ s.generation = schedule.generation + 1,
         s.generation = schedule.generation => (Closing => Closing'),
         s.status # "none" \/ s = schedule,
         schedule.status # "none" => s.target = schedule.target
  PROVE  QueueSound' /\ FiredSound'
<1>1. schedule.generation \in Nat
  BY DEF PlanInv, PlanTyped, ScheduleRows
<1>2. QueueSound'
  <2>1. queued' \in [Generations \X People -> Nat]
    BY DEF QueueSound
  <2>2. ASSUME NEW g \in Generations, NEW u \in People, queued'[<<g, u>>] # NoInstant
        PROVE  g < schedule'.generation \/ (g = schedule'.generation /\ Closing')
    <3>0. g \in Int
      BY DEF Generations
    <3>1. g < schedule.generation \/ (g = schedule.generation /\ Closing)
      BY <2>2 DEF QueueSound
    <3>2. CASE s.generation = schedule.generation
      BY <3>1, <3>2
    <3>3. CASE s.generation = schedule.generation + 1
      <4>1. g < schedule.generation \/ g = schedule.generation
        BY <3>1
      <4>2. g < s.generation
        BY <1>1, <3>0, <3>3, <4>1
      <4> QED BY <4>2
    <3> QED BY <3>2, <3>3
  <2> QED BY <2>1, <2>2 DEF QueueSound
<1>3. FiredSound'
  <2>1. FiredMeansQueued'
    <3>1. CASE fired = {}
      BY <3>1 DEF FiredMeansQueued
    <3>2. CASE fired # {}
      <4>1. s.target = schedule.target
        BY <3>2 DEF FiredSound
      <4> QED BY <4>1 DEF FiredMeansQueued, FiredSound
    <3> QED BY <3>1, <3>2
  <2> QED BY <2>1 DEF FiredSound
<1> QED BY <1>2, <1>3

LEMMA FirersUnchanged ==
  ASSUME PlanInv, firer' = firer
  PROVE  FirersFollow
  BY DEF PlanInv, PlanTyped, FirersFollow

\* A firer lets go of its copy.
LEMMA FirerLeaves ==
  ASSUME PlanInv, NEW f \in Firers, firer[f].pc = "fire", firer' = [firer EXCEPT ![f] = IdleFirer]
  PROVE  /\ FirersFollow /\ firer' \in [Firers -> FirerCopies]
         /\ \A m \in Firers : firer'[m] = firer[m] \/ firer'[m].pc = "idle"
<1> DEFINE i == IdleFirer
<1>1. i \in FirerCopies /\ i.pc = "idle"
  BY DEF IdleFirer, FirerCopies
<1>2. firer' = [firer EXCEPT ![f] = i]
  OBVIOUS
<1> HIDE DEF i
<1>3. firer' \in [Firers -> FirerCopies] /\ \A m \in Firers : firer'[m] = firer[m] \/ firer'[m].pc = "idle"
  BY <1>1, <1>2 DEF PlanInv, PlanTyped
<1>4. schedule.status # "none"
  BY DEF PlanInv, PlanSound
<1> QED BY <1>3, <1>4 DEF FirersFollow

\* schedule_once and its kind: the first plan.
LEMMA StoredKeeps ==
  ASSUME SchedulesInv, NEW k \in ScheduleKinds, NEW target \in SUBSET People, NEW mandatory \in BOOLEAN,
         schedule.status = "none", Stored(k, target, mandatory), UNCHANGED <<clock, queued, firer, editor, edits, fired>>
  PROVE  SchedulesInv'
<1> DEFINE at == NextFire(k, clock)
           s == [NoSchedule EXCEPT !.status = "active", !.kind = k, !.target = target, !.mandatory = mandatory, !.at = at]
<1>1. clock \in Nat /\ schedule \in ScheduleRows /\ \A f \in Firers : firer[f].pc = "idle"
  BY DEF SchedulesInv, PlanInv, PlanTyped, PlanSound
<1>2. at \in Nat \ {0} /\ at > clock
  BY <1>1, NextFireIsLater
<1>3. k \in {"once", "repeat", "daily"} /\ schedule' = s
  BY SchedulesAssumption DEF Stored
<1> HIDE DEF at
<1>4. NoSchedule \in ScheduleRows /\ NoSchedule.claim = 0 /\ NoSchedule.generation = 1
  BY DEF NoSchedule, ScheduleRows
<1>5. s \in ScheduleRows /\ s.status = "active" /\ s.at = at /\ s.claim = 0 /\ s.generation = 1
  BY <1>2, <1>3, <1>4 DEF ScheduleRows
<1>6. schedule.generation = 1
  BY DEF SchedulesInv, FiredSound
<1> HIDE DEF s
<1>7. PlanTyped'
  BY <1>3, <1>5 DEF SchedulesInv, PlanInv, PlanTyped
<1>8. PlanSound'
  BY <1>3, <1>5 DEF PlanSound, Taken
<1>9. EditSound'
  BY DEF SchedulesInv, PlanInv, EditSound
<1>10. GenerationsSuffice'
  <2>1. ~Arrived'
    <3>1. schedule'.at = at /\ clock' = clock
      BY <1>3, <1>5
    <3> QED BY <1>1, <1>2, <3>1 DEF Arrived
  <2>2. DueWeight' = 0 /\ DueWeight = 0
    BY <2>1 DEF DueWeight
  <2>3. EditWeight' = EditWeight
    BY DEF EditWeight
  <2>4. schedule'.generation = schedule.generation
    BY <1>3, <1>5, <1>6
  <2> QED BY <2>2, <2>3, <2>4 DEF SchedulesInv, PlanInv, GenerationsSuffice
<1>11. \A f \in Firers : FirerSound(f)'
  BY <1>1 DEF FirerSound
<1>12. QueueSound' /\ FiredSound'
  <2>1. ~Closing
    BY DEF Closing
  <2> QED BY <1>3, <1>5, <1>6, <2>1, RowsStay DEF SchedulesInv
<1> QED BY <1>7, <1>8, <1>9, <1>10, <1>11, <1>12 DEF SchedulesInv, PlanInv

LEMMA CreateKeeps ==
  ASSUME SchedulesInv, NEW k \in ScheduleKinds, RemindMe(k) \/ Push(k)
  PROVE  SchedulesInv'
<1>1. schedule.status = "none" /\ UNCHANGED <<clock, queued, firer, editor, edits, fired>>
  BY DEF RemindMe, Push
<1>2. CASE RemindMe(k)
  <2>1. Stored(k, {Owner}, FALSE) /\ {Owner} \in SUBSET People
    BY <1>2, SchedulesAssumption DEF RemindMe
  <2> QED BY <1>1, <2>1, StoredKeeps
<1>3. CASE Push(k)
  <2>1. PICK target \in {{u} : u \in People} \cup {People}, mandatory \in BOOLEAN : Stored(k, target, mandatory)
    BY <1>3 DEF Push
  <2>2. target \in SUBSET People
    OBVIOUS
  <2> QED BY <1>1, <2>1, <2>2, StoredKeeps
<1> QED BY <1>2, <1>3

\* A schedule changes with no new plan.
LEMMA SamePlanKeeps ==
  ASSUME SchedulesInv, FirersFollow, UNCHANGED <<clock, queued, fired>>, NEW s \in ScheduleRows, schedule' = s,
         s.at = schedule.at, s.generation = schedule.generation, s.target = schedule.target,
         s.status = schedule.status \/ (schedule.status = "active" /\ s.status \in {"done", "cancelled"}),
         Taken' => s.status = "active" /\ Arrived,
         s.status # "none" \/ s = schedule,
         editor' \in EditCopies, editor'.pc = "read" => editor'.at # 0,
         edits' \in Nat, edits' <= MaxEdits, EditWeight' - 2 * edits' <= EditWeight - 2 * edits
  PROVE  SchedulesInv'
<1>1. PlanInv'
  BY PlanStays DEF SchedulesInv
<1>2. Closing => Closing'
  BY DEF Closing
<1>3. QueueSound' /\ FiredSound'
  BY <1>2, RowsStay DEF SchedulesInv
<1> QED BY <1>1, <1>3 DEF SchedulesInv

LEMMA NewPlanKeeps ==
  ASSUME SchedulesInv, UNCHANGED <<clock, queued, fired, firer>>, NEW s \in ScheduleRows, schedule' = s,
         schedule.status = "active", s.status = "active", s.claim = 0, s.generation = schedule.generation + 1,
         s.target = schedule.target,
         editor' \in EditCopies, editor'.pc = "read" => editor'.at # 0, edits' \in Nat, edits' <= MaxEdits,
         1 + DueWeight' + EditWeight' - 2 * edits' <= DueWeight + EditWeight - 2 * edits
  PROVE  SchedulesInv'
<1>1. firer' \in [Firers -> FirerCopies] /\ \A f \in Firers : firer'[f] = firer[f] \/ firer'[f].pc = "idle"
  BY DEF SchedulesInv, PlanInv, PlanTyped
<1>2. PlanInv'
  BY <1>1, PlanChanges DEF SchedulesInv
<1>3. schedule.generation \in Nat /\ schedule.generation + 1 # schedule.generation
  <2>1. schedule.generation \in Nat
    BY DEF SchedulesInv, PlanInv, PlanTyped, ScheduleRows
  <2> QED BY <2>1
<1>4. QueueSound' /\ FiredSound'
  <2>1. s.generation # schedule.generation
    BY <1>3
  <2> QED BY <2>1, RowsStay DEF SchedulesInv
<1> QED BY <1>2, <1>4 DEF SchedulesInv

LEMMA EditorFacts ==
  ASSUME SchedulesInv
  PROVE  /\ edits \in Nat /\ edits <= MaxEdits /\ editor \in EditCopies /\ (editor.pc = "read" => editor.at # 0)
         /\ schedule \in ScheduleRows /\ clock \in Nat
  BY DEF SchedulesInv, PlanInv, PlanTyped, EditSound, GenerationsSuffice

LEMMA OpenEditKeeps ==
  ASSUME SchedulesInv, OpenEdit
  PROVE  SchedulesInv'
<1>1. UNCHANGED <<clock, schedule, queued, firer, fired>> /\ schedule.status = "active" /\ edits' = edits + 1
      /\ edits < MaxEdits /\ editor.pc = "none"
  BY DEF OpenEdit
<1>2. schedule.at \in Nat \ {0} /\ schedule \in ScheduleRows /\ edits \in Nat
  BY EditorFacts DEF ScheduleRows
<1> DEFINE e == [pc |-> "read", at |-> schedule.at]
<1>3. e \in EditCopies /\ e.pc = "read" /\ e.at # 0
  BY <1>2 DEF EditCopies
<1>4. editor' = e
  BY DEF OpenEdit
<1> HIDE DEF e
<1>5. edits' \in Nat /\ edits' <= MaxEdits
  BY <1>1, <1>2, SchedulesAssumption
<1>6. EditWeight' - 2 * edits' <= EditWeight - 2 * edits
  <2>1. EditWeight' = 2
    BY <1>3, <1>4 DEF EditWeight
  <2>2. EditWeight = 0
    BY <1>1 DEF EditWeight
  <2> QED BY <1>1, <1>2, <2>1, <2>2
<1>7. Taken' => schedule.status = "active" /\ Arrived
  BY <1>1 DEF Taken, SchedulesInv, PlanInv, PlanSound
<1>8. FirersFollow
  BY <1>1, FirersUnchanged DEF SchedulesInv
<1> QED BY <1>1, <1>2, <1>3, <1>4, <1>5, <1>6, <1>7, <1>8, SamePlanKeeps

\* What update_schedule and the rebase have in common: the owner's change ends the plan
\* if it touches it, and is paid for by the bound of changes.
LEMMA OwnersChange ==
  ASSUME SchedulesInv, UNCHANGED <<clock, queued, firer, fired>>, schedule.status = "active",
         NEW at \in Nat \ {0}, NEW mandatory \in BOOLEAN,
         schedule' = Replanned(Unclaimed([schedule EXCEPT !.at = at, !.mandatory = mandatory])),
         editor' \in EditCopies, editor'.pc = "read" => editor'.at # 0,
         edits' \in Nat, edits' <= MaxEdits, EditWeight' - 2 * edits' <= EditWeight - 2 * edits - 2
  PROVE  SchedulesInv'
<1> DEFINE r == [schedule EXCEPT !.at = at, !.mandatory = mandatory]
           u == Unclaimed(r)
           s == Replanned(u)
<1>1. schedule \in ScheduleRows
  BY EditorFacts
<1>2. r \in ScheduleRows /\ r.status = "active" /\ r.target = schedule.target /\ r.at = at
      /\ r.generation = schedule.generation
  BY <1>1 DEF ScheduleRows
<1> HIDE DEF r
<1>3. u \in ScheduleRows /\ u.claim = 0 /\ u.status = "active" /\ u.target = schedule.target /\ u.at = at
      /\ u.generation = schedule.generation
  BY <1>2, UnclaimedRow
<1> HIDE DEF u
<1>4. /\ s \in ScheduleRows /\ s.claim = 0 /\ s.status = "active" /\ s.target = schedule.target /\ s.at = at
      /\ \/ s.generation = schedule.generation + 1
         \/ s.generation = schedule.generation /\ s.at = schedule.at
  BY <1>1, <1>3, ReplannedRow
<1>5. schedule' = s
  BY DEF r, u
<1> HIDE DEF s
<1>6. CASE s.generation = schedule.generation /\ s.at = schedule.at
  <2>1. FirersFollow
    BY FirersUnchanged DEF SchedulesInv
  <2>2. EditWeight' - 2 * edits' <= EditWeight - 2 * edits
    <3>1. EditWeight \in Nat /\ EditWeight' \in Nat /\ edits \in Nat
      BY EditorFacts DEF EditWeight
    <3> QED BY <3>1
  <2>3. ~Taken'
    BY <1>4, <1>5 DEF Taken
  <2> QED BY <1>4, <1>5, <1>6, <2>1, <2>2, <2>3, SamePlanKeeps
<1>7. CASE s.generation = schedule.generation + 1
  <2>1. 1 + DueWeight' + EditWeight' - 2 * edits' <= DueWeight + EditWeight - 2 * edits
    <3>1. EditWeight \in Nat /\ EditWeight' \in Nat /\ edits \in Nat /\ DueWeight \in Nat /\ DueWeight' \in {0, 1}
      BY EditorFacts DEF EditWeight, DueWeight
    <3> SUFFICES ASSUME NEW d \in Nat, NEW e \in Nat, NEW n \in Nat, NEW dd \in {0, 1}, NEW ee \in Nat, NEW nn \in Nat,
                        ee - 2 * nn <= e - 2 * n - 2
                 PROVE  1 + dd + ee - 2 * nn <= d + e - 2 * n
      BY <3>1
    <3> QED OBVIOUS
  <2> QED BY <1>4, <1>5, <1>7, <2>1, NewPlanKeeps
<1> QED BY <1>4, <1>6, <1>7

LEMMA SaveEditKeeps ==
  ASSUME SchedulesInv, SaveEdit
  PROVE  SchedulesInv'
<1>1. UNCHANGED <<clock, queued, firer, edits, fired>> /\ editor.pc = "read" /\ editor' = NoEdit
  BY DEF SaveEdit
<1>2. edits \in Nat /\ edits <= MaxEdits /\ editor.at # 0 /\ editor.at \in Nat /\ clock \in Nat
  BY <1>1, EditorFacts DEF EditCopies
<1>3. editor' \in EditCopies /\ editor'.pc = "none"
  BY <1>1 DEF NoEdit, EditCopies
<1>4. EditWeight = 2 /\ EditWeight' = 0
  BY <1>1, <1>3 DEF EditWeight
<1>5. edits' = edits
  BY <1>1
<1>6. CASE UNCHANGED schedule
  <2>1. FirersFollow
    BY <1>1, FirersUnchanged DEF SchedulesInv
  <2>2. EditWeight' - 2 * edits' <= EditWeight - 2 * edits
    BY <1>2, <1>4, <1>5
  <2>3. Taken' => schedule.status = "active" /\ Arrived
    BY <1>6 DEF Taken, SchedulesInv, PlanInv, PlanSound
  <2>4. schedule \in ScheduleRows /\ edits' \in Nat /\ edits' <= MaxEdits /\ (editor'.pc = "read" => editor'.at # 0)
    BY <1>2, <1>3, <1>5, EditorFacts
  <2> QED BY <1>1, <1>3, <1>6, <2>1, <2>2, <2>3, <2>4, SamePlanKeeps
<1>7. CASE schedule.status = "active" /\ \E at \in EditedInstants, mandatory \in BOOLEAN :
             schedule' = Replanned(Unclaimed([schedule EXCEPT !.at = at, !.mandatory = mandatory]))
  <2>1. PICK at \in EditedInstants, mandatory \in BOOLEAN :
             schedule' = Replanned(Unclaimed([schedule EXCEPT !.at = at, !.mandatory = mandatory]))
    BY <1>7
  <2>2. at \in Nat \ {0}
    <3>1. at = NextDailyFire(clock) \/ at = editor.at \/ at = clock + 1 \/ at = clock + 2
      BY DEF EditedInstants
    <3>2. NextDailyFire(clock) \in Nat \ {0}
      <4>1. NextDailyFire(clock) \in Nat /\ NextDailyFire(clock) > clock
        BY <1>2, NextDailyFireIsLater
      <4> QED BY <1>2, <4>1
    <3>3. clock + 1 \in Nat \ {0} /\ clock + 2 \in Nat \ {0}
      BY <1>2
    <3> QED BY <1>2, <3>1, <3>2, <3>3
  <2>3. EditWeight' - 2 * edits' <= EditWeight - 2 * edits - 2
    BY <1>2, <1>4, <1>5
  <2>4. edits' \in Nat /\ edits' <= MaxEdits /\ (editor'.pc = "read" => editor'.at # 0)
    BY <1>2, <1>3, <1>5
  <2> QED BY <1>1, <1>3, <1>7, <2>1, <2>2, <2>3, <2>4, OwnersChange
<1> QED BY <1>6, <1>7 DEF SaveEdit

LEMMA RebaseDailyKeeps ==
  ASSUME SchedulesInv, RebaseDaily
  PROVE  SchedulesInv'
<1>1. UNCHANGED <<clock, queued, firer, fired, editor>> /\ schedule.status = "active" /\ edits' = edits + 1
      /\ edits < MaxEdits
  BY DEF RebaseDaily
<1>2. edits \in Nat /\ editor \in EditCopies /\ (editor.pc = "read" => editor.at # 0) /\ clock \in Nat
      /\ schedule \in ScheduleRows
  BY EditorFacts
<1> DEFINE at == NextDailyFire(clock)
<1>3. at \in Nat \ {0}
  <2>1. at \in Nat /\ at > clock
    BY <1>2, NextDailyFireIsLater
  <2> QED BY <1>2, <2>1
<1>4. schedule' = Replanned(Unclaimed([schedule EXCEPT !.at = at]))
  BY DEF RebaseDaily
<1> HIDE DEF at
<1>5. [schedule EXCEPT !.at = at] = [schedule EXCEPT !.at = at, !.mandatory = schedule.mandatory]
      /\ schedule.mandatory \in BOOLEAN
  BY <1>2 DEF ScheduleRows
<1>6. edits' \in Nat /\ edits' <= MaxEdits
  BY <1>1, <1>2, SchedulesAssumption
<1>7. EditWeight' - 2 * edits' <= EditWeight - 2 * edits - 2
  <2>1. EditWeight' = EditWeight /\ EditWeight \in Nat
    BY <1>1 DEF EditWeight
  <2> QED BY <1>1, <1>2, <2>1
<1>8. schedule' = Replanned(Unclaimed([schedule EXCEPT !.at = at, !.mandatory = schedule.mandatory]))
  BY <1>4, <1>5
<1> QED BY <1>1, <1>2, <1>3, <1>5, <1>6, <1>7, <1>8, OwnersChange

LEMMA ClaimsKeep ==
  ASSUME SchedulesInv, CancelSchedule \/ ScheduleLeaseEnds \/ \E f \in Firers : ClaimSchedule(f)
  PROVE  SchedulesInv'
<1>1. schedule \in ScheduleRows /\ edits \in Nat /\ edits <= MaxEdits /\ editor \in EditCopies
      /\ (editor.pc = "read" => editor.at # 0)
  BY EditorFacts
<1>2. UNCHANGED <<clock, queued, fired, editor, edits>>
  BY DEF CancelSchedule, ScheduleLeaseEnds, ClaimSchedule
<1>3. EditWeight' - 2 * edits' <= EditWeight - 2 * edits
  <2>1. EditWeight' = EditWeight /\ EditWeight \in Nat /\ edits' = edits
    BY <1>2 DEF EditWeight
  <2> QED BY <1>1, <2>1
<1>4. editor' \in EditCopies /\ (editor'.pc = "read" => editor'.at # 0) /\ edits' \in Nat /\ edits' <= MaxEdits
  BY <1>1, <1>2
<1>5. CASE CancelSchedule
  <2> DEFINE r == [schedule EXCEPT !.status = "cancelled"]
             s == Unclaimed(r)
  <2>1. r \in ScheduleRows /\ r.status = "cancelled" /\ r.at = schedule.at /\ r.generation = schedule.generation
        /\ r.target = schedule.target
    BY <1>1 DEF ScheduleRows
  <2> HIDE DEF r
  <2>2. s \in ScheduleRows /\ s.status = "cancelled" /\ s.at = schedule.at /\ s.generation = schedule.generation
        /\ s.target = schedule.target /\ s.claim = 0
    BY <2>1, UnclaimedRow
  <2>3. schedule' = s /\ firer' = firer /\ schedule.status = "active"
    BY <1>5 DEF CancelSchedule, r
  <2> HIDE DEF s
  <2>4. FirersFollow
    BY <2>3, FirersUnchanged DEF SchedulesInv
  <2>5. ~Taken'
    BY <2>2, <2>3 DEF Taken
  <2> QED BY <1>2, <1>3, <1>4, <2>2, <2>3, <2>4, <2>5, SamePlanKeeps
<1>6. CASE ScheduleLeaseEnds
  <2> DEFINE s == [schedule EXCEPT !.stale = TRUE]
  <2>1. s \in ScheduleRows /\ s.status = schedule.status /\ s.at = schedule.at /\ s.generation = schedule.generation
        /\ s.target = schedule.target
    BY <1>1 DEF ScheduleRows
  <2>2. schedule' = s /\ firer' = firer /\ Taken
    BY <1>6 DEF ScheduleLeaseEnds, Taken
  <2> HIDE DEF s
  <2>3. schedule.status = "active" /\ Arrived
    BY <2>2 DEF SchedulesInv, PlanInv, PlanSound
  <2>4. FirersFollow
    BY <2>2, FirersUnchanged DEF SchedulesInv
  <2> QED BY <1>2, <1>3, <1>4, <2>1, <2>2, <2>3, <2>4, SamePlanKeeps
<1>7. ASSUME NEW f \in Firers, ClaimSchedule(f) PROVE SchedulesInv'
  <2> DEFINE s == [schedule EXCEPT !.claim = f, !.stale = FALSE]
             c == [pc |-> "fire", at |-> schedule.at, generation |-> schedule.generation]
  <2>1. f \in Nat
    BY SchedulesAssumption
  <2>2. s \in ScheduleRows /\ s.status = schedule.status /\ s.at = schedule.at /\ s.generation = schedule.generation
        /\ s.target = schedule.target
    BY <1>1, <2>1 DEF ScheduleRows
  <2>3. c \in FirerCopies /\ c.at = schedule.at /\ c.generation = schedule.generation
    BY <1>1 DEF ScheduleRows, FirerCopies
  <2>4. schedule' = s /\ firer' = [firer EXCEPT ![f] = c] /\ schedule.status = "active" /\ Arrived
    BY <1>7 DEF ClaimSchedule, ScheduleDue, Arrived
  <2> HIDE DEF s, c
  <2>5. FirersFollow
    BY <2>3, <2>4 DEF FirersFollow, SchedulesInv, PlanInv, PlanTyped
  <2> QED BY <1>2, <1>3, <1>4, <2>2, <2>4, <2>5, SamePlanKeeps
<1> QED BY <1>5, <1>6, <1>7

LEMMA InstantComesKeeps ==
  ASSUME SchedulesInv, InstantComes
  PROVE  SchedulesInv'
<1>1. clock' = clock + 1 /\ clock < MaxInstant /\ UNCHANGED <<schedule, queued, firer, editor, edits, fired>>
  BY DEF InstantComes
<1>2. clock \in Nat /\ schedule \in ScheduleRows /\ schedule.at \in Nat /\ schedule.generation \in Nat /\ edits \in Nat
  BY EditorFacts DEF ScheduleRows
<1>3. Arrived => Arrived'
  BY <1>1, <1>2 DEF Arrived
<1>4. PlanTyped'
  BY <1>1, <1>2 DEF SchedulesInv, PlanInv, PlanTyped
<1>5. PlanSound' /\ EditSound' /\ \A f \in Firers : FirerSound(f)'
  BY <1>1, <1>3 DEF SchedulesInv, PlanInv, PlanSound, EditSound, FirerSound, Taken
<1>6. GenerationsSuffice'
  <2>1. DueWeight \in Nat /\ DueWeight' \in {0, 1} /\ EditWeight' = EditWeight /\ EditWeight \in Nat
    BY <1>1 DEF DueWeight, EditWeight
  <2>2. /\ schedule.generation >= 1 /\ edits <= MaxEdits
        /\ schedule.generation + DueWeight + EditWeight <= 1 + clock + 2 * edits
    BY DEF SchedulesInv, PlanInv, GenerationsSuffice
  <2>3. schedule' = schedule /\ edits' = edits
    BY <1>1
  <2>4. schedule.generation + DueWeight' + EditWeight <= 1 + (clock + 1) + 2 * edits
    BY <1>2, <2>1, <2>2
  <2>5. clock' <= MaxInstant
    BY <1>1, <1>2, SchedulesAssumption
  <2> QED BY <1>1, <2>1, <2>2, <2>3, <2>4, <2>5 DEF GenerationsSuffice
<1>7. QueueSound' /\ FiredSound'
  BY <1>1 DEF SchedulesInv, QueueSound, FiredSound, FiredMeansQueued, Closing
<1> QED BY <1>4, <1>5, <1>6, <1>7 DEF SchedulesInv, PlanInv

--------------------------------------------------------------------------------
(* Firing *)

LEMMA HolderIsCurrent ==
  ASSUME PlanInv, NEW f \in Firers, firer[f].pc = "fire", HoldsSchedule(f)
  PROVE  /\ Taken /\ Arrived /\ schedule.status = "active"
         /\ firer[f].at = schedule.at /\ firer[f].generation = schedule.generation
<1>1. f # 0
  BY SchedulesAssumption
<1>2. Taken
  BY <1>1 DEF HoldsSchedule, Taken
<1>3. Arrived /\ schedule.status = "active"
  BY <1>2 DEF PlanInv, PlanSound
<1>4. firer[f].generation = schedule.generation
  BY DEF HoldsSchedule
<1>5. FirerSound(f) /\ schedule.generation \in Nat
  BY DEF PlanInv, PlanTyped, ScheduleRows
<1>6. ~(firer[f].generation < schedule.generation)
  BY <1>4, <1>5
<1>7. firer[f].at = schedule.at
  BY <1>5, <1>6 DEF FirerSound
<1> QED BY <1>2, <1>3, <1>4, <1>7

\* The fan-out moves the schedule on: it is done, or waits for a later instant
\* under a new generation.
LEMMA MovedOnRow ==
  ASSUME PlanInv, Taken
  PROVE  /\ MovedOn \in ScheduleRows /\ MovedOn.claim = 0 /\ MovedOn.target = schedule.target
         /\ \/ MovedOn.status = "done" /\ MovedOn.generation = schedule.generation /\ MovedOn.at = schedule.at
            \/ MovedOn.status = "active" /\ MovedOn.generation = schedule.generation + 1 /\ MovedOn.at > clock
<1>1. schedule \in ScheduleRows /\ clock \in Nat /\ Arrived /\ schedule.status = "active"
  BY DEF PlanInv, PlanTyped, PlanSound
<1>2. CASE schedule.kind = "once"
  <2> DEFINE r == [schedule EXCEPT !.status = "done"]
  <2>1. r \in ScheduleRows /\ r.status = "done" /\ r.target = schedule.target /\ r.at = schedule.at
        /\ r.generation = schedule.generation
    BY <1>1 DEF ScheduleRows
  <2>2. MovedOn = Unclaimed(r)
    BY <1>2 DEF MovedOn
  <2> HIDE DEF r
  <2> QED BY <2>1, <2>2, UnclaimedRow
<1>3. CASE schedule.kind # "once"
  <2> DEFINE at == NextFire(schedule.kind, clock)
             r == [schedule EXCEPT !.at = at]
             u == Unclaimed(r)
  <2>1. at \in Nat \ {0} /\ at > clock
    BY <1>1, NextFireIsLater
  <2>2. MovedOn = Replanned(u)
    BY <1>3 DEF MovedOn
  <2>3. at # schedule.at
    <3>1. schedule.at \in Nat /\ schedule.at <= clock
      BY <1>1 DEF ScheduleRows, Arrived
    <3> QED BY <1>1, <2>1, <3>1
  <2> HIDE DEF at
  <2>4. r \in ScheduleRows /\ r.status = "active" /\ r.target = schedule.target /\ r.at = at
        /\ r.generation = schedule.generation
    BY <1>1, <2>1 DEF ScheduleRows
  <2> HIDE DEF r
  <2>5. u \in ScheduleRows /\ u.claim = 0 /\ u.status = "active" /\ u.target = schedule.target /\ u.at = at
        /\ u.generation = schedule.generation
    BY <2>4, UnclaimedRow
  <2> HIDE DEF u
  <2>6. /\ MovedOn \in ScheduleRows /\ MovedOn.claim = 0 /\ MovedOn.target = schedule.target
        /\ MovedOn.status = "active" /\ MovedOn.at = at /\ MovedOn.generation = schedule.generation + 1
    BY <1>1, <2>2, <2>3, <2>5, ReplannedRow
  <2> QED BY <2>1, <2>6
<1> QED BY <1>2, <1>3

LEMMA MovingOnKeepsPlan ==
  ASSUME PlanInv, NEW f \in Firers, firer[f].pc = "fire", HoldsSchedule(f), schedule' = MovedOn,
         firer' = [firer EXCEPT ![f] = IdleFirer], UNCHANGED <<clock, editor, edits>>
  PROVE  PlanInv'
<1> DEFINE s == MovedOn
<1>1. Taken /\ Arrived /\ schedule.status = "active"
  BY HolderIsCurrent
<1>2. /\ s \in ScheduleRows /\ s.claim = 0 /\ s.target = schedule.target
      /\ \/ s.status = "done" /\ s.generation = schedule.generation /\ s.at = schedule.at
         \/ s.status = "active" /\ s.generation = schedule.generation + 1 /\ s.at > clock
  BY <1>1, MovedOnRow
<1>3. schedule' = s
  OBVIOUS
<1> HIDE DEF s
<1>4. FirersFollow /\ firer' \in [Firers -> FirerCopies]
      /\ \A m \in Firers : firer'[m] = firer[m] \/ firer'[m].pc = "idle"
  BY FirerLeaves
<1>5. edits \in Nat /\ edits <= MaxEdits /\ editor \in EditCopies /\ (editor.pc = "read" => editor.at # 0)
      /\ clock \in Nat
  BY DEF PlanInv, PlanTyped, EditSound, GenerationsSuffice
<1>6. EditWeight' = EditWeight /\ EditWeight \in Nat
  BY DEF EditWeight
<1>7. editor' \in EditCopies /\ (editor'.pc = "read" => editor'.at # 0) /\ edits' \in Nat /\ edits' <= MaxEdits
  BY <1>5
<1>8. ~Taken'
  BY <1>2, <1>3 DEF Taken
<1>9. CASE s.status = "done" /\ s.generation = schedule.generation /\ s.at = schedule.at
  <2>1. EditWeight' - 2 * edits' <= EditWeight - 2 * edits
    <3>1. edits' = edits
      OBVIOUS
    <3> QED BY <1>5, <1>6, <3>1
  <2> QED BY <1>1, <1>2, <1>3, <1>4, <1>7, <1>8, <1>9, <2>1, PlanStays
<1>10. CASE s.status = "active" /\ s.generation = schedule.generation + 1 /\ s.at > clock
  <2>1. DueWeight = 1
    BY <1>1 DEF DueWeight
  <2>2. DueWeight' = 0
    <3>1. ~(s.at <= clock)
      <4>1. s.at \in Nat
        BY <1>2 DEF ScheduleRows
      <4> QED BY <1>5, <1>10, <4>1
    <3>2. ~Arrived'
      BY <1>3, <3>1 DEF Arrived
    <3> QED BY <3>2 DEF DueWeight
  <2>3. 1 + DueWeight' + EditWeight' - 2 * edits' <= DueWeight + EditWeight - 2 * edits
    <3>1. edits' = edits
      OBVIOUS
    <3> QED BY <1>5, <1>6, <2>1, <2>2, <3>1
  <2> QED BY <1>1, <1>2, <1>3, <1>4, <1>7, <1>10, <2>3, PlanChanges
<1> QED BY <1>2, <1>9, <1>10

LEMMA DropFireKeeps ==
  ASSUME SchedulesInv, NEW f \in Firers, DropFire(f)
  PROVE  SchedulesInv'
<1>1. firer[f].pc = "fire" /\ firer' = [firer EXCEPT ![f] = IdleFirer] /\ UNCHANGED <<clock, queued, editor, edits, fired>>
  BY DEF DropFire
<1>2. schedule \in ScheduleRows /\ edits \in Nat /\ edits <= MaxEdits /\ editor \in EditCopies
      /\ (editor.pc = "read" => editor.at # 0)
  BY EditorFacts
<1>3. FirersFollow
  BY <1>1, FirerLeaves DEF SchedulesInv
<1>4. EditWeight' - 2 * edits' <= EditWeight - 2 * edits
  <2>1. EditWeight' = EditWeight /\ EditWeight \in Nat /\ edits' = edits
    BY <1>1 DEF EditWeight
  <2> QED BY <1>2, <2>1
<1>5. editor' \in EditCopies /\ (editor'.pc = "read" => editor'.at # 0) /\ edits' \in Nat /\ edits' <= MaxEdits
  BY <1>1, <1>2
<1>6. CASE UNCHANGED schedule
  <2>1. Taken' => schedule.status = "active" /\ Arrived
    BY <1>6 DEF Taken, SchedulesInv, PlanInv, PlanSound
  <2> QED BY <1>1, <1>2, <1>3, <1>4, <1>5, <1>6, <2>1, SamePlanKeeps
<1>7. CASE schedule' = Unclaimed(schedule) /\ HoldsSchedule(f)
  <2> DEFINE s == Unclaimed(schedule)
  <2>1. s \in ScheduleRows /\ s.status = schedule.status /\ s.at = schedule.at /\ s.generation = schedule.generation
        /\ s.target = schedule.target /\ s.claim = 0
    BY <1>2, UnclaimedRow
  <2>2. schedule.status = "active"
    BY <1>1, <1>7, HolderIsCurrent DEF SchedulesInv
  <2>3. schedule' = s
    BY <1>7
  <2> HIDE DEF s
  <2>4. ~Taken'
    BY <2>1, <2>3 DEF Taken
  <2> QED BY <1>1, <1>3, <1>4, <1>5, <2>1, <2>2, <2>3, <2>4, SamePlanKeeps
<1> QED BY <1>6, <1>7 DEF DropFire

LEMMA SkipDayOffKeeps ==
  ASSUME SchedulesInv, NEW f \in Firers, SkipDayOff(f)
  PROVE  SchedulesInv'
<1> DEFINE s == MovedOn
<1>1. firer[f].pc = "fire" /\ HoldsSchedule(f) /\ schedule' = s /\ firer' = [firer EXCEPT ![f] = IdleFirer]
      /\ UNCHANGED <<clock, queued, editor, edits, fired>>
  BY DEF SkipDayOff
<1>2. PlanInv'
  BY <1>1, MovingOnKeepsPlan DEF SchedulesInv
<1>3. Taken /\ schedule.status = "active"
  BY <1>1, HolderIsCurrent DEF SchedulesInv
<1>4. /\ s \in ScheduleRows /\ s.target = schedule.target /\ s.status \in {"done", "active"}
      /\ (s.generation = schedule.generation \/ s.generation = schedule.generation + 1)
  BY <1>3, MovedOnRow DEF SchedulesInv
<1>5. ~Closing
  BY <1>3 DEF Closing
<1> HIDE DEF s
<1>6. QueueSound' /\ FiredSound'
  BY <1>1, <1>4, <1>5, RowsStay DEF SchedulesInv
<1> QED BY <1>2, <1>6 DEF SchedulesInv

\* The generation has no row yet, and it is one of the instance: everybody gets one.
LEMMA FanOutKeeps ==
  ASSUME SchedulesInv, NEW f \in Firers, FanOut(f)
  PROVE  SchedulesInv'
<1> DEFINE s == MovedOn
           g == schedule.generation
           i == schedule.at
<1>1. firer[f].pc = "fire" /\ HoldsSchedule(f) /\ schedule' = s /\ firer' = [firer EXCEPT ![f] = IdleFirer]
      /\ UNCHANGED <<clock, editor, edits>>
  BY DEF FanOut
<1>2. PlanInv'
  BY <1>1, MovingOnKeepsPlan DEF SchedulesInv
<1>3. Taken /\ schedule.status = "active" /\ firer[f].at = i /\ firer[f].generation = g
  BY <1>1, HolderIsCurrent DEF SchedulesInv
<1>4. /\ s \in ScheduleRows /\ s.target = schedule.target
      /\ (s.status = "done" /\ s.generation = g) \/ (s.status = "active" /\ s.generation = g + 1)
  BY <1>3, MovedOnRow DEF SchedulesInv
<1>5. i \in Nat \ {0} /\ g \in Nat /\ schedule \in ScheduleRows
  BY EditorFacts DEF ScheduleRows
<1>6. g \in Generations
  <2>1. /\ clock \in Nat /\ edits \in Nat /\ g >= 1 /\ clock <= MaxInstant /\ edits <= MaxEdits
        /\ g + DueWeight + EditWeight <= 1 + clock + 2 * edits
    BY DEF SchedulesInv, PlanInv, PlanTyped, GenerationsSuffice
  <2>2. DueWeight \in Nat /\ EditWeight \in Nat /\ MaxInstant \in Nat /\ MaxEdits \in Nat
    BY SchedulesAssumption DEF DueWeight, EditWeight
  <2>3. g <= MaxInstant + 2 * MaxEdits + 1
    BY <1>5, <2>1, <2>2
  <2> QED BY <1>5, <2>1, <2>3 DEF Generations
<1>7. \A u \in People : queued[<<g, u>>] = NoInstant
  <2>1. ~(g < schedule.generation) /\ ~Closing
    BY <1>3, <1>5 DEF Closing
  <2> QED BY <1>6, <2>1 DEF SchedulesInv, QueueSound
<1>8. queued' = [r \in Generations \X People |->
                   IF r[1] = g /\ r[2] \in schedule.target /\ queued[r] = NoInstant THEN i ELSE queued[r]]
  BY <1>3 DEF FanOut
<1>9. fired' = fired \cup {i}
  BY <1>3 DEF FanOut
<1>10. schedule.target \subseteq People
  BY <1>5 DEF ScheduleRows
<1> HIDE DEF s, g, i
<1>11. \A h \in Generations, u \in People :
         queued'[<<h, u>>] = IF h = g /\ u \in schedule.target THEN i ELSE queued[<<h, u>>]
  <2> TAKE h \in Generations, u \in People
  <2>1. <<h, u>> \in Generations \X People /\ <<h, u>>[1] = h /\ <<h, u>>[2] = u
    OBVIOUS
  <2> QED BY <1>7, <1>8, <2>1
<1>12. QueueSound'
  <2>1. queued' \in [Generations \X People -> Nat]
    BY <1>5, <1>8 DEF SchedulesInv, QueueSound
  <2>2. ASSUME NEW h \in Generations, NEW u \in People, queued'[<<h, u>>] # NoInstant
        PROVE  h < schedule'.generation \/ (h = schedule'.generation /\ Closing')
    <3>1. h = g \/ queued[<<h, u>>] # NoInstant
      BY <1>11, <2>2
    <3>2. queued[<<h, u>>] # NoInstant => h < schedule.generation
      <4>1. ~Closing
        BY <1>3 DEF Closing
      <4> QED BY <4>1 DEF SchedulesInv, QueueSound
    <3>3. CASE s.status = "done" /\ s.generation = g
      BY <1>1, <3>1, <3>2, <3>3 DEF Closing, g
    <3>4. CASE s.generation = g + 1
      <4>1. h \in Int
        BY DEF Generations
      <4>2. h = g \/ h < g
        BY <3>1, <3>2 DEF g
      <4>3. h < g + 1
        BY <1>5, <4>1, <4>2
      <4> QED BY <1>1, <3>4, <4>3
    <3> QED BY <1>4, <3>3, <3>4
  <2> QED BY <2>1, <2>2 DEF QueueSound
<1>13. FiredSound'
  <2>1. ASSUME NEW j \in fired', NEW u \in schedule'.target PROVE \E h \in Generations : queued'[<<h, u>>] = j
    <3>1. u \in schedule.target /\ u \in People
      BY <1>1, <1>4, <1>10, <2>1
    <3>2. CASE j = i
      BY <1>6, <1>11, <3>1, <3>2
    <3>3. CASE j # i
      <4>1. j \in fired /\ j # 0
        BY <1>9, <2>1, <3>3 DEF SchedulesInv, FiredSound
      <4>2. PICK h \in Generations : queued[<<h, u>>] = j
        BY <3>1, <4>1 DEF SchedulesInv, FiredSound, FiredMeansQueued
      <4>3. h # g
        BY <1>7, <3>1, <4>1, <4>2 DEF NoInstant
      <4> QED BY <1>11, <3>1, <4>2, <4>3
    <3> QED BY <3>2, <3>3
  <2>2. FiredMeansQueued'
    BY <2>1 DEF FiredMeansQueued
  <2>3. schedule'.status # "none"
    BY <1>1, <1>4
  <2>4. fired' \subseteq Nat \ {0}
    BY <1>5, <1>9 DEF SchedulesInv, FiredSound
  <2> QED BY <2>2, <2>3, <2>4 DEF FiredSound
<1> QED BY <1>2, <1>12, <1>13 DEF SchedulesInv

LEMMA SchedulesStep == SchedulesInv /\ [SchedulesNext]_scheduleVars => SchedulesInv'
<1> SUFFICES ASSUME SchedulesInv, [SchedulesNext]_scheduleVars PROVE SchedulesInv'
  OBVIOUS
<1>1. CASE \E k \in ScheduleKinds : RemindMe(k) \/ Push(k)
  BY <1>1, CreateKeeps
<1>2. CASE OpenEdit \/ SaveEdit \/ RebaseDaily
  BY <1>2, OpenEditKeeps, SaveEditKeeps, RebaseDailyKeeps
<1>3. CASE CancelSchedule \/ ScheduleLeaseEnds \/ \E f \in Firers : ClaimSchedule(f)
  BY <1>3, ClaimsKeep
<1>4. CASE InstantComes
  BY <1>4, InstantComesKeeps
<1>5. CASE \E f \in Firers : DropFire(f) \/ SkipDayOff(f) \/ FanOut(f)
  BY <1>5, DropFireKeeps, SkipDayOffKeeps, FanOutKeeps
<1>6. CASE UNCHANGED scheduleVars
  BY <1>6 DEF scheduleVars, SchedulesInv, PlanInv, PlanTyped, PlanSound, EditSound, GenerationsSuffice, FirerSound,
              QueueSound, FiredSound, FiredMeansQueued, Taken, Arrived, Closing, DueWeight, EditWeight
<1> QED BY <1>1, <1>2, <1>3, <1>4, <1>5, <1>6 DEF SchedulesNext

\* Through edits, cancellations, rebases and firers that come late: every instant a schedule
\* fired left a row for each of its recipients, for the generation of each plan has its rows
\* to itself (FanOutScheduleOccurrence and the trigger advance_schedule_occurrence_generation).
THEOREM OccurrencesQueued == SchedulesSpec => []FiredMeansQueued
<1>1. SchedulesInv => FiredMeansQueued
  BY DEF SchedulesInv, FiredSound
<1> QED BY <1>1, SchedulesInitial, SchedulesStep, PTL DEF SchedulesSpec

LEMMA FiringIsCurrent ==
  SchedulesInv /\ [SchedulesNext]_scheduleVars
    => [\A i \in fired' \ fired : schedule.status = "active" /\ schedule.at = i /\ i <= clock]_scheduleVars
<1> SUFFICES ASSUME SchedulesInv, SchedulesNext, NEW i \in fired' \ fired
             PROVE  schedule.status = "active" /\ schedule.at = i /\ i <= clock
  OBVIOUS
<1>1. PICK f \in Firers : FanOut(f)
  BY DEF SchedulesNext, RemindMe, Push, OpenEdit, SaveEdit, CancelSchedule, RebaseDaily, InstantComes,
         ScheduleLeaseEnds, ClaimSchedule, DropFire, SkipDayOff
<1>2. i = firer[f].at /\ firer[f].pc = "fire" /\ HoldsSchedule(f)
  BY <1>1 DEF FanOut
<1>3. Arrived /\ schedule.status = "active" /\ firer[f].at = schedule.at
  BY <1>2, HolderIsCurrent DEF SchedulesInv
<1> QED BY <1>2, <1>3 DEF Arrived

\* An instant is fired only as what the schedule stands at when it is fired: no change of the
\* owner and no other firer between the claim and the fan-out is overwritten.
THEOREM FiringsCurrent == SchedulesSpec => FiresTheCurrentPlan
BY SchedulesInitial, SchedulesStep, FiringIsCurrent, PTL DEF SchedulesSpec, FiresTheCurrentPlan

--------------------------------------------------------------------------------
(* The deliveries of a schedule *)

CourierPcs == {"idle", "check", "prepare", "recheck", "send", "transmit", "suppress", "fail", "delivered", "retry"}
CourierCopies == [pc : CourierPcs, row : Int, attempts : Int]
DeliveryRows ==
  [status : {"absent", "pending", "processing", "suppressed", "cancelled", "failed", "delivered"},
   attempts : Int, claim : Nat, ready : BOOLEAN, stale : BOOLEAN, text : BOOLEAN]

DeliveriesTyped ==
  /\ row \in [RowIds -> DeliveryRows]
  /\ rowCourier \in [Couriers -> CourierCopies]
  /\ rowReceipt \in [RowIds -> {"none", "started", "delivered", "failed"}]
  /\ sentTo \in [RowIds -> Int]

Transmits(c, r) == rowCourier[c].pc = "transmit" /\ rowCourier[c].row = r

\* One courier opens the receipt of a row, and only it gives the message to the channel ...
RowToldOnce(r) ==
  /\ sentTo[r] \in {0, 1}
  /\ rowReceipt[r] = "none" => sentTo[r] = 0
RowOpened(r) ==
  /\ \A c \in Couriers : Transmits(c, r) => rowReceipt[r] # "none" /\ sentTo[r] = 0
  /\ \A c, d \in Couriers : Transmits(c, r) /\ Transmits(d, r) => c = d
\* ... and nobody is about to tell what was refused.
RefusalHolds(r) == r \in refused => sentTo[r] = 0 /\ ~Decided(r)

DeliveriesInv ==
  /\ DeliveriesTyped
  /\ \A r \in RowIds : RowToldOnce(r) /\ RowOpened(r) /\ RefusalHolds(r)
  /\ refused # {} => ~Allowed

LEMMA DeliveriesInitial == DeliveriesInit => DeliveriesInv
<1> SUFFICES ASSUME DeliveriesInit PROVE DeliveriesInv
  OBVIOUS
<1>1. NoRow \in DeliveryRows /\ FreeCourier \in CourierCopies /\ FreeCourier.pc = "idle"
  BY DEF NoRow, DeliveryRows, FreeCourier, CourierCopies, CourierPcs
<1>2. DeliveriesTyped
  BY <1>1 DEF DeliveriesInit, DeliveriesTyped
<1>3. \A c \in Couriers : rowCourier[c].pc = "idle"
  BY <1>1 DEF DeliveriesInit
<1>4. refused = {} /\ \A r \in RowIds : sentTo[r] = 0
  BY DEF DeliveriesInit
<1>5. ASSUME NEW r \in RowIds PROVE RowToldOnce(r) /\ RowOpened(r) /\ RefusalHolds(r)
  BY <1>3, <1>4 DEF RowToldOnce, RowOpened, RefusalHolds, Transmits
<1> QED BY <1>2, <1>4, <1>5 DEF DeliveriesInv

LEMMA CourierEdits ==
  ASSUME NEW t \in CourierCopies, NEW pc \in CourierPcs
  PROVE  [t EXCEPT !.pc = pc] \in CourierCopies /\ [t EXCEPT !.pc = pc].pc = pc /\ [t EXCEPT !.pc = pc].row = t.row
  BY DEF CourierCopies

\* A courier walks on; the others stay where they are.
LEMMA Walking ==
  ASSUME DeliveriesTyped, NEW c \in Couriers, NEW pc \in CourierPcs, Walk(c, pc)
  PROVE  /\ rowCourier' \in [Couriers -> CourierCopies]
         /\ rowCourier'[c].pc = pc /\ rowCourier'[c].row = rowCourier[c].row
         /\ \A d \in Couriers : d # c => rowCourier'[d] = rowCourier[d]
<1> DEFINE s == [rowCourier[c] EXCEPT !.pc = pc]
<1>1. rowCourier[c] \in CourierCopies /\ rowCourier' = [rowCourier EXCEPT ![c] = s]
  BY DEF DeliveriesTyped, Walk
<1>2. s \in CourierCopies /\ s.pc = pc /\ s.row = rowCourier[c].row
  BY <1>1, CourierEdits
<1> HIDE DEF s
<1> QED BY <1>1, <1>2 DEF DeliveriesTyped

LEMMA Leaving ==
  ASSUME DeliveriesTyped, NEW c \in Couriers, Leave(c)
  PROVE  /\ rowCourier' \in [Couriers -> CourierCopies] /\ rowCourier'[c].pc = "idle"
         /\ \A d \in Couriers : d # c => rowCourier'[d] = rowCourier[d]
<1> DEFINE s == FreeCourier
<1>1. s \in CourierCopies /\ s.pc = "idle"
  BY DEF FreeCourier, CourierCopies, CourierPcs
<1>2. rowCourier' = [rowCourier EXCEPT ![c] = s]
  BY DEF Leave
<1> HIDE DEF s
<1> QED BY <1>1, <1>2 DEF DeliveriesTyped

LEMMA ClosingKeepsRows ==
  ASSUME row \in [RowIds -> DeliveryRows], NEW rows,
         NEW st \in {"suppressed", "cancelled", "failed", "delivered"}
  PROVE  Closed(rows, st) \in [RowIds -> DeliveryRows]
<1>1. ASSUME NEW r \in RowIds PROVE [row[r] EXCEPT !.status = st, !.claim = 0, !.stale = FALSE] \in DeliveryRows
  BY DEF DeliveryRows
<1> QED BY <1>1 DEF Closed

LEMMA QueueingKeepsRows ==
  ASSUME row \in [RowIds -> DeliveryRows], NEW r \in RowIds, NEW n \in Int, NEW ready \in BOOLEAN
  PROVE  BackInQueue(r, n, ready) \in [RowIds -> DeliveryRows]
<1> DEFINE t == [row[r] EXCEPT !.status = "pending", !.claim = 0, !.stale = FALSE, !.attempts = n, !.ready = ready]
<1>1. t \in DeliveryRows
  BY DEF DeliveryRows
<1>2. BackInQueue(r, n, ready) = [row EXCEPT ![r] = t]
  BY DEF BackInQueue
<1> HIDE DEF t
<1> QED BY <1>1, <1>2

\* Nobody comes closer to the channel.
LEMMA QuietStep ==
  ASSUME DeliveriesInv, row' \in [RowIds -> DeliveryRows], rowCourier' \in [Couriers -> CourierCopies],
         UNCHANGED <<rowReceipt, sentTo>>,
         \A c \in Couriers : rowCourier'[c].pc \in {"send", "transmit"}
                               => rowCourier'[c].pc = rowCourier[c].pc /\ rowCourier'[c].row = rowCourier[c].row,
         \A r \in RowIds : r \in refused' => r \in refused \/ (sentTo[r] = 0 /\ ~Decided(r)),
         refused' # {} => ~Allowed'
  PROVE  DeliveriesInv'
<1>1. DeliveriesTyped'
  BY DEF DeliveriesInv, DeliveriesTyped
<1>2. ASSUME NEW r \in RowIds PROVE RowToldOnce(r)' /\ RowOpened(r)' /\ RefusalHolds(r)'
  <2>1. RowToldOnce(r) /\ RowOpened(r) /\ RefusalHolds(r)
    BY DEF DeliveriesInv
  <2>2. RowToldOnce(r)'
    BY <2>1 DEF RowToldOnce
  <2>3. \A c \in Couriers : Transmits(c, r)' => Transmits(c, r)
    BY DEF Transmits
  <2>4. RowOpened(r)'
    BY <2>1, <2>3 DEF RowOpened
  <2>5. Decided(r)' => Decided(r)
    BY DEF Decided
  <2>6. RefusalHolds(r)'
    BY <2>1, <2>5 DEF RefusalHolds
  <2> QED BY <2>2, <2>4, <2>6
<1> QED BY <1>1, <1>2 DEF DeliveriesInv

LEMMA PoliciesKeep ==
  ASSUME DeliveriesInv, QueueRow \/ OptOut \/ OptIn \/ SetPolicy \/ CancelRows
  PROVE  DeliveriesInv'
<1>1. DeliveriesTyped /\ (refused # {} => ~Allowed) /\ UNCHANGED <<rowCourier, rowReceipt, sentTo>>
  BY DEF DeliveriesInv, QueueRow, OptOut, OptIn, SetPolicy, CancelRows
<1>2. row' \in [RowIds -> DeliveryRows]
  <2>1. CASE QueueRow
    <3> DEFINE t == [NoRow EXCEPT !.status = "pending", !.ready = TRUE]
    <3>3. NoRow \in DeliveryRows
      BY DEF NoRow, DeliveryRows
    <3>1. t \in DeliveryRows
      BY <3>3 DEF DeliveryRows
    <3>2. PICK r \in RowIds : row' = [row EXCEPT ![r] = t]
      BY <2>1 DEF QueueRow
    <3> HIDE DEF t
    <3> QED BY <1>1, <3>1, <3>2 DEF DeliveriesTyped
  <2>2. CASE OptOut \/ CancelRows
    BY <1>1, <2>2, ClosingKeepsRows DEF OptOut, CancelRows, DeliveriesTyped
  <2>3. CASE OptIn \/ SetPolicy
    BY <1>1, <2>3 DEF OptIn, SetPolicy, DeliveriesTyped
  <2> QED BY <2>1, <2>2, <2>3
<1>3. refused' # {} => ~Allowed'
  <2>1. CASE QueueRow \/ CancelRows
    <3>1. policy'.mandatory = policy.mandatory /\ enabled' = enabled /\ refused' = refused
      <4>1. CASE QueueRow
        BY <4>1 DEF QueueRow
      <4>2. CASE CancelRows
        BY <4>2 DEF CancelRows
      <4> QED BY <2>1, <4>1, <4>2
    <3> QED BY <1>1, <3>1 DEF Allowed
  <2>2. CASE OptOut
    BY <2>2 DEF OptOut, Allowed
  <2>3. CASE OptIn \/ SetPolicy
    BY <2>3 DEF OptIn, SetPolicy
  <2> QED BY <2>1, <2>2, <2>3
<1>4. \A r \in RowIds : r \in refused' => r \in refused \/ (sentTo[r] = 0 /\ ~Decided(r))
  BY DEF QueueRow, OptOut, OptIn, SetPolicy, CancelRows
<1> QED BY <1>1, <1>2, <1>3, <1>4, QuietStep DEF DeliveriesTyped

\* What leaves the recipient's wishes alone.
LEMMA QuietCourier ==
  ASSUME DeliveriesInv, OthersStay, row' \in [RowIds -> DeliveryRows], rowCourier' \in [Couriers -> CourierCopies],
         UNCHANGED <<rowReceipt, sentTo>>,
         \A c \in Couriers : rowCourier'[c].pc \in {"send", "transmit"}
                               => rowCourier'[c].pc = rowCourier[c].pc /\ rowCourier'[c].row = rowCourier[c].row
  PROVE  DeliveriesInv'
<1>1. refused' = refused /\ Allowed' = Allowed
  BY DEF OthersStay, Allowed
<1>2. refused # {} => ~Allowed
  BY DEF DeliveriesInv
<1> QED BY <1>1, <1>2, QuietStep

LEMMA RowStepsKeep ==
  ASSUME DeliveriesInv, NEW r \in RowIds, ExhaustRow(r) \/ RowTimePasses(r)
  PROVE  DeliveriesInv'
<1>1. DeliveriesTyped /\ OthersStay /\ UNCHANGED <<rowReceipt, rowCourier, sentTo>>
  BY DEF DeliveriesInv, ExhaustRow, RowTimePasses
<1>2. row' \in [RowIds -> DeliveryRows]
  <2>1. CASE ExhaustRow(r)
    BY <1>1, <2>1, ClosingKeepsRows DEF ExhaustRow, DeliveriesTyped
  <2>2. CASE RowTimePasses(r)
    <3>1. PICK t \in {[row[r] EXCEPT !.stale = TRUE], [row[r] EXCEPT !.ready = TRUE]} : row' = [row EXCEPT ![r] = t]
      BY <1>1, <2>2 DEF RowTimePasses, DeliveriesTyped
    <3>2. row[r] \in DeliveryRows
      BY <1>1 DEF DeliveriesTyped
    <3>3. t \in DeliveryRows
      BY <3>1, <3>2 DEF DeliveryRows
    <3> QED BY <1>1, <3>1, <3>3 DEF DeliveriesTyped
  <2> QED BY <2>1, <2>2
<1> QED BY <1>1, <1>2, QuietCourier DEF DeliveriesTyped

LEMMA ClaimRowKeeps ==
  ASSUME DeliveriesInv, NEW r \in RowIds, NEW c \in Couriers, ClaimRow(c, r)
  PROVE  DeliveriesInv'
<1> DEFINE t == [row[r] EXCEPT !.status = "processing", !.claim = c, !.stale = FALSE,
                            !.attempts = row[r].attempts + 1]
           s == [pc |-> "check", row |-> r, attempts |-> row[r].attempts + 1]
<1>1. DeliveriesTyped /\ OthersStay /\ UNCHANGED <<rowReceipt, sentTo>> /\ c \in Nat /\ r \in Int
  BY DeliveriesAssumption DEF DeliveriesInv, ClaimRow, RowIds
<1>9. rowCourier' = [rowCourier EXCEPT ![c] = s]
  BY DEF ClaimRow
<1>11. row' = [row EXCEPT ![r] = t]
  BY DEF ClaimRow
<1>2. row' = [row EXCEPT ![r] = t] /\ rowCourier' = [rowCourier EXCEPT ![c] = s]
  BY <1>9, <1>11
<1>3. row[r] \in DeliveryRows
  BY <1>1 DEF DeliveriesTyped
<1>4. row[r].attempts + 1 \in Int
  BY <1>3 DEF DeliveryRows
<1>5. t \in DeliveryRows
  <2> DEFINE k == row[r].attempts + 1
  <2>1. t = [row[r] EXCEPT !.status = "processing", !.claim = c, !.stale = FALSE, !.attempts = k]
    OBVIOUS
  <2>2. k \in Int
    BY <1>4
  <2> HIDE DEF k, t
  <2> QED BY <1>1, <1>3, <2>1, <2>2 DEF DeliveryRows
<1>6. s \in CourierCopies /\ s.pc = "check"
  BY <1>1, <1>4 DEF CourierCopies, CourierPcs
<1> HIDE DEF t, s
<1>7. row' \in [RowIds -> DeliveryRows] /\ rowCourier' \in [Couriers -> CourierCopies]
  BY <1>1, <1>2, <1>5, <1>6 DEF DeliveriesTyped
<1>8. rowCourier'[c].pc = "check" /\ \A d \in Couriers : d # c => rowCourier'[d] = rowCourier[d]
  BY <1>1, <1>2, <1>6 DEF DeliveriesTyped
<1> QED BY <1>1, <1>7, <1>8, QuietCourier

\* A courier that leaves, whatever it wrote on its row.
LEMMA CourierLeavingKeeps ==
  ASSUME DeliveriesInv, OthersStay, NEW c \in Couriers, Leave(c), row' \in [RowIds -> DeliveryRows],
         UNCHANGED <<rowReceipt, sentTo>>
  PROVE  DeliveriesInv'
<1>1. DeliveriesTyped
  BY DEF DeliveriesInv
<1> QED BY <1>1, Leaving, QuietCourier

LEMMA WalkingKeeps ==
  ASSUME DeliveriesInv, OthersStay, NEW c \in Couriers, NEW pc \in CourierPcs, Walk(c, pc),
         pc \notin {"send", "transmit"}, row' \in [RowIds -> DeliveryRows], UNCHANGED <<rowReceipt, sentTo>>
  PROVE  DeliveriesInv'
<1>1. DeliveriesTyped
  BY DEF DeliveriesInv
<1> QED BY <1>1, Walking, QuietCourier

LEMMA ReleaseAndRetryKeep ==
  ASSUME DeliveriesInv, NEW c \in Couriers, ReleaseRow(c) \/ SettleRow(c) \/ RetryRow(c) \/ LoseCourier(c)
  PROVE  DeliveriesInv'
<1> DEFINE r == rowCourier[c].row
<1>1. DeliveriesTyped /\ OthersStay /\ UNCHANGED <<rowReceipt, sentTo>> /\ Leave(c) /\ row \in [RowIds -> DeliveryRows]
  BY DEF DeliveriesInv, DeliveriesTyped, ReleaseRow, SettleRow, RetryRow, LoseCourier
<1>2. row' \in [RowIds -> DeliveryRows]
  <2>1. ASSUME NEW n \in Int, NEW ready \in BOOLEAN, row' = BackInQueue(r, n, ready), r \in RowIds
        PROVE  row' \in [RowIds -> DeliveryRows]
    BY <1>1, <2>1, QueueingKeepsRows
  <2>2. ASSUME r \notin RowIds, NEW n, NEW ready, row' = BackInQueue(r, n, ready)
        PROVE  row' \in [RowIds -> DeliveryRows]
    BY <1>1, <2>2 DEF BackInQueue
  <2>3. r \in RowIds => row[r].attempts \in Int /\ row[r].attempts - 1 \in Int /\ row[r].ready \in BOOLEAN
    <3>1. r \in RowIds => row[r].attempts \in Int /\ row[r].ready \in BOOLEAN
      BY <1>1 DEF DeliveryRows
    <3> QED BY <3>1
  <2>4. CASE ReleaseRow(c)
    BY <2>1, <2>2, <2>3, <2>4 DEF ReleaseRow
  <2>5. CASE RetryRow(c)
    <3>1. \/ row' = row
          \/ row' = Closed({r}, "failed")
          \/ row' = BackInQueue(r, row[r].attempts, FALSE)
      BY <2>5 DEF RetryRow
    <3>2. Closed({r}, "failed") \in [RowIds -> DeliveryRows]
      BY <1>1, ClosingKeepsRows
    <3> QED BY <1>1, <2>1, <2>2, <2>3, <3>1, <3>2
  <2>6. CASE SettleRow(c)
    <3>1. RowEnd(rowCourier[c].pc) \in {"suppressed", "cancelled", "failed", "delivered"}
      BY <2>6 DEF SettleRow, RowEnd
    <3> QED BY <1>1, <2>6, <3>1, ClosingKeepsRows DEF SettleRow
  <2>7. CASE LoseCourier(c)
    BY <1>1, <2>7 DEF LoseCourier
  <2> QED BY <2>4, <2>5, <2>6, <2>7
<1> QED BY <1>1, <1>2, CourierLeavingKeeps

LEMMA LooksKeep ==
  ASSUME DeliveriesInv, NEW c \in Couriers, CheckRecipient(c) \/ PrepareText(c)
  PROVE  DeliveriesInv'
<1>1. DeliveriesTyped /\ OthersStay /\ UNCHANGED <<rowReceipt, sentTo>> /\ row \in [RowIds -> DeliveryRows]
  BY DEF DeliveriesInv, DeliveriesTyped, CheckRecipient, PrepareText
<1>2. PICK pc \in {"retry", "suppress", "fail", "prepare", "recheck"} : Walk(c, pc)
  BY DEF CheckRecipient, PrepareText
<1>3. row' \in [RowIds -> DeliveryRows]
  <2>1. \/ row' = row
        \/ row' = [row EXCEPT ![rowCourier[c].row].text = TRUE]
    BY DEF CheckRecipient, PrepareText
  <2>2. ASSUME NEW r \in RowIds PROVE [row[r] EXCEPT !.text = TRUE] \in DeliveryRows
    BY <1>1 DEF DeliveryRows
  <2> DEFINE t == [row[rowCourier[c].row] EXCEPT !.text = TRUE]
  <2>3. row' = row \/ row' = [row EXCEPT ![rowCourier[c].row] = t]
    BY <2>1
  <2>4. rowCourier[c].row \in RowIds => t \in DeliveryRows
    BY <2>2
  <2> HIDE DEF t
  <2> QED BY <1>1, <2>3, <2>4
<1>4. pc \in CourierPcs /\ pc \notin {"send", "transmit"}
  BY <1>2 DEF CourierPcs
<1> QED BY <1>1, <1>2, <1>3, <1>4, WalkingKeeps

\* The last look: what was refused is not sent, since its recipient still refuses.
LEMMA RecheckKeeps ==
  ASSUME DeliveriesInv, NEW c \in Couriers, Recheck(c)
  PROVE  DeliveriesInv'
<1>1. DeliveriesTyped /\ OthersStay /\ UNCHANGED <<row, rowReceipt, sentTo>> /\ row' \in [RowIds -> DeliveryRows]
      /\ refused' = refused /\ (refused # {} => ~Allowed)
  BY DEF DeliveriesInv, DeliveriesTyped, Recheck, OthersStay
<1>2. CASE Walk(c, "retry") \/ Walk(c, "suppress")
  BY <1>1, <1>2, WalkingKeeps DEF CourierPcs
<1>3. CASE Walk(c, "send") /\ Allowed
  <2>1. "send" \in CourierPcs /\ refused = {} /\ Allowed' = Allowed
    BY <1>1, <1>3 DEF CourierPcs, OthersStay, Allowed
  <2>2. /\ rowCourier' \in [Couriers -> CourierCopies] /\ rowCourier'[c].pc = "send"
        /\ \A d \in Couriers : d # c => rowCourier'[d] = rowCourier[d]
    BY <1>1, <1>3, <2>1, Walking
  <2>3. DeliveriesTyped'
    BY <1>1, <2>2 DEF DeliveriesTyped
  <2>4. ASSUME NEW r \in RowIds PROVE RowToldOnce(r)' /\ RowOpened(r)' /\ RefusalHolds(r)'
    <3>1. RowToldOnce(r) /\ RowOpened(r)
      BY DEF DeliveriesInv
    <3>2. RowToldOnce(r)'
      BY <1>1, <3>1 DEF RowToldOnce
    <3>3. \A d \in Couriers : Transmits(d, r)' => Transmits(d, r)
      BY <2>2 DEF Transmits
    <3>4. RowOpened(r)'
      BY <1>1, <3>1, <3>3 DEF RowOpened
    <3>5. RefusalHolds(r)'
      BY <1>1, <2>1 DEF RefusalHolds
    <3> QED BY <3>2, <3>4, <3>5
  <2> QED BY <1>1, <2>1, <2>3, <2>4 DEF DeliveriesInv
<1> QED BY <1>2, <1>3 DEF Recheck

\* The receipt is opened by one courier, however many hold the row's text.
LEMMA SendRowKeeps ==
  ASSUME DeliveriesInv, NEW c \in Couriers, SendRow(c)
  PROVE  DeliveriesInv'
<1> DEFINE r == rowCourier[c].row
<1>1. DeliveriesTyped /\ OthersStay /\ UNCHANGED <<row, sentTo>> /\ row' \in [RowIds -> DeliveryRows]
      /\ refused' = refused /\ (refused # {} => ~Allowed) /\ rowCourier[c].pc = "send"
  BY DEF DeliveriesInv, DeliveriesTyped, SendRow, OthersStay
<1>2. CASE rowReceipt' = rowReceipt /\ \E pc \in {"retry", "delivered", "fail"} : Walk(c, pc)
  <2>1. PICK pc \in {"retry", "delivered", "fail"} : Walk(c, pc)
    BY <1>2
  <2>2. pc \in CourierPcs /\ pc \notin {"send", "transmit"}
    BY <2>1 DEF CourierPcs
  <2> QED BY <1>1, <1>2, <2>1, <2>2, WalkingKeeps
<1>3. CASE rowReceipt[r] = "none" /\ rowReceipt' = [rowReceipt EXCEPT ![r] = "started"] /\ Walk(c, "transmit")
  <2>1. "transmit" \in CourierPcs /\ Allowed' = Allowed
    BY <1>1 DEF CourierPcs, OthersStay, Allowed
  <2>2. /\ rowCourier' \in [Couriers -> CourierCopies] /\ rowCourier'[c].pc = "transmit" /\ rowCourier'[c].row = r
        /\ \A d \in Couriers : d # c => rowCourier'[d] = rowCourier[d]
    BY <1>1, <1>3, <2>1, Walking
  <2>3. rowReceipt' \in [RowIds -> {"none", "started", "delivered", "failed"}]
    BY <1>1, <1>3 DEF DeliveriesTyped
  <2>4. DeliveriesTyped'
    BY <1>1, <2>2, <2>3 DEF DeliveriesTyped
  <2> HIDE DEF r
  <2>5. ASSUME NEW q \in RowIds PROVE RowToldOnce(q)' /\ RowOpened(q)' /\ RefusalHolds(q)'
    <3>1. RowToldOnce(q) /\ RowOpened(q) /\ RefusalHolds(q)
      BY DEF DeliveriesInv
    <3>2. rowReceipt'[q] = IF q = r THEN "started" ELSE rowReceipt[q]
      BY <1>1, <1>3 DEF DeliveriesTyped
    <3>3. RowToldOnce(q)'
      BY <1>1, <3>1, <3>2 DEF RowToldOnce
    <3>4. ASSUME NEW d \in Couriers, Transmits(d, q)' PROVE (d = c /\ q = r) \/ (Transmits(d, q) /\ rowReceipt[q] # "none")
      <4>1. CASE d = c
        BY <2>2, <3>4, <4>1 DEF Transmits
      <4>2. CASE d # c
        BY <2>2, <3>1, <3>4, <4>2 DEF Transmits, RowOpened
      <4> QED BY <4>1, <4>2
    <3>5. RowOpened(q)'
      <4>1. CASE q = r
        BY <1>1, <1>3, <3>1, <3>2, <3>4, <4>1 DEF RowOpened, RowToldOnce
      <4>2. CASE q # r
        BY <1>1, <3>1, <3>2, <3>4, <4>2 DEF RowOpened
      <4> QED BY <4>1, <4>2
    <3>6. Decided(q)' => Decided(q)
      <4> SUFFICES ASSUME NEW d \in Couriers, rowCourier'[d].row = q, rowCourier'[d].pc \in {"send", "transmit"}
                   PROVE  Decided(q)
        BY DEF Decided
      <4>1. CASE d = c
        BY <1>1, <2>2, <4>1 DEF Decided, r
      <4>2. CASE d # c
        BY <2>2, <4>2 DEF Decided
      <4> QED BY <4>1, <4>2
    <3>7. RefusalHolds(q)'
      BY <1>1, <3>1, <3>6 DEF RefusalHolds
    <3> QED BY <3>3, <3>5, <3>7
  <2> QED BY <1>1, <2>1, <2>4, <2>5 DEF DeliveriesInv
<1> QED BY <1>2, <1>3 DEF SendRow

LEMMA TransmitRowKeeps ==
  ASSUME DeliveriesInv, NEW c \in Couriers, TransmitRow(c)
  PROVE  DeliveriesInv'
<1> DEFINE r == rowCourier[c].row
<1>1. DeliveriesTyped /\ OthersStay /\ UNCHANGED row /\ row' \in [RowIds -> DeliveryRows]
      /\ refused' = refused /\ (refused # {} => ~Allowed) /\ rowCourier[c].pc = "transmit"
  BY DEF DeliveriesInv, DeliveriesTyped, TransmitRow, OthersStay
<1>2. PICK pc \in {"delivered", "fail"} : Walk(c, pc)
  BY DEF TransmitRow
<1>3. pc \in CourierPcs /\ Allowed' = Allowed
  BY <1>1, <1>2 DEF CourierPcs, OthersStay, Allowed
<1>4. sentTo' = [sentTo EXCEPT ![r] = sentTo[r] + 1]
  BY <1>1 DEF TransmitRow, DeliveriesTyped
<1>5. PICK mark \in {"delivered", "failed"} : rowReceipt' \in {rowReceipt, [rowReceipt EXCEPT ![r] = mark]}
  BY DEF TransmitRow
<1>6. /\ rowCourier' \in [Couriers -> CourierCopies] /\ rowCourier'[c].pc = pc /\ rowCourier'[c].row = r
      /\ \A d \in Couriers : d # c => rowCourier'[d] = rowCourier[d]
  BY <1>1, <1>2, <1>3, Walking
<1>7. rowReceipt' \in [RowIds -> {"none", "started", "delivered", "failed"}]
  BY <1>1, <1>5 DEF DeliveriesTyped
<1>8. sentTo' \in [RowIds -> Int]
  <2>1. ASSUME r \in RowIds PROVE sentTo[r] + 1 \in Int
    BY <1>1, <2>1 DEF DeliveriesTyped
  <2> DEFINE k == sentTo[r] + 1
  <2>2. r \in RowIds => k \in Int
    BY <2>1
  <2>3. sentTo' = [sentTo EXCEPT ![r] = k]
    BY <1>4
  <2> HIDE DEF k
  <2> QED BY <1>1, <2>2, <2>3 DEF DeliveriesTyped
<1>9. DeliveriesTyped'
  BY <1>1, <1>6, <1>7, <1>8 DEF DeliveriesTyped
<1> HIDE DEF r
<1>10. ASSUME NEW q \in RowIds PROVE RowToldOnce(q)' /\ RowOpened(q)' /\ RefusalHolds(q)'
  <2>1. RowToldOnce(q) /\ RowOpened(q) /\ RefusalHolds(q)
    BY DEF DeliveriesInv
  <2>2. q = r => Transmits(c, q) /\ rowReceipt[q] # "none" /\ sentTo[q] = 0
    BY <1>1, <2>1 DEF Transmits, RowOpened, r
  <2>3. sentTo'[q] = IF q = r THEN 1 ELSE sentTo[q]
    BY <1>1, <1>4, <2>2 DEF DeliveriesTyped
  <2>4. (rowReceipt'[q] = "none" <=> rowReceipt[q] = "none")
    BY <1>1, <1>5, <2>2 DEF DeliveriesTyped
  <2>5. RowToldOnce(q)'
    <3>1. CASE q = r
      BY <2>2, <2>3, <2>4, <3>1 DEF RowToldOnce
    <3>2. CASE q # r
      BY <2>1, <2>3, <2>4, <3>2 DEF RowToldOnce
    <3> QED BY <3>1, <3>2
  <2>6. ASSUME NEW d \in Couriers, Transmits(d, q)' PROVE Transmits(d, q) /\ q # r
    <3>1. d # c
      BY <1>2, <1>6, <2>6 DEF Transmits
    <3>2. Transmits(d, q)
      BY <1>6, <2>6, <3>1 DEF Transmits
    <3> QED BY <2>1, <2>2, <3>1, <3>2 DEF RowOpened
  <2>7. RowOpened(q)'
    BY <2>1, <2>3, <2>4, <2>6 DEF RowOpened
  <2>8. Decided(q)' => Decided(q)
    BY <1>2, <1>6 DEF Decided
  <2>9. q \in refused => q # r
    BY <1>1, <2>1 DEF RefusalHolds, Decided, r
  <2>10. RefusalHolds(q)'
    BY <1>1, <2>1, <2>3, <2>8, <2>9 DEF RefusalHolds
  <2> QED BY <2>5, <2>7, <2>10
<1> QED BY <1>1, <1>3, <1>9, <1>10 DEF DeliveriesInv

LEMMA DeliveriesStep == DeliveriesInv /\ [DeliveriesNext]_deliveryVars => DeliveriesInv'
<1> SUFFICES ASSUME DeliveriesInv, [DeliveriesNext]_deliveryVars PROVE DeliveriesInv'
  OBVIOUS
<1>1. CASE QueueRow \/ OptOut \/ OptIn \/ SetPolicy \/ CancelRows
  BY <1>1, PoliciesKeep
<1>2. CASE \E r \in RowIds : ExhaustRow(r) \/ RowTimePasses(r) \/ \E c \in Couriers : ClaimRow(c, r)
  BY <1>2, RowStepsKeep, ClaimRowKeeps
<1>3. CASE \E c \in Couriers : ReleaseRow(c) \/ DeliverRow(c) \/ LoseCourier(c)
  <2>1. PICK c \in Couriers : ReleaseRow(c) \/ DeliverRow(c) \/ LoseCourier(c)
    BY <1>3
  <2>2. CASE ReleaseRow(c) \/ LoseCourier(c)
    BY <2>2, ReleaseAndRetryKeep
  <2>3. CASE DeliverRow(c)
    BY <2>3, ReleaseAndRetryKeep, LooksKeep, RecheckKeeps, SendRowKeeps, TransmitRowKeeps DEF DeliverRow
  <2> QED BY <2>1, <2>2, <2>3
<1>4. CASE UNCHANGED deliveryVars
  <2>1. row' \in [RowIds -> DeliveryRows] /\ rowCourier' \in [Couriers -> CourierCopies]
    BY <1>4 DEF deliveryVars, DeliveriesInv, DeliveriesTyped
  <2> QED BY <1>4, <2>1, QuietCourier DEF deliveryVars, OthersStay
<1> QED BY <1>1, <1>2, <1>3, <1>4 DEF DeliveriesNext

\* Through every interleaving of couriers, lost leases and changes of mind: a row is told to
\* its recipient once at most, and not at all when the recipient had opted out before a
\* courier looked for the last time (deliverScheduleRecipient, SendOnce).
THEOREM DeliveriesWelcome == DeliveriesSpec => []ToldOnceAndWelcome
<1>1. DeliveriesInv => ToldOnceAndWelcome
  <2> SUFFICES ASSUME DeliveriesInv, NEW r \in RowIds PROVE sentTo[r] <= 1 /\ (r \in refused => sentTo[r] = 0)
    BY DEF ToldOnceAndWelcome
  <2>1. sentTo[r] \in {0, 1}
    BY DEF DeliveriesInv, RowToldOnce
  <2>2. sentTo[r] <= 1
    BY <2>1
  <2> QED BY <2>2 DEF DeliveriesInv, RefusalHolds
<1> QED BY <1>1, DeliveriesInitial, DeliveriesStep, PTL DEF DeliveriesSpec

--------------------------------------------------------------------------------
(* Automation runs *)

RunPcs == {"idle", "start", "begin", "act", "assess", "retrySafe", "recover", "compose", "deliver", "transmit",
           "complete", "failDelivery", "retry"}
RunRows == [status : {"absent", "pending", "processing", "done", "failed"}, attempts : Nat, claim : Nat,
            stale : BOOLEAN, ready : BOOLEAN, started : BOOLEAN, result : BOOLEAN,
            outcome : {"", "succeeded", "no_change", "uncertain", "failed"}]
RunCopies == [pc : RunPcs, attempts : Nat, started : BOOLEAN, result : BOOLEAN, wrote : BOOLEAN]

AutomationTyped ==
  /\ runKind \in {"report", "action", "silent"}
  /\ run \in RunRows
  /\ runCopy \in [Runners -> RunCopies]
  /\ runReceipt \in {"none", "started", "delivered", "failed"}
  /\ doubtful \in BOOLEAN

Turning  == {"act", "assess", "retrySafe"}          \* between the boundary and its verdict
Acting   == Turning \cup {"begin", "recover"}
Sending  == {"deliver", "transmit", "complete", "failDelivery"}
Blameless(n) == runCopy[n].pc \in {"act", "retrySafe"} \/ (runCopy[n].pc = "assess" /\ ~runCopy[n].wrote)
Vouched == run.outcome \in {"succeeded", "no_change"}

\* A turn is taken behind a boundary that is stored ...
CopySound(n) ==
  /\ runCopy[n].pc \in Turning => run.started
  /\ Blameless(n) => effects = 0
  /\ runCopy[n].pc = "assess" /\ runCopy[n].wrote => effects = 1
  /\ runCopy[n].pc \in Acting => runKind # "report"
  /\ runCopy[n].pc = "compose" => runKind = "report"
\* ... and a report is sent from what is stored.
HolderSound(n) ==
  runKind # "report" /\ HoldsRun(n) =>
    /\ runCopy[n].pc = "start" /\ runCopy[n].result => run.result
    /\ runCopy[n].pc \in Sending => run.result
OneTurn == \A m, n \in Runners : runCopy[m].pc \in Turning /\ runCopy[n].pc \in Turning => m = n
NobodyTurns == \A n \in Runners : runCopy[n].pc \notin Turning

EffectsCounted ==
  /\ effects \in {0, 1}
  /\ effects = 1 => run.started /\ runKind # "report"
  /\ run.status = "absent" => ~run.started
DoubtEndsTurns == doubtful => effects = 1 /\ NobodyTurns
VouchingIsFinal == runKind # "report" /\ Vouched => run.started /\ ~doubtful /\ NobodyTurns
ResultsHaveOutcomes ==
  runKind # "report" => /\ run.result => run.outcome # ""
                        /\ run.status = "done" => Vouched
ReportsCounted ==
  /\ reportsSent \in {0, 1}
  /\ runReceipt = "none" => reportsSent = 0
  /\ \A n \in Runners : runCopy[n].pc = "transmit" => runReceipt # "none" /\ reportsSent = 0
  /\ \A m, n \in Runners : runCopy[m].pc = "transmit" /\ runCopy[n].pc = "transmit" => m = n

AutomationInv ==
  /\ AutomationTyped
  /\ \A n \in Runners : CopySound(n) /\ HolderSound(n)
  /\ OneTurn /\ EffectsCounted /\ DoubtEndsTurns /\ VouchingIsFinal /\ ResultsHaveOutcomes
  /\ ReportsCounted

LEMMA ZeroIsNotOne == \A x : x = 0 => x # 1
<1>1. 0 # 1
  OBVIOUS
<1> QED BY <1>1

LEMMA AutomationInitial == AutomationInit => AutomationInv
<1> SUFFICES ASSUME AutomationInit PROVE AutomationInv
  OBVIOUS
<1>1. AutomationTyped
  BY AutomationAssumption DEF AutomationInit, AutomationTyped, NoRun, IdleRunner, RunRows, RunCopies, RunPcs
<1>2. \A n \in Runners : runCopy[n].pc = "idle"
  BY DEF AutomationInit, IdleRunner
<1>3. run.status = "absent" /\ ~run.started /\ ~run.result /\ run.outcome = "" /\ effects = 0 /\ ~doubtful
      /\ reportsSent = 0
  BY DEF AutomationInit, NoRun
<1>4. \A n \in Runners : CopySound(n) /\ HolderSound(n)
  BY <1>2, <1>3 DEF CopySound, HolderSound, HoldsRun, Blameless, Acting, Turning
<1>7. EffectsCounted
  <2>3. effects = 0
    BY <1>3
  <2>1. effects \in {0, 1} /\ effects # 1
    BY <2>3, ZeroIsNotOne
  <2>2. ~run.started
    BY <1>3
  <2> QED BY <2>1, <2>2 DEF EffectsCounted
<1>5. OneTurn /\ DoubtEndsTurns /\ VouchingIsFinal /\ ResultsHaveOutcomes
  BY <1>2, <1>3 DEF OneTurn, DoubtEndsTurns, VouchingIsFinal, ResultsHaveOutcomes, Vouched, Turning
<1>6. ReportsCounted
  BY <1>2, <1>3 DEF ReportsCounted
<1> QED BY <1>1, <1>4, <1>5, <1>6, <1>7 DEF AutomationInv

\* What happens to the row without a runner.
LEMMA RowMoves ==
  ASSUME AutomationInv, NEW r \in RunRows, run' = r,
         UNCHANGED <<runKind, runCopy, runReceipt, effects, doubtful, reportsSent>>,
         r.started = run.started, r.result = run.result,
         r.outcome = run.outcome \/ (r.outcome = "failed" /\ r.status = "failed"),
         r.status = run.status \/ r.status = "failed",
         r.status = "processing" => r.claim = run.claim
  PROVE  AutomationInv'
<1>1. AutomationTyped'
  BY DEF AutomationInv, AutomationTyped
<1>2. ASSUME NEW n \in Runners PROVE CopySound(n)' /\ HolderSound(n)'
  <2>1. CopySound(n) /\ HolderSound(n)
    BY DEF AutomationInv
  <2>2. HoldsRun(n)' => HoldsRun(n)
    BY DEF HoldsRun
  <2>3. CopySound(n)'
    BY <2>1 DEF CopySound, Blameless
  <2>4. HolderSound(n)'
    BY <2>1, <2>2 DEF HolderSound
  <2> QED BY <2>3, <2>4
<1>3. OneTurn'
  BY DEF AutomationInv, OneTurn
<1>4. EffectsCounted'
  BY DEF AutomationInv, EffectsCounted
<1>5. DoubtEndsTurns' /\ VouchingIsFinal'
  BY DEF AutomationInv, DoubtEndsTurns, VouchingIsFinal, NobodyTurns, Vouched
<1>6. ResultsHaveOutcomes'
  BY DEF AutomationInv, ResultsHaveOutcomes, Vouched
<1>7. ReportsCounted'
  BY DEF AutomationInv, ReportsCounted
<1> QED BY <1>1, <1>2, <1>3, <1>4, <1>5, <1>6, <1>7 DEF AutomationInv

LEMMA FailedRow ==
  ASSUME NEW r \in RunRows
  PROVE  /\ RunFailed(r) \in RunRows /\ RunFailed(r).started = r.started /\ RunFailed(r).result = r.result
         /\ RunFailed(r).status = "failed"
         /\ RunFailed(r).outcome = IF r.outcome = "" THEN "failed" ELSE r.outcome
<1> DEFINE o == IF r.outcome = "" THEN "failed" ELSE r.outcome
<1>1. o \in {"", "succeeded", "no_change", "uncertain", "failed"}
  BY DEF RunRows
<1>2. RunFailed(r) = [r EXCEPT !.status = "failed", !.claim = 0, !.stale = FALSE, !.outcome = o]
  BY DEF RunFailed
<1> HIDE DEF o
<1>6. [r EXCEPT !.status = "failed", !.claim = 0, !.stale = FALSE, !.outcome = o] \in RunRows
  BY <1>1 DEF RunRows
<1>3. RunFailed(r) \in RunRows
  BY <1>2, <1>6
<1>4. RunFailed(r).started = r.started /\ RunFailed(r).result = r.result
  BY <1>2 DEF RunRows
<1>5. RunFailed(r).status = "failed" /\ RunFailed(r).outcome = o
  BY <1>2 DEF RunRows
<1> QED BY <1>3, <1>4, <1>5 DEF o

LEMMA RowMovesKeep ==
  ASSUME AutomationInv, ExhaustRun \/ ExpireRun \/ RunTimePasses \/ PeriodEnds
  PROVE  AutomationInv'
<1>1. run \in RunRows /\ UNCHANGED <<runKind, runCopy, runReceipt, effects, doubtful, reportsSent>>
  BY DEF AutomationInv, AutomationTyped, ExhaustRun, ExpireRun, RunTimePasses, PeriodEnds
<1>2. CASE ExhaustRun \/ ExpireRun
  <2>1. run' = RunFailed(run)
    BY <1>2 DEF ExhaustRun, ExpireRun
  <2> QED BY <1>1, <2>1, FailedRow, RowMoves
<1>3. CASE RunTimePasses
  <2>1. \/ run' = [run EXCEPT !.stale = TRUE]
        \/ run' = [run EXCEPT !.ready = TRUE]
    BY <1>3 DEF RunTimePasses
  <2>2. /\ run' \in RunRows
        /\ run'.started = run.started /\ run'.result = run.result /\ run'.outcome = run.outcome
        /\ run'.status = run.status /\ run'.claim = run.claim
    BY <1>1, <2>1 DEF RunRows
  <2> QED BY <1>1, <2>2, RowMoves
<1>4. CASE PeriodEnds
  BY <1>1, <1>4, RowMoves DEF PeriodEnds
<1> QED BY <1>2, <1>3, <1>4

\* What a runner does leaves the others sound.
LEMMA OthersStand ==
  ASSUME AutomationInv, NEW m \in Runners, runCopy'[m] = runCopy[m], runKind' = runKind,
         run'.started = run.started \/ runCopy[m].pc \notin Turning,
         effects' = effects \/ runCopy[m].pc \notin Turning,
         run' = run \/ ~HoldsRun(m)'
  PROVE  CopySound(m)' /\ HolderSound(m)'
<1>1. CopySound(m) /\ HolderSound(m)
  BY DEF AutomationInv
<1>2. CopySound(m)'
  BY <1>1 DEF CopySound, Blameless, Turning
<1>3. HolderSound(m)'
  BY <1>1 DEF HolderSound, HoldsRun
<1> QED BY <1>2, <1>3

LEMMA CopyEdits ==
  ASSUME NEW t \in RunCopies, NEW pc \in RunPcs
  PROVE  /\ [t EXCEPT !.pc = pc] \in RunCopies /\ [t EXCEPT !.pc = pc].pc = pc
         /\ [t EXCEPT !.pc = pc].result = t.result /\ [t EXCEPT !.pc = pc].wrote = t.wrote
  BY DEF RunCopies

LEMMA IdleIsCopy == IdleRunner \in RunCopies /\ IdleRunner.pc = "idle" /\ ~IdleRunner.result
  BY DEF RunCopies, IdleRunner, RunPcs

\* A runner moves on and writes nothing.
LEMMA QuietMove ==
  ASSUME AutomationInv, NEW n \in Runners, NEW s \in RunCopies, runCopy' = [runCopy EXCEPT ![n] = s],
         UNCHANGED <<runKind, run, runReceipt, effects, doubtful, reportsSent>>,
         s.pc \notin {"start", "transmit", "act", "assess"},
         s.pc = "retrySafe" => runCopy[n].pc = "assess" /\ ~runCopy[n].wrote,
         s.pc \in Acting => runKind # "report",
         s.pc = "compose" => runKind = "report",
         s.pc \in Sending /\ runKind # "report" /\ HoldsRun(n) => run.result
  PROVE  AutomationInv'
<1>1. runCopy'[n] = s /\ \A m \in Runners : m # n => runCopy'[m] = runCopy[m]
  BY DEF AutomationInv, AutomationTyped
<1>2. AutomationTyped'
  BY DEF AutomationInv, AutomationTyped
<1>3. CopySound(n)
  BY DEF AutomationInv
<1>4. \A m \in Runners : runCopy'[m].pc \in Turning => runCopy[m].pc \in Turning
  BY <1>1 DEF Turning
<1>5. CopySound(n)'
  BY <1>1, <1>3 DEF CopySound, Blameless, Turning
<1>6. HolderSound(n)'
  BY <1>1 DEF HolderSound, HoldsRun
<1>7. \A m \in Runners : CopySound(m)' /\ HolderSound(m)'
  BY <1>1, <1>5, <1>6, OthersStand
<1>8. OneTurn' /\ DoubtEndsTurns' /\ VouchingIsFinal'
  BY <1>4 DEF AutomationInv, OneTurn, DoubtEndsTurns, VouchingIsFinal, NobodyTurns, Vouched
<1>9. EffectsCounted'
  BY DEF AutomationInv, EffectsCounted
<1>10. ResultsHaveOutcomes'
  BY DEF AutomationInv, ResultsHaveOutcomes, Vouched
<1>11. ReportsCounted'
  BY <1>1 DEF AutomationInv, ReportsCounted
<1> QED BY <1>2, <1>7, <1>8, <1>9, <1>10, <1>11 DEF AutomationInv

LEMMA Moving ==
  ASSUME AutomationInv, NEW n \in Runners, NEW pc \in RunPcs, OnTo(n, pc),
         UNCHANGED <<runKind, run, runReceipt, effects, doubtful, reportsSent>>,
         pc \notin {"start", "transmit", "act", "assess"},
         pc = "retrySafe" => runCopy[n].pc = "assess" /\ ~runCopy[n].wrote,
         pc \in Acting => runKind # "report",
         pc = "compose" => runKind = "report",
         pc \in Sending /\ runKind # "report" /\ HoldsRun(n) => run.result
  PROVE  AutomationInv'
<1>1. runCopy[n] \in RunCopies
  BY DEF AutomationInv, AutomationTyped
<1> DEFINE s == [runCopy[n] EXCEPT !.pc = pc]
<1>2. runCopy' = [runCopy EXCEPT ![n] = s]
  BY DEF OnTo, AutomationInv, AutomationTyped
<1>3. s \in RunCopies /\ s.pc = pc
  BY <1>1, CopyEdits
<1> HIDE DEF s
<1> QED BY <1>2, <1>3, QuietMove

\* The holder writes the row.
LEMMA HolderWrites ==
  ASSUME AutomationInv, NEW n \in Runners, NEW s \in RunCopies, runCopy' = [runCopy EXCEPT ![n] = s],
         NEW r \in RunRows, run' = r, HoldsRun(n),
         UNCHANGED <<runKind, runReceipt, effects, doubtful, reportsSent>>,
         r.started = run.started \/ (runCopy[n].pc = "retrySafe" /\ ~r.started),
         r.status # "absent",
         r.status = "processing" => r.claim = run.claim,
         s.pc \in {"idle", "deliver"},
         s.pc = "deliver" => r.result,
         runKind # "report" => (r.result => r.outcome # ""),
         runKind # "report" /\ r.status = "done" => r.outcome \in {"succeeded", "no_change"},
         runKind # "report" /\ r.outcome \in {"succeeded", "no_change"}
           => \/ runCopy[n].pc = "assess"
              \/ Vouched /\ r.started = run.started
  PROVE  AutomationInv'
<1>1. runCopy'[n] = s /\ \A m \in Runners : m # n => runCopy'[m] = runCopy[m]
  BY DEF AutomationInv, AutomationTyped
<1>2. AutomationTyped'
  BY DEF AutomationInv, AutomationTyped
<1>3. CopySound(n)
  BY DEF AutomationInv
<1>4. \A m \in Runners : runCopy'[m].pc \in Turning => m # n /\ runCopy[m].pc \in Turning
  BY <1>1 DEF Turning
<1>5. CopySound(n)' /\ HolderSound(n)'
  BY <1>1 DEF CopySound, Blameless, HolderSound, HoldsRun, Turning, Acting, Sending
<1>6. ASSUME NEW m \in Runners, m # n PROVE CopySound(m)' /\ HolderSound(m)'
  <2>1. run'.started = run.started \/ runCopy[m].pc \notin Turning
    BY <1>6 DEF AutomationInv, OneTurn, Turning
  <2>2. ~HoldsRun(m)'
    BY <1>6 DEF HoldsRun
  <2> QED BY <1>1, <1>6, <2>1, <2>2, OthersStand
<1>7. OneTurn' /\ DoubtEndsTurns'
  BY <1>4 DEF AutomationInv, OneTurn, DoubtEndsTurns, NobodyTurns
<1>8. EffectsCounted'
  <2>1. runCopy[n].pc = "retrySafe" => effects # 1
    <3>1. runCopy[n].pc = "retrySafe" => effects = 0
      BY <1>3 DEF CopySound, Blameless
    <3> QED BY <3>1, ZeroIsNotOne
  <2>2. effects \in {0, 1} /\ (effects = 1 => run.started /\ runKind # "report")
    BY DEF AutomationInv, EffectsCounted
  <2>3. effects = 1 => r.started /\ runKind # "report"
    BY <2>1, <2>2
  <2>4. r.status # "absent"
    OBVIOUS
  <2> QED BY <2>2, <2>3, <2>4 DEF EffectsCounted
<1>9. VouchingIsFinal'
  <2> SUFFICES ASSUME runKind # "report", r.outcome \in {"succeeded", "no_change"}
               PROVE  r.started /\ ~doubtful /\ NobodyTurns'
    BY DEF VouchingIsFinal, Vouched
  <2>1. CASE runCopy[n].pc = "assess"
    <3>1. r.started /\ ~doubtful
      BY <1>3, <2>1 DEF CopySound, AutomationInv, DoubtEndsTurns, NobodyTurns, Turning
    <3>2. NobodyTurns'
      BY <1>4, <2>1 DEF NobodyTurns, AutomationInv, OneTurn, Turning
    <3> QED BY <3>1, <3>2
  <2>2. CASE Vouched /\ r.started = run.started
    BY <1>4, <2>2 DEF AutomationInv, VouchingIsFinal, NobodyTurns
  <2> QED BY <2>1, <2>2
<1>10. ResultsHaveOutcomes'
  BY DEF ResultsHaveOutcomes, Vouched
<1>11. ReportsCounted'
  BY <1>1, ZenonT(60) DEF AutomationInv, ReportsCounted
<1> QED BY <1>2, <1>5, <1>6, <1>7, <1>8, <1>9, <1>10, <1>11 DEF AutomationInv

LEMMA PreparedKeeps ==
  ASSUME AutomationInv, NEW n \in Runners, NEW o \in {"succeeded", "no_change", "uncertain", "failed"},
         Prepared(n, o), UNCHANGED <<runKind, runReceipt, effects, doubtful, reportsSent>>,
         runCopy[n].pc \in {"recover", "assess", "compose"},
         o \in {"succeeded", "no_change"} => runCopy[n].pc = "assess" \/ runKind = "report"
  PROVE  AutomationInv'
<1>1. CASE HoldsRun(n)
  <2> DEFINE r == [run EXCEPT !.result = TRUE, !.outcome = o]
             s == [runCopy[n] EXCEPT !.pc = "deliver"]
  <2>1. run \in RunRows /\ runCopy[n] \in RunCopies /\ run.status = "processing"
    BY <1>1 DEF AutomationInv, AutomationTyped, HoldsRun
  <2>2. run' = r /\ runCopy' = [runCopy EXCEPT ![n] = s]
    BY <1>1 DEF Prepared, OnTo, AutomationInv, AutomationTyped
  <2>3. r \in RunRows
    BY <2>1 DEF RunRows
  <2>4. r.started = run.started /\ r.status = "processing" /\ r.claim = run.claim /\ r.result /\ r.outcome = o
    BY <2>1 DEF RunRows
  <2>5. s \in RunCopies /\ s.pc = "deliver"
    BY <2>1, CopyEdits DEF RunPcs
  <2> HIDE DEF r, s
  <2> QED BY <1>1, <2>2, <2>3, <2>4, <2>5, HolderWrites
<1>2. CASE ~HoldsRun(n)
  <2>1. OnTo(n, "retry") /\ UNCHANGED run
    BY <1>2 DEF Prepared
  <2> QED BY <2>1, Moving DEF RunPcs, Acting, Turning, Sending
<1> QED BY <1>1, <1>2

LEMMA ClaimRunKeeps ==
  ASSUME AutomationInv, NEW n \in Runners, ClaimRun(n)
  PROVE  AutomationInv'
<1> DEFINE v == Visited
           r == [v EXCEPT !.status = "processing", !.claim = n, !.stale = FALSE, !.attempts = @ + 1]
           s == [pc |-> "start", attempts |-> v.attempts + 1, started |-> v.started, result |-> v.result,
                 wrote |-> FALSE]
<1>1. run \in RunRows /\ n \in Nat
  BY AutomationAssumption DEF AutomationInv, AutomationTyped
<1>2. v \in RunRows
  BY <1>1 DEF Visited, NoRun, RunRows
<1>3. ~run.started => ~v.started
  BY DEF Visited, NoRun
<1>4. run.status = "absent" => ~run.started
  BY DEF AutomationInv, EffectsCounted
<1>5. v.started = run.started
  BY <1>1, <1>4 DEF Visited, NoRun, RunRows
<1>6. v.result => v.result = run.result /\ v.outcome = run.outcome
  BY DEF Visited, NoRun
<1>7. v.outcome # "" => v.outcome = run.outcome
  BY DEF Visited, NoRun
<1>8. run' = r /\ runCopy' = [runCopy EXCEPT ![n] = s] /\ runCopy[n].pc = "idle"
      /\ UNCHANGED <<runKind, runReceipt, effects, doubtful, reportsSent>>
  BY DEF ClaimRun
<1> HIDE DEF v
<1>9. r \in RunRows
  <2>1. v.attempts \in Nat
    BY <1>2 DEF RunRows
  <2>2. v.attempts + 1 \in Nat
    BY <2>1
  <2>3. r = [v EXCEPT !.status = "processing", !.claim = n, !.stale = FALSE, !.attempts = v.attempts + 1]
    OBVIOUS
  <2> QED BY <1>1, <1>2, <2>2, <2>3 DEF RunRows
<1>10. r.started = v.started /\ r.result = v.result /\ r.outcome = v.outcome /\ r.status = "processing" /\ r.claim = n
  BY <1>2 DEF RunRows
<1>11. s \in RunCopies
  <2>1. v.attempts \in Nat
    BY <1>2 DEF RunRows
  <2>2. v.attempts + 1 \in Nat
    BY <2>1
  <2>3. v.started \in BOOLEAN /\ v.result \in BOOLEAN
    BY <1>2 DEF RunRows
  <2> QED BY <2>2, <2>3 DEF RunCopies, RunPcs
<1>12. s.pc = "start" /\ s.result = v.result
  OBVIOUS
<1> HIDE DEF r, s
<1>13. runCopy'[n] = s /\ \A m \in Runners : m # n => runCopy'[m] = runCopy[m]
  BY <1>8 DEF AutomationInv, AutomationTyped
<1>14. AutomationTyped'
  BY <1>8, <1>9, <1>11 DEF AutomationInv, AutomationTyped
<1>15. CopySound(n)' /\ HolderSound(n)'
  BY <1>8, <1>10, <1>12, <1>13 DEF CopySound, HolderSound, HoldsRun, Blameless, Acting, Turning, Sending
<1>16. ASSUME NEW m \in Runners, m # n PROVE CopySound(m)' /\ HolderSound(m)'
  <2>1. ~HoldsRun(m)'
    BY <1>8, <1>10, <1>16 DEF HoldsRun
  <2> QED BY <1>5, <1>8, <1>10, <1>13, <1>16, <2>1, OthersStand
<1>17. \A m \in Runners : runCopy'[m].pc \in Turning => runCopy[m].pc \in Turning
  BY <1>12, <1>13 DEF Turning
<1>18. OneTurn' /\ DoubtEndsTurns'
  BY <1>8, <1>17 DEF AutomationInv, OneTurn, DoubtEndsTurns, NobodyTurns
<1>19. EffectsCounted'
  <2>1. effects' = effects /\ run'.started = run.started /\ run'.status # "absent" /\ runKind' = runKind
    BY <1>5, <1>8, <1>10
  <2> QED BY <2>1 DEF AutomationInv, EffectsCounted
<1>20. VouchingIsFinal'
  <2>1. Vouched' => Vouched
    BY <1>7, <1>8, <1>10 DEF Vouched
  <2> QED BY <1>5, <1>8, <1>10, <1>17, <2>1 DEF AutomationInv, VouchingIsFinal, NobodyTurns
<1>21. ResultsHaveOutcomes'
  BY <1>6, <1>8, <1>10 DEF AutomationInv, ResultsHaveOutcomes
<1>22. ReportsCounted'
  BY <1>8, <1>12, <1>13 DEF AutomationInv, ReportsCounted
<1> QED BY <1>14, <1>15, <1>16, <1>18, <1>19, <1>20, <1>21, <1>22 DEF AutomationInv

LEMMA StartRunKeeps ==
  ASSUME AutomationInv, NEW n \in Runners, StartRun(n)
  PROVE  AutomationInv'
<1>1. HolderSound(n) /\ runCopy[n].pc = "start"
      /\ UNCHANGED <<runKind, run, runReceipt, effects, doubtful, reportsSent>>
  BY DEF AutomationInv, StartRun
<1>2. PICK pc \in RunPcs :
        /\ OnTo(n, pc)
        /\ pc \in {"retry", "deliver", "compose", "recover", "begin"}
        /\ pc \in {"recover", "begin"} => runKind # "report"
        /\ pc = "compose" => runKind = "report"
        /\ pc = "deliver" => runCopy[n].result
  BY DEF StartRun, RunPcs
<1>3. pc \in Sending /\ runKind # "report" /\ HoldsRun(n) => run.result
  BY <1>1, <1>2 DEF HolderSound, Sending
<1>4. pc \notin {"start", "transmit", "act", "assess"} /\ pc # "retrySafe" /\ (pc \in Acting => runKind # "report")
  BY <1>2 DEF Acting, Turning
<1> QED BY <1>1, <1>2, <1>3, <1>4, Moving

LEMMA BeginActionKeeps ==
  ASSUME AutomationInv, NEW n \in Runners, BeginAction(n)
  PROVE  AutomationInv'
<1>1. runCopy[n].pc = "begin" /\ UNCHANGED <<runKind, runReceipt, effects, doubtful, reportsSent>>
  BY DEF BeginAction
<1>2. CASE OnTo(n, "retry") /\ UNCHANGED run
  BY <1>1, <1>2, Moving DEF RunPcs, Acting, Turning, Sending
<1>3. CASE HoldsRun(n) /\ ~run.started /\ run' = [run EXCEPT !.started = TRUE] /\ OnTo(n, "act")
  <2> DEFINE r == [run EXCEPT !.started = TRUE]
             s == [runCopy[n] EXCEPT !.pc = "act"]
  <2>1. run \in RunRows /\ runCopy[n] \in RunCopies
    BY DEF AutomationInv, AutomationTyped
  <2>2. run' = r /\ runCopy' = [runCopy EXCEPT ![n] = s]
    BY <1>3 DEF OnTo, AutomationInv, AutomationTyped
  <2>3. r \in RunRows /\ r.started /\ r.status = run.status /\ r.claim = run.claim /\ r.result = run.result
        /\ r.outcome = run.outcome
    BY <2>1 DEF RunRows
  <2>4. s \in RunCopies /\ s.pc = "act"
    BY <2>1, CopyEdits DEF RunPcs
  <2> HIDE DEF r, s
  <2>5. runCopy'[n] = s /\ \A m \in Runners : m # n => runCopy'[m] = runCopy[m]
    BY <2>2 DEF AutomationInv, AutomationTyped
  <2>6. AutomationTyped'
    BY <1>1, <2>2, <2>3, <2>4 DEF AutomationInv, AutomationTyped
  <2>7. \A m \in Runners : runCopy[m].pc \notin Turning
    BY <1>3 DEF AutomationInv, CopySound
  <2>8. effects \in {0, 1} /\ effects # 1
    BY <1>3 DEF AutomationInv, EffectsCounted
  <2>9. effects' = 0
    BY <1>1, <2>8
  <2>10. CopySound(n) /\ runKind' # "report"
    BY <1>1 DEF AutomationInv, CopySound, Acting
  <2>11. CopySound(n)' /\ HolderSound(n)'
    BY <2>2, <2>3, <2>4, <2>5, <2>9, <2>10 DEF CopySound, HolderSound, Sending
  <2>12. ASSUME NEW m \in Runners, m # n PROVE CopySound(m)' /\ HolderSound(m)'
    <3>1. ~HoldsRun(m)'
      BY <1>3, <2>2, <2>3, <2>12 DEF HoldsRun
    <3> QED BY <1>1, <2>5, <2>7, <2>12, <3>1, OthersStand
  <2>13. OneTurn'
    BY <2>5, <2>7 DEF OneTurn
  <2>14. DoubtEndsTurns'
    <3>1. doubtful => effects = 1
      BY DEF AutomationInv, DoubtEndsTurns
    <3>2. ~doubtful'
      BY <1>1, <2>8, <3>1
    <3> QED BY <3>2 DEF DoubtEndsTurns
  <2>15. EffectsCounted'
    <3>1. effects' \in {0, 1} /\ effects' # 1
      BY <2>9
    <3>2. run'.status # "absent"
      BY <1>3, <2>2, <2>3 DEF HoldsRun
    <3> QED BY <3>1, <3>2 DEF EffectsCounted
  <2>16. VouchingIsFinal'
    BY <1>1, <1>3, <2>2, <2>3 DEF AutomationInv, VouchingIsFinal, Vouched
  <2>17. ResultsHaveOutcomes'
    BY <1>1, <2>2, <2>3 DEF AutomationInv, ResultsHaveOutcomes, Vouched
  <2>18. ReportsCounted'
    BY <1>1, <2>4, <2>5 DEF AutomationInv, ReportsCounted
  <2> QED BY <2>6, <2>11, <2>12, <2>13, <2>14, <2>15, <2>16, <2>17, <2>18 DEF AutomationInv
<1> QED BY <1>2, <1>3 DEF BeginAction

\* The turn may have written by now, and is over.
LEMMA TakeTurnKeeps ==
  ASSUME AutomationInv, NEW n \in Runners, TakeTurn(n)
  PROVE  AutomationInv'
<1>1. runCopy[n].pc = "act" /\ UNCHANGED <<runKind, run, runReceipt, reportsSent>>
  BY DEF TakeTurn
<1>2. PICK wrote \in BOOLEAN, broke \in BOOLEAN :
        /\ effects' = IF wrote THEN effects + 1 ELSE effects
        /\ doubtful' = (doubtful \/ (wrote /\ broke))
        /\ runCopy' = [runCopy EXCEPT ![n].pc = IF broke THEN "recover" ELSE "assess", ![n].wrote = wrote]
  BY DEF TakeTurn
<1>3. CopySound(n) /\ HolderSound(n) /\ run.started /\ effects = 0 /\ runKind # "report"
  BY <1>1 DEF AutomationInv, CopySound, Blameless, Acting, Turning
<1>4. effects' = (IF wrote THEN 1 ELSE 0)
  BY <1>2, <1>3
<1>5. ~doubtful
  <2>1. doubtful => NobodyTurns
    BY DEF AutomationInv, DoubtEndsTurns
  <2> QED BY <1>1, <2>1 DEF NobodyTurns, Turning
<1> DEFINE s == [runCopy[n] EXCEPT !.pc = IF broke THEN "recover" ELSE "assess", !.wrote = wrote]
<1>6. runCopy' = [runCopy EXCEPT ![n] = s] /\ runCopy[n] \in RunCopies
  BY <1>2 DEF AutomationInv, AutomationTyped
<1>7. s \in RunCopies /\ s.pc = (IF broke THEN "recover" ELSE "assess") /\ s.wrote = wrote
  BY <1>6 DEF RunCopies, RunPcs
<1> HIDE DEF s
<1>8. runCopy'[n] = s /\ \A m \in Runners : m # n => runCopy'[m] = runCopy[m]
  BY <1>6 DEF AutomationInv, AutomationTyped
<1>9. doubtful' \in BOOLEAN
  BY <1>2 DEF AutomationInv, AutomationTyped
<1>10. AutomationTyped'
  BY <1>1, <1>6, <1>7, <1>9 DEF AutomationInv, AutomationTyped
<1>11. \A m \in Runners : m # n => runCopy[m].pc \notin Turning
  BY <1>1 DEF AutomationInv, OneTurn, Turning
<1>12. (~wrote => effects' = 0) /\ (wrote => effects' = 1)
  BY <1>4
<1>21. CopySound(n)'
  BY <1>1, <1>3, <1>7, <1>8, <1>12 DEF CopySound, Blameless, Turning, Acting
<1>13. CopySound(n)' /\ HolderSound(n)'
  BY <1>7, <1>8, <1>21 DEF HolderSound, Sending
<1>14. ASSUME NEW m \in Runners, m # n PROVE CopySound(m)' /\ HolderSound(m)'
  BY <1>1, <1>8, <1>11, <1>14, OthersStand
<1>15. OneTurn'
  BY <1>8, <1>11 DEF OneTurn
<1>16. DoubtEndsTurns'
  <2>1. doubtful' => wrote /\ broke
    BY <1>2, <1>5
  <2>2. wrote => effects' = 1
    BY <1>4
  <2>3. broke => NobodyTurns'
    BY <1>7, <1>8, <1>11 DEF NobodyTurns, Turning
  <2> QED BY <2>1, <2>2, <2>3 DEF DoubtEndsTurns
<1>17. EffectsCounted'
  <2>1. effects' \in {0, 1}
    BY <1>4
  <2>2. run'.started /\ runKind' # "report" /\ run'.status # "absent"
    BY <1>1, <1>3 DEF AutomationInv, EffectsCounted
  <2> QED BY <2>1, <2>2 DEF EffectsCounted
<1>18. VouchingIsFinal'
  <2>1. ~Vouched
    BY <1>1, <1>3 DEF AutomationInv, VouchingIsFinal, NobodyTurns, Turning
  <2> QED BY <1>1, <2>1 DEF VouchingIsFinal, Vouched
<1>19. ResultsHaveOutcomes'
  BY <1>1 DEF AutomationInv, ResultsHaveOutcomes, Vouched
<1>20. ReportsCounted'
  BY <1>1, <1>7, <1>8 DEF AutomationInv, ReportsCounted
<1> QED BY <1>10, <1>13, <1>14, <1>15, <1>16, <1>17, <1>18, <1>19, <1>20 DEF AutomationInv

LEMMA VerdictKeeps ==
  ASSUME AutomationInv, NEW n \in Runners, Recover(n) \/ Assess(n) \/ Compose(n)
  PROVE  AutomationInv'
<1>1. UNCHANGED <<runKind, runReceipt, effects, doubtful, reportsSent>>
      /\ CopySound(n) /\ HolderSound(n)
  BY DEF Recover, Assess, Compose, AutomationInv
<1>2. CASE OnTo(n, "retry") /\ UNCHANGED run
  BY <1>1, <1>2, Moving DEF RunPcs, Acting, Turning, Sending
<1>3. CASE Recover(n) /\ Prepared(n, "uncertain")
  BY <1>1, <1>3, PreparedKeeps DEF Recover
<1>4. CASE Assess(n) /\ \E o \in {"succeeded", "no_change", "uncertain", "failed"} : Prepared(n, o)
  BY <1>1, <1>4, PreparedKeeps DEF Assess
<1>5. CASE Assess(n) /\ ProvedHarmless(n) /\ OnTo(n, "retrySafe") /\ UNCHANGED run
  <2>1. runCopy[n].pc = "assess" /\ ~runCopy[n].wrote /\ runKind # "report"
    BY <1>1, <1>5 DEF Assess, ProvedHarmless, CopySound, Acting, Turning
  <2> QED BY <1>1, <1>5, <2>1, Moving DEF RunPcs, Acting, Turning, Sending
<1>6. CASE Compose(n)
  <2>1. runCopy[n].pc = "compose" /\ runKind = "report"
    BY <1>1, <1>6 DEF Compose, CopySound
  <2>2. CASE Prepared(n, "succeeded")
    BY <1>1, <2>1, <2>2, PreparedKeeps
  <2>3. CASE OnTo(n, "deliver") /\ UNCHANGED run
    BY <1>1, <2>1, <2>3, Moving DEF RunPcs, Acting, Turning, Sending
  <2>4. CASE OnTo(n, "complete") /\ UNCHANGED run
    BY <1>1, <2>1, <2>4, Moving DEF RunPcs, Acting, Turning, Sending
  <2> QED BY <1>2, <1>6, <2>2, <2>3, <2>4 DEF Compose
<1>7. CASE Recover(n)
  BY <1>2, <1>3, <1>7 DEF Recover
<1>8. CASE Assess(n)
  BY <1>2, <1>4, <1>5, <1>8 DEF Assess
<1> QED BY <1>6, <1>7, <1>8

\* The first to send opens the receipt; nobody opens it again.
LEMMA SendReportKeeps ==
  ASSUME AutomationInv, NEW n \in Runners, SendReport(n)
  PROVE  AutomationInv'
<1>1. runCopy[n].pc = "deliver" /\ HolderSound(n) /\ UNCHANGED <<runKind, run, effects, doubtful, reportsSent>>
  BY DEF SendReport, AutomationInv
<1>2. \/ runReceipt' = runReceipt /\ \E pc \in {"complete", "retry", "failDelivery"} : OnTo(n, pc)
      \/ runReceipt = "none" /\ runReceipt' = "started" /\ OnTo(n, "transmit")
  BY DEF SendReport
<1>3. CASE runReceipt' = runReceipt /\ \E pc \in {"complete", "retry", "failDelivery"} : OnTo(n, pc)
  <2>1. PICK pc \in {"complete", "retry", "failDelivery"} : OnTo(n, pc)
    BY <1>3
  <2>2. pc \in Sending /\ runKind # "report" /\ HoldsRun(n) => run.result
    BY <1>1 DEF HolderSound, Sending
  <2> QED BY <1>1, <1>3, <2>1, <2>2, Moving DEF RunPcs, Acting, Turning
<1>4. CASE runReceipt = "none" /\ runReceipt' = "started" /\ OnTo(n, "transmit")
  <2> DEFINE s == [runCopy[n] EXCEPT !.pc = "transmit"]
  <2>1. runCopy[n] \in RunCopies /\ runCopy' = [runCopy EXCEPT ![n] = s]
    BY <1>4 DEF OnTo, AutomationInv, AutomationTyped
  <2>2. s \in RunCopies /\ s.pc = "transmit"
    BY <2>1, CopyEdits DEF RunPcs
  <2> HIDE DEF s
  <2>3. runCopy'[n] = s /\ \A m \in Runners : m # n => runCopy'[m] = runCopy[m]
    BY <2>1 DEF AutomationInv, AutomationTyped
  <2>4. AutomationTyped'
    BY <1>1, <1>4, <2>1, <2>2 DEF AutomationInv, AutomationTyped
  <2>5. \A m \in Runners : runCopy'[m].pc \in Turning => runCopy[m].pc \in Turning
    BY <2>2, <2>3 DEF Turning
  <2>6. CopySound(n)' /\ HolderSound(n)'
    BY <1>1, <2>2, <2>3 DEF CopySound, Blameless, HolderSound, HoldsRun, Turning, Acting, Sending
  <2>7. \A m \in Runners : CopySound(m)' /\ HolderSound(m)'
    BY <1>1, <2>3, <2>6, OthersStand
  <2>8. OneTurn' /\ DoubtEndsTurns' /\ VouchingIsFinal'
    BY <1>1, <2>5 DEF AutomationInv, OneTurn, DoubtEndsTurns, VouchingIsFinal, NobodyTurns, Vouched
  <2>9. EffectsCounted'
    BY <1>1 DEF AutomationInv, EffectsCounted
  <2>10. ResultsHaveOutcomes'
    BY <1>1 DEF AutomationInv, ResultsHaveOutcomes, Vouched
  <2>11. ReportsCounted'
    <3>1. reportsSent \in {0, 1} /\ reportsSent' = reportsSent
      BY <1>1 DEF AutomationInv, ReportsCounted
    <3>2. reportsSent = 0 /\ \A m \in Runners : runCopy[m].pc # "transmit"
      BY <1>4 DEF AutomationInv, ReportsCounted
    <3>3. runReceipt' # "none"
      BY <1>4
    <3>4. \A m \in Runners : runCopy'[m].pc = "transmit" => m = n
      BY <2>3, <3>2
    <3> QED BY <3>1, <3>2, <3>3, <3>4 DEF ReportsCounted
  <2> QED BY <2>4, <2>7, <2>8, <2>9, <2>10, <2>11 DEF AutomationInv
<1> QED BY <1>2, <1>3, <1>4

LEMMA TransmitReportKeeps ==
  ASSUME AutomationInv, NEW n \in Runners, TransmitReport(n)
  PROVE  AutomationInv'
<1>1. runCopy[n].pc = "transmit" /\ HolderSound(n) /\ UNCHANGED <<runKind, run, effects, doubtful>>
      /\ runReceipt # "none" /\ reportsSent' = reportsSent + 1 /\ reportsSent = 0
  BY DEF TransmitReport, AutomationInv, ReportsCounted
<1>2. PICK pc \in {"complete", "failDelivery"} : OnTo(n, pc)
  BY DEF TransmitReport
<1>3. runReceipt' \in {runReceipt, "delivered", "failed"}
  BY DEF TransmitReport
<1> DEFINE s == [runCopy[n] EXCEPT !.pc = pc]
<1>4. runCopy[n] \in RunCopies /\ runCopy' = [runCopy EXCEPT ![n] = s]
  BY <1>2 DEF OnTo, AutomationInv, AutomationTyped
<1>16. pc \in RunPcs
  BY <1>2 DEF RunPcs
<1>5. s \in RunCopies /\ s.pc = pc
  BY <1>4, <1>16, CopyEdits
<1> HIDE DEF s
<1>6. runCopy'[n] = s /\ \A m \in Runners : m # n => runCopy'[m] = runCopy[m]
  BY <1>4 DEF AutomationInv, AutomationTyped
<1>7. AutomationTyped'
  BY <1>1, <1>3, <1>4, <1>5 DEF AutomationInv, AutomationTyped
<1>8. \A m \in Runners : runCopy'[m].pc \in Turning => runCopy[m].pc \in Turning
  BY <1>5, <1>6 DEF Turning
<1>9. CopySound(n)' /\ HolderSound(n)'
  BY <1>1, <1>5, <1>6 DEF CopySound, Blameless, HolderSound, HoldsRun, Turning, Acting, Sending
<1>10. \A m \in Runners : CopySound(m)' /\ HolderSound(m)'
  BY <1>1, <1>6, <1>9, OthersStand
<1>11. OneTurn' /\ DoubtEndsTurns' /\ VouchingIsFinal'
  BY <1>1, <1>8 DEF AutomationInv, OneTurn, DoubtEndsTurns, VouchingIsFinal, NobodyTurns, Vouched
<1>12. EffectsCounted'
  BY <1>1 DEF AutomationInv, EffectsCounted
<1>13. ResultsHaveOutcomes'
  BY <1>1 DEF AutomationInv, ResultsHaveOutcomes, Vouched
<1>14. ReportsCounted'
  <2>1. reportsSent' \in {0, 1}
    BY <1>1
  <2>2. runReceipt' # "none"
    BY <1>1, <1>3
  <2>3. \A m \in Runners : runCopy'[m].pc # "transmit"
    BY <1>1, <1>5, <1>6 DEF AutomationInv, ReportsCounted
  <2> QED BY <2>1, <2>2, <2>3 DEF ReportsCounted
<1> QED BY <1>7, <1>10, <1>11, <1>12, <1>13, <1>14 DEF AutomationInv

\* A runner without the run leaves it alone and is free.
LEMMA FreedRunnerKeeps ==
  ASSUME AutomationInv, NEW n \in Runners, Done(n), UNCHANGED run,
         UNCHANGED <<runKind, runReceipt, effects, doubtful, reportsSent>>
  PROVE  AutomationInv'
<1> DEFINE s == IdleRunner
<1>1. runCopy' = [runCopy EXCEPT ![n] = s] /\ s \in RunCopies /\ s.pc = "idle"
  BY IdleIsCopy DEF Done
<1> HIDE DEF s
<1> QED BY <1>1, QuietMove DEF Acting, Turning, Sending

LEMMA SettleRunKeeps ==
  ASSUME AutomationInv, NEW n \in Runners, SettleRun(n)
  PROVE  AutomationInv'
<1>1. runCopy[n].pc \in {"complete", "failDelivery"} /\ HolderSound(n)
      /\ Done(n) /\ UNCHANGED <<runKind, runReceipt, effects, doubtful, reportsSent>>
  BY DEF AutomationInv, SettleRun
<1>2. CASE ~HoldsRun(n)
  BY <1>1, <1>2, FreedRunnerKeeps DEF SettleRun
<1>3. CASE HoldsRun(n)
  <2> DEFINE s == IdleRunner
  <2>1. runCopy' = [runCopy EXCEPT ![n] = s] /\ s \in RunCopies /\ s.pc = "idle"
    BY <1>1, IdleIsCopy DEF Done
  <2> HIDE DEF s
  <2>2. run \in RunRows
    BY DEF AutomationInv, AutomationTyped
  <2>3. runKind # "report" => run.result /\ run.outcome # ""
    BY <1>1, <1>3 DEF HolderSound, Sending, AutomationInv, ResultsHaveOutcomes
  <2>4. PICK st \in {"failed", "done"} :
          /\ run' = [run EXCEPT !.status = st, !.claim = 0, !.stale = FALSE]
          /\ st = "done" => run.outcome \notin {"failed", "uncertain"}
    BY <1>1, <1>3 DEF SettleRun, CompletedRun
  <2> DEFINE r == [run EXCEPT !.status = st, !.claim = 0, !.stale = FALSE]
  <2>5. r \in RunRows /\ r.started = run.started /\ r.result = run.result /\ r.outcome = run.outcome /\ r.status = st
    BY <2>2 DEF RunRows
  <2>6. run' = r
    BY <2>4
  <2> HIDE DEF r
  <2>7. run.outcome \in {"", "succeeded", "no_change", "uncertain", "failed"}
    BY <2>2 DEF RunRows
  <2> QED BY <1>1, <1>3, <2>1, <2>3, <2>4, <2>5, <2>6, <2>7, HolderWrites DEF Vouched
<1> QED BY <1>2, <1>3

\* Only the retry of an assessed turn that wrote nothing forgets the boundary.
LEMMA RetryRunKeeps ==
  ASSUME AutomationInv, NEW n \in Runners, RetryRun(n)
  PROVE  AutomationInv'
<1>1. runCopy[n].pc \in {"retry", "retrySafe"}
      /\ Done(n) /\ UNCHANGED <<runKind, runReceipt, effects, doubtful, reportsSent>>
  BY DEF RetryRun
<1>2. CASE ~HoldsRun(n)
  BY <1>1, <1>2, FreedRunnerKeeps DEF RetryRun
<1>3. CASE HoldsRun(n)
  <2> DEFINE s == IdleRunner
  <2>1. runCopy' = [runCopy EXCEPT ![n] = s] /\ s \in RunCopies /\ s.pc = "idle"
    BY <1>1, IdleIsCopy DEF Done
  <2> HIDE DEF s
  <2>2. run \in RunRows /\ run' = RetriedRun(n)
    BY <1>3 DEF AutomationInv, AutomationTyped, RetryRun
  <2>3. runKind # "report" => (run.result => run.outcome # "")
    BY DEF AutomationInv, ResultsHaveOutcomes
  <2> DEFINE back == [run EXCEPT !.status = "pending", !.claim = 0, !.stale = FALSE, !.ready = FALSE]
  <2>4. CASE runCopy[n].attempts >= MaxRunAttempts
    <3> DEFINE f == RunFailed(run)
               r == [f EXCEPT !.ready = FALSE]
    <3>1. f \in RunRows /\ f.started = run.started /\ f.result = run.result /\ f.status = "failed"
          /\ f.outcome = IF run.outcome = "" THEN "failed" ELSE run.outcome
      BY <2>2, FailedRow
    <3>2. run' = r
      BY <2>2, <2>4 DEF RetriedRun
    <3> HIDE DEF f
    <3>3. r \in RunRows /\ r.started = f.started /\ r.result = f.result /\ r.status = f.status /\ r.outcome = f.outcome
      BY <3>1 DEF RunRows
    <3> HIDE DEF r
    <3> QED BY <1>1, <1>3, <2>1, <2>3, <3>1, <3>2, <3>3, HolderWrites DEF Vouched
  <2>5. CASE ~(runCopy[n].attempts >= MaxRunAttempts) /\ runCopy[n].pc = "retrySafe"
    <3> DEFINE r == [back EXCEPT !.started = FALSE, !.result = FALSE, !.outcome = ""]
    <3>1. run' = r
      BY <2>2, <2>5 DEF RetriedRun
    <3>2. r \in RunRows /\ ~r.started /\ ~r.result /\ r.status = "pending" /\ r.outcome = ""
      BY <2>2 DEF RunRows
    <3> HIDE DEF r
    <3> QED BY <1>1, <1>3, <2>1, <2>5, <3>1, <3>2, HolderWrites DEF Vouched
  <2>6. CASE ~(runCopy[n].attempts >= MaxRunAttempts) /\ runCopy[n].pc # "retrySafe"
    <3>1. run' = back
      BY <2>2, <2>6 DEF RetriedRun
    <3>2. back \in RunRows /\ back.started = run.started /\ back.result = run.result /\ back.status = "pending"
          /\ back.outcome = run.outcome
      BY <2>2 DEF RunRows
    <3> HIDE DEF back
    <3> QED BY <1>1, <1>3, <2>1, <2>3, <3>1, <3>2, HolderWrites DEF Vouched
  <2> QED BY <2>4, <2>5, <2>6
<1> QED BY <1>2, <1>3

LEMMA LoseRunnerKeeps ==
  ASSUME AutomationInv, NEW n \in Runners, LoseRunner(n)
  PROVE  AutomationInv'
<1>1. Done(n) /\ UNCHANGED <<runKind, run, runReceipt, effects, reportsSent>> /\ CopySound(n)
  BY DEF LoseRunner, AutomationInv
<1>2. CASE doubtful' = doubtful
  BY <1>1, <1>2, FreedRunnerKeeps
<1>3. CASE doubtful' # doubtful
  <2> DEFINE s == IdleRunner
  <2>1. runCopy' = [runCopy EXCEPT ![n] = s] /\ s \in RunCopies /\ s.pc = "idle"
    BY <1>1, IdleIsCopy DEF Done
  <2> HIDE DEF s
  <2>2. runCopy[n].pc = "assess" /\ doubtful'
    BY <1>3 DEF LoseRunner, AutomationInv, AutomationTyped
  <2>3. runCopy'[n] = s /\ \A m \in Runners : m # n => runCopy'[m] = runCopy[m]
    BY <2>1 DEF AutomationInv, AutomationTyped
  <2>4. AutomationTyped'
    BY <1>1, <2>1, <2>2 DEF AutomationInv, AutomationTyped
  <2>5. CopySound(n)' /\ HolderSound(n)'
    BY <1>1, <2>1, <2>3 DEF CopySound, Blameless, HolderSound, Turning, Acting, Sending
  <2>6. \A m \in Runners : CopySound(m)' /\ HolderSound(m)'
    BY <1>1, <2>3, <2>5, OthersStand
  <2>7. NobodyTurns'
    BY <2>1, <2>2, <2>3 DEF AutomationInv, OneTurn, NobodyTurns, Turning
  <2>8. runCopy[n].wrote
    BY <1>3 DEF LoseRunner, AutomationInv, AutomationTyped
  <2>9. effects = 1
    BY <1>1, <2>2, <2>8 DEF CopySound
  <2>10. OneTurn'
    BY <2>7 DEF OneTurn, NobodyTurns
  <2>11. DoubtEndsTurns'
    <3>1. effects' = 1
      BY <1>1, <2>9
    <3> QED BY <2>7, <3>1 DEF DoubtEndsTurns
  <2>12. EffectsCounted'
    BY <1>1 DEF AutomationInv, EffectsCounted
  <2>13. VouchingIsFinal'
    <3>1. ~(runKind # "report" /\ Vouched)
      BY <2>2 DEF AutomationInv, VouchingIsFinal, NobodyTurns, Turning
    <3> QED BY <1>1, <3>1 DEF VouchingIsFinal, Vouched
  <2>14. ResultsHaveOutcomes'
    BY <1>1 DEF AutomationInv, ResultsHaveOutcomes, Vouched
  <2>15. ReportsCounted'
    BY <1>1, <2>1, <2>3 DEF AutomationInv, ReportsCounted
  <2> QED BY <2>4, <2>6, <2>10, <2>11, <2>12, <2>13, <2>14, <2>15 DEF AutomationInv
<1> QED BY <1>2, <1>3

LEMMA AutomationStep == AutomationInv /\ [AutomationNext]_automationVars => AutomationInv'
<1> SUFFICES ASSUME AutomationInv, [AutomationNext]_automationVars PROVE AutomationInv'
  OBVIOUS
<1>1. CASE ExhaustRun \/ ExpireRun \/ RunTimePasses \/ PeriodEnds
  BY <1>1, RowMovesKeep
<1>2. CASE \E n \in Runners : ClaimRun(n) \/ WorkOn(n) \/ LoseRunner(n)
  <2>1. PICK n \in Runners : ClaimRun(n) \/ WorkOn(n) \/ LoseRunner(n)
    BY <1>2
  <2>2. CASE ClaimRun(n) \/ LoseRunner(n)
    BY <2>2, ClaimRunKeeps, LoseRunnerKeeps
  <2>3. CASE WorkOn(n)
    BY <2>3, StartRunKeeps, BeginActionKeeps, TakeTurnKeeps, VerdictKeeps, SendReportKeeps, TransmitReportKeeps,
       SettleRunKeeps, RetryRunKeeps DEF WorkOn
  <2> QED BY <2>1, <2>2, <2>3
<1>3. CASE UNCHANGED automationVars
  <2>1. run \in RunRows /\ UNCHANGED <<runKind, run, runCopy, runReceipt, effects, doubtful, reportsSent>>
    BY <1>3 DEF automationVars, AutomationInv, AutomationTyped
  <2> QED BY <2>1, RowMoves
<1> QED BY <1>1, <1>2, <1>3 DEF AutomationNext

\* Whatever stops, and however late a runner that lost its claim comes back: an automation
\* runs one turn that writes and sends one report, and a turn that broke off is never
\* counted as done (ClaimAutomationRun, BeginAutomationAction, the assessment).
THEOREM RunsHonest == AutomationSpec => []RunsAreHonest
<1>1. AutomationInv => RunsAreHonest
  <2> SUFFICES ASSUME AutomationInv PROVE WritesOnce /\ DoubtIsRecorded
    BY DEF RunsAreHonest
  <2>1. effects \in {0, 1} /\ reportsSent \in {0, 1}
    BY DEF AutomationInv, EffectsCounted, ReportsCounted
  <2>2. WritesOnce
    BY <2>1 DEF WritesOnce
  <2>3. ASSUME doubtful PROVE runKind # "report"
    <3>1. effects = 1
      BY <2>3 DEF AutomationInv, DoubtEndsTurns
    <3> QED BY <3>1 DEF AutomationInv, EffectsCounted
  <2>4. DoubtIsRecorded
    BY <2>3 DEF AutomationInv, DoubtIsRecorded, VouchingIsFinal, ResultsHaveOutcomes
  <2> QED BY <2>2, <2>4
<1> QED BY <1>1, AutomationInitial, AutomationStep, PTL DEF AutomationSpec

--------------------------------------------------------------------------------
(* The reminders of a deadline *)

\* Rows, jobs and the keys of messages.
Legs      == {"warn", "over", "nudge", "boss", "escalate"}
MessageKeys == [leg : Legs, gen : Nat, n : Nat]
ItemRows  == [kind : {"task", "own", "goal"}, open : BOOLEAN, gen : Nat, phase : {"far", "near", "past"}]
NudgeRows == [count : Nat, attempts : Nat, due : BOOLEAN]
Jobs      == [pc : {"idle", "look", "enqueue", "send", "transmit", "mark"}, what : Reminder, gen : Nat, count : Nat,
              n : Nat, leg : Legs, settled : BOOLEAN, delivered : BOOLEAN]

\* A job is about its own reminder, the assigner's copy of it, or an escalation.
JobIsSound(job) ==
  /\ job.leg \in {job.what, "boss"} \/ (job.what = "nudge" /\ job.leg = "escalate")
  /\ job.what = "nudge" => job.leg # "boss"
  /\ job.pc = "mark" => job.leg # "escalate"
  /\ job.pc = "enqueue" => job.what = "over"

RemTyped ==
  /\ item \in ItemRows
  /\ remClaimed \in [Reminder -> {"none", "fresh", "stale"}]
  /\ attempted \subseteq Reminder
  /\ nudges \in NudgeRows
  /\ remCourier \in [RemCouriers -> Jobs]
  /\ \A c \in RemCouriers : JobIsSound(remCourier[c])
  /\ DOMAIN remReceipt \subseteq MessageKeys /\ IsFiniteSet(DOMAIN remReceipt)
  /\ remTold \subseteq DOMAIN remReceipt

\* Somebody was told of a deadline, or nobody could be.
Grounds(r, gen) ==
  \/ <<r, gen>> \in unheard
  \/ \E k \in DOMAIN remReceipt \cup remQueued : k.gen = gen /\ k.leg \in {r, "boss"}

MarksFounded ==
  /\ \A r \in attempted : Grounds(r, item.gen)
  /\ \A c \in RemCouriers : Job(c).pc = "mark" => Grounds(Job(c).what, Job(c).gen)

\* A message that is being handed to the channel was not yet, and by one job only.
OneHandsOver ==
  /\ remTwice = {}
  /\ \A c \in RemCouriers : Job(c).pc = "transmit" => Key(c) \in DOMAIN remReceipt \ remTold
  /\ \A c, d \in RemCouriers : c # d /\ Job(c).pc = "transmit" /\ Job(d).pc = "transmit" => Key(c) # Key(d)
  /\ \A k \in DOMAIN remReceipt : remReceipt[k] = "delivered" => k \in remTold

\* The nudges of a deadline that were delivered, up to the n-th attempt and in all.
NudgedTo(gen, n) == {k \in DOMAIN remReceipt : k.leg = "nudge" /\ k.gen = gen /\ k.n <= n /\ remReceipt[k] = "delivered"}
NudgedOf(gen)    == {k \in DOMAIN remReceipt : k.leg = "nudge" /\ k.gen = gen /\ remReceipt[k] = "delivered"}

\* The row counts nudges that were delivered, and a job that nudges either counts from
\* where the row stands, or comes too late to be counted.
NudgesFounded ==
  /\ nudges.count <= Cardinality(NudgedTo(item.gen, nudges.attempts))
  /\ \A c \in RemCouriers : Job(c).pc # "idle" /\ Job(c).what = "nudge" =>
       /\ Job(c).gen <= item.gen
       /\ Job(c).leg = "nudge" /\ Job(c).gen = item.gen =>
            \/ Job(c).n = nudges.attempts + 1 /\ Job(c).count = nudges.count
            \/ remClaimed["nudge"] = "none" /\ ~nudges.due
       /\ Job(c).leg = "nudge" /\ Job(c).pc = "mark" /\ Job(c).delivered =>
            Key(c) \in DOMAIN remReceipt /\ remReceipt[Key(c)] = "delivered"
       /\ Job(c).leg = "nudge" /\ Job(c).pc # "mark" => ~Job(c).delivered
       /\ Job(c).leg = "escalate" => Job(c).n <= Cardinality(NudgedOf(Job(c).gen))
  /\ \A k \in remTold : k.leg = "escalate" => k.n <= Cardinality(NudgedOf(k.gen))

RemInv == RemTyped /\ MarksFounded /\ OneHandsOver /\ NudgesFounded

LEMMA RestingSound == Resting \in Jobs /\ JobIsSound(Resting) /\ Resting.pc = "idle"
BY DEF Resting, Jobs, JobIsSound, Reminder, Legs

LEMMA RemInitial == RemindersInit => RemInv
<1> SUFFICES ASSUME RemindersInit PROVE RemInv
  OBVIOUS
<1>1. item \in ItemRows /\ nudges \in NudgeRows /\ nudges.count = 0
  <2>1. item \in [kind : Items, open : {TRUE}, gen : {1}, phase : {"far"}] /\ nudges = Unnudged
    BY DEF RemindersInit
  <2>2. [kind : Items, open : {TRUE}, gen : {1}, phase : {"far"}] \subseteq ItemRows
    <3>1. Items \subseteq {"task", "own", "goal"} /\ {TRUE} \subseteq BOOLEAN /\ {1} \subseteq Nat
          /\ {"far"} \subseteq {"far", "near", "past"}
      BY RemindersAssumption
    <3> QED BY <3>1, Zenon DEF ItemRows
  <2>3. Unnudged \in NudgeRows /\ Unnudged.count = 0
    BY DEF Unnudged, NudgeRows
  <2> QED BY <2>1, <2>2, <2>3
<1>2. \A c \in RemCouriers : remCourier[c] = Resting
  BY DEF RemindersInit
<1>3. DOMAIN remReceipt = {} /\ IsFiniteSet({})
  BY FS_EmptySet DEF RemindersInit
<1>4. RemTyped
  <2>1. remClaimed \in [Reminder -> {"none", "fresh", "stale"}] /\ attempted = {} /\ remTold = {}
    BY DEF RemindersInit
  <2>2. remCourier \in [RemCouriers -> Jobs] /\ \A c \in RemCouriers : JobIsSound(remCourier[c])
    BY RestingSound DEF RemindersInit
  <2> QED BY <1>1, <1>3, <2>1, <2>2 DEF RemTyped
<1>5. MarksFounded /\ OneHandsOver
  BY <1>2, <1>3, RestingSound DEF RemindersInit, MarksFounded, OneHandsOver, Job
<1>6. NudgesFounded
  <2>1. NudgedTo(item.gen, nudges.attempts) = {}
    BY <1>3 DEF NudgedTo
  <2>2. nudges.count <= Cardinality(NudgedTo(item.gen, nudges.attempts))
    BY <1>1, <2>1, FS_EmptySet
  <2> QED BY <1>2, <2>2, RestingSound DEF NudgesFounded, Job, RemindersInit
<1> QED BY <1>4, <1>5, <1>6 DEF RemInv

--------------------------------------------------------------------------------
(* Receipts and jobs *)

\* Receipts are added, and what was delivered stays so.
ReceiptsGrow ==
  /\ DOMAIN remReceipt \subseteq DOMAIN remReceipt'
  /\ DOMAIN remReceipt' \subseteq MessageKeys /\ IsFiniteSet(DOMAIN remReceipt')
  /\ \A k \in DOMAIN remReceipt : remReceipt[k] = "delivered" => remReceipt'[k] = "delivered"

LEMMA SameReceiptsGrow == ASSUME RemInv, UNCHANGED remReceipt PROVE ReceiptsGrow
BY DEF RemInv, RemTyped, ReceiptsGrow

\* More nudges were delivered, if anything.
LEMMA NudgesGrow ==
  ASSUME RemInv, ReceiptsGrow, NEW gen, NEW n
  PROVE  /\ Cardinality(NudgedTo(gen, n)) \in Nat /\ Cardinality(NudgedOf(gen)) \in Nat
         /\ Cardinality(NudgedTo(gen, n)') \in Nat /\ Cardinality(NudgedOf(gen)') \in Nat
         /\ Cardinality(NudgedTo(gen, n)) <= Cardinality(NudgedTo(gen, n)')
         /\ Cardinality(NudgedOf(gen)) <= Cardinality(NudgedOf(gen)')
<1>1. NudgedTo(gen, n)' \subseteq DOMAIN remReceipt' /\ NudgedOf(gen)' \subseteq DOMAIN remReceipt'
  BY DEF NudgedTo, NudgedOf
<1>2. NudgedTo(gen, n) \subseteq NudgedTo(gen, n)' /\ NudgedOf(gen) \subseteq NudgedOf(gen)'
  BY DEF NudgedTo, NudgedOf, ReceiptsGrow
<1>3. IsFiniteSet(NudgedTo(gen, n)') /\ IsFiniteSet(NudgedOf(gen)')
  BY <1>1, FS_Subset DEF ReceiptsGrow
<1>4. IsFiniteSet(NudgedTo(gen, n)) /\ IsFiniteSet(NudgedOf(gen))
  BY <1>2, <1>3, FS_Subset
<1> QED BY <1>2, <1>3, <1>4, FS_Subset, FS_CardinalityType

\* Grounds stay.
LEMMA GroundsStay ==
  ASSUME ReceiptsGrow, remQueued \subseteq remQueued', unheard \subseteq unheard', NEW r, NEW gen, Grounds(r, gen)
  PROVE  Grounds(r, gen)'
BY DEF ReceiptsGrow, Grounds

LEMMA JobAt ==
  ASSUME RemInv, NEW c \in RemCouriers
  PROVE  /\ Job(c) \in Jobs /\ JobIsSound(Job(c))
         /\ Key(c) \in MessageKeys
         /\ Key(c).leg = Job(c).leg /\ Key(c).gen = Job(c).gen /\ Key(c).n = Job(c).n
<1>1. Job(c) \in Jobs /\ JobIsSound(Job(c))
  BY DEF RemInv, RemTyped, Job
<1> QED BY <1>1 DEF Key, Jobs, MessageKeys

LEMMA Becomes ==
  ASSUME RemInv, NEW c \in RemCouriers, NEW job \in Jobs, JobIsSound(job), Become(c, job)
  PROVE  /\ remCourier' \in [RemCouriers -> Jobs]
         /\ \A d \in RemCouriers : JobIsSound(remCourier'[d])
         /\ remCourier'[c] = job
         /\ \A d \in RemCouriers : d # c => remCourier'[d] = remCourier[d]
         /\ Job(c)' = job /\ Key(c)' = [leg |-> job.leg, gen |-> job.gen, n |-> job.n]
         /\ \A d \in RemCouriers : d # c => Job(d)' = Job(d) /\ Key(d)' = Key(d)
<1>1. /\ remCourier' \in [RemCouriers -> Jobs]
      /\ remCourier'[c] = job
      /\ \A d \in RemCouriers : d # c => remCourier'[d] = remCourier[d]
  BY DEF Become, RemInv, RemTyped
<1>2. \A d \in RemCouriers : JobIsSound(remCourier'[d])
  BY <1>1 DEF RemInv, RemTyped
<1>3. Job(c)' = job /\ Key(c)' = [leg |-> job.leg, gen |-> job.gen, n |-> job.n]
  BY <1>1 DEF Job, Key
<1>4. \A d \in RemCouriers : d # c => Job(d)' = Job(d) /\ Key(d)' = Key(d)
  BY <1>1 DEF Job, Key
<1> QED BY <1>1, <1>2, <1>3, <1>4

\* What a job is after a leg of it.
LEMMA LegEnds ==
  ASSUME NEW job \in Jobs, JobIsSound(job), job.pc \in {"enqueue", "send", "transmit"},
         NEW settled \in BOOLEAN, NEW delivered \in BOOLEAN, NEW next, next = AfterLeg(job, settled, delivered)
  PROVE  /\ next \in Jobs /\ JobIsSound(next) /\ next.pc \in {"idle", "enqueue", "mark"}
         /\ next.pc # "idle" =>
              /\ next.what = job.what /\ next.gen = job.gen /\ next.count = job.count /\ next.n = job.n
              /\ job.what = "nudge" => next.leg = job.leg
              /\ job.what = "nudge" => next.pc = "mark"
         /\ next.pc = "mark" => settled /\ next.leg = job.leg /\ (next.delivered => job.delivered \/ delivered)
<1> PICK s \in BOOLEAN : s <=> (job.settled /\ settled)
  OBVIOUS
<1> PICK d \in BOOLEAN : d <=> (job.delivered \/ delivered)
  OBVIOUS
<1> DEFINE ended == [job EXCEPT !.settled = s, !.delivered = d]
<1>1. ended = [job EXCEPT !.settled = @ /\ settled, !.delivered = @ \/ delivered]
  OBVIOUS
<1>2. /\ ended \in Jobs /\ ended.pc = job.pc /\ ended.what = job.what /\ ended.gen = job.gen /\ ended.count = job.count
      /\ ended.n = job.n /\ ended.leg = job.leg /\ ended.settled = s /\ ended.delivered = d
  BY DEF Jobs
<1> HIDE DEF ended
<1>3. CASE job.leg = "escalate"
  BY <1>3, RestingSound DEF AfterLeg
<1>4. CASE job.leg = "over" /\ HasBoss
  <2>1. next = [ended EXCEPT !.pc = "enqueue", !.leg = "boss"]
    BY <1>1, <1>4 DEF AfterLeg
  <2>2. /\ next \in Jobs /\ next.pc = "enqueue" /\ next.leg = "boss" /\ next.what = job.what /\ next.gen = job.gen
        /\ next.count = job.count /\ next.n = job.n
    BY <1>2, <2>1 DEF Jobs, Legs
  <2>3. job.what = "over"
    BY <1>4 DEF JobIsSound
  <2> QED BY <2>2, <2>3 DEF JobIsSound
<1>5. CASE job.leg # "escalate" /\ ~(job.leg = "over" /\ HasBoss) /\ s
  <2>1. next = [ended EXCEPT !.pc = "mark"]
    BY <1>1, <1>2, <1>5 DEF AfterLeg
  <2>2. /\ next \in Jobs /\ next.pc = "mark" /\ next.leg = job.leg /\ next.what = job.what /\ next.gen = job.gen
        /\ next.count = job.count /\ next.n = job.n /\ next.delivered = d
    BY <1>2, <2>1 DEF Jobs
  <2> QED BY <1>5, <2>2 DEF JobIsSound
<1>6. CASE job.leg # "escalate" /\ ~(job.leg = "over" /\ HasBoss) /\ ~s
  <2>1. next = Resting
    BY <1>1, <1>2, <1>6 DEF AfterLeg
  <2> QED BY <2>1, RestingSound
<1> QED BY <1>3, <1>4, <1>5, <1>6

\* A job moves on, or ends, without touching the row.
Messaging(c, job) ==
  /\ Become(c, job)
  /\ Job(c).pc # "idle"
  /\ UNCHANGED <<item, remClaimed, attempted, nudges>>
  /\ ReceiptsGrow /\ remQueued \subseteq remQueued' /\ unheard \subseteq unheard'
  /\ remTold' \subseteq remTold \cup {Key(c)} /\ remTold' \subseteq DOMAIN remReceipt'
  /\ job.pc # "idle" =>
       /\ job.what = Job(c).what /\ job.gen = Job(c).gen /\ job.count = Job(c).count /\ job.n = Job(c).n
       /\ job.what = "nudge" => job.leg = Job(c).leg
  /\ job.pc = "mark" => Grounds(job.what, job.gen)'
  /\ job.pc = "mark" /\ job.leg = "nudge" /\ job.delivered =>
       Key(c) \in DOMAIN remReceipt' /\ remReceipt'[Key(c)] = "delivered"
  /\ job.pc \notin {"idle", "mark"} /\ job.leg = "nudge" => ~job.delivered

LEMMA MessagingKeeps ==
  ASSUME RemInv, NEW c \in RemCouriers, NEW job \in Jobs, JobIsSound(job), Messaging(c, job), OneHandsOver'
  PROVE  RemInv'
<1>1. /\ Job(c)' = job
      /\ \A d \in RemCouriers : d # c => Job(d)' = Job(d) /\ Key(d)' = Key(d)
      /\ remCourier' \in [RemCouriers -> Jobs] /\ \A d \in RemCouriers : JobIsSound(remCourier'[d])
  BY Becomes DEF Messaging
<1>2. RemTyped'
  BY <1>1 DEF RemInv, RemTyped, Messaging, ReceiptsGrow
<1>3. MarksFounded'
  <2>1. \A r \in attempted : Grounds(r, item.gen)'
    BY GroundsStay DEF RemInv, MarksFounded, Messaging
  <2>2. ASSUME NEW d \in RemCouriers, Job(d)'.pc = "mark" PROVE Grounds(Job(d).what, Job(d).gen)'
    <3>1. CASE d = c
      BY <1>1, <2>2, <3>1 DEF Messaging, Grounds
    <3>2. CASE d # c
      <4> PICK r : r = Job(d).what
        OBVIOUS
      <4> PICK g : g = Job(d).gen
        OBVIOUS
      <4>1. Grounds(r, g)
        BY <1>1, <2>2, <3>2 DEF RemInv, MarksFounded
      <4>2. Grounds(r, g)'
        BY <4>1, GroundsStay DEF Messaging
      <4>3. Job(d)'.what = r /\ Job(d)'.gen = g
        BY <1>1, <3>2
      <4> QED BY <4>2, <4>3 DEF Grounds
    <3> QED BY <3>1, <3>2
  <2> QED BY <2>1, <2>2 DEF MarksFounded, Messaging
<1>4. NudgesFounded'
  <2> PICK gen \in Nat : gen = item.gen
    BY DEF RemInv, RemTyped, ItemRows
  <2> PICK made \in Nat : made = nudges.attempts
    BY DEF RemInv, RemTyped, NudgeRows
  <2> PICK count \in Nat : count = nudges.count
    BY DEF RemInv, RemTyped, NudgeRows
  <2>1. count <= Cardinality(NudgedTo(gen, made)')
    <3>1. count <= Cardinality(NudgedTo(gen, made))
      BY DEF RemInv, NudgesFounded
    <3>2. ReceiptsGrow
      BY DEF Messaging
    <3> QED BY <3>1, <3>2, NudgesGrow
  <2>2. nudges'.count <= Cardinality(NudgedTo(item.gen, nudges.attempts))'
    BY <2>1 DEF Messaging, NudgedTo
  <2>3. ASSUME NEW g, NEW n \in Nat, n <= Cardinality(NudgedOf(g)) PROVE n <= Cardinality(NudgedOf(g)')
    <3>1. ReceiptsGrow
      BY DEF Messaging
    <3> QED BY <2>3, <3>1, NudgesGrow
  <2>4. \A k \in remTold' : k.leg = "escalate" => k.n <= Cardinality(NudgedOf(k.gen)')
    <3> SUFFICES ASSUME NEW k \in remTold', k.leg = "escalate" PROVE k.n <= Cardinality(NudgedOf(k.gen)')
      OBVIOUS
    <3>1. k.n \in Nat
      BY <1>2 DEF RemTyped, MessageKeys
    <3>2. CASE k \in remTold
      BY <2>3, <3>1, <3>2 DEF RemInv, NudgesFounded
    <3>3. CASE k = Key(c)
      <4>1. Job(c).leg = "escalate" /\ Job(c).what = "nudge" /\ Job(c).n = k.n /\ Job(c).gen = k.gen
        BY <3>3, JobAt DEF JobIsSound, Reminder, Jobs
      <4>2. k.n <= Cardinality(NudgedOf(k.gen))
        BY <4>1 DEF RemInv, NudgesFounded, Messaging
      <4> QED BY <2>3, <3>1, <4>2
    <3> QED BY <3>2, <3>3 DEF Messaging
  <2>5. ASSUME NEW d \in RemCouriers, Job(d)'.pc # "idle", Job(d)'.what = "nudge"
        PROVE  /\ Job(d)'.gen <= gen
               /\ Job(d)'.leg = "nudge" /\ Job(d)'.gen = gen =>
                    \/ Job(d)'.n = made + 1 /\ Job(d)'.count = count
                    \/ remClaimed["nudge"] = "none" /\ ~nudges.due
               /\ Job(d)'.leg = "nudge" /\ Job(d)'.pc = "mark" /\ Job(d)'.delivered =>
                    Key(d)' \in DOMAIN remReceipt' /\ remReceipt'[Key(d)'] = "delivered"
               /\ Job(d)'.leg = "nudge" /\ Job(d)'.pc # "mark" => ~Job(d)'.delivered
               /\ Job(d)'.leg = "escalate" => Job(d)'.n <= Cardinality(NudgedOf(Job(d).gen)')
    <3>1. /\ Job(d).pc # "idle" /\ Job(d).what = "nudge" /\ Job(d)'.gen = Job(d).gen /\ Job(d)'.n = Job(d).n
          /\ Job(d)'.count = Job(d).count /\ Job(d)'.leg = Job(d).leg /\ Job(d).n \in Nat
      <4>1. Job(d).n \in Nat
        BY JobAt DEF Jobs
      <4> QED BY <1>1, <2>5, <4>1 DEF Messaging
    <3>2. Key(d)' = Key(d)
      BY <3>1 DEF Key
    <3>3. Job(d)'.leg = "escalate" => Job(d)'.n <= Cardinality(NudgedOf(Job(d).gen)')
      BY <2>3, <3>1 DEF RemInv, NudgesFounded
    <3>4. /\ Job(d)'.leg = "nudge" /\ Job(d)'.pc = "mark" /\ Job(d)'.delivered =>
               Key(d) \in DOMAIN remReceipt' /\ remReceipt'[Key(d)] = "delivered"
          /\ Job(d)'.leg = "nudge" /\ Job(d)'.pc # "mark" => ~Job(d)'.delivered
      <4>1. CASE d = c
        BY <1>1, <2>5, <4>1 DEF Messaging
      <4>2. CASE d # c
        <5>1. Job(d)' = Job(d)
          BY <1>1, <4>2
        <5> QED BY <2>5, <5>1 DEF RemInv, NudgesFounded, Messaging, ReceiptsGrow
      <4> QED BY <4>1, <4>2
    <3> QED BY <3>1, <3>2, <3>3, <3>4 DEF RemInv, NudgesFounded
  <2> QED BY <2>2, <2>4, <2>5 DEF NudgesFounded, Messaging, NudgedOf
<1> QED BY <1>2, <1>3, <1>4 DEF RemInv

--------------------------------------------------------------------------------
(* The steps of a job *)

\* Nothing is handed over.
LEMMA NothingHandedOver ==
  ASSUME RemInv, NEW c \in RemCouriers, NEW job \in Jobs, JobIsSound(job), Become(c, job), job.pc # "transmit",
         UNCHANGED <<remReceipt, remTold, remTwice>>
  PROVE  OneHandsOver'
<1>1. /\ Job(c)' = job
      /\ \A d \in RemCouriers : d # c => Job(d)' = Job(d) /\ Key(d)' = Key(d)
  BY Becomes
<1> QED BY <1>1 DEF RemInv, OneHandsOver

\* A job ends, and its claim is left to its lease.
LEMMA Ends ==
  ASSUME RemInv, NEW c \in RemCouriers, Become(c, Resting), Job(c).pc # "idle",
         UNCHANGED <<item, remClaimed, attempted, nudges, remReceipt, remQueued, unheard, remTold, remTwice>>
  PROVE  RemInv'
<1>1. OneHandsOver'
  BY RestingSound, NothingHandedOver
<1>2. Messaging(c, Resting)
  BY RestingSound, SameReceiptsGrow DEF Messaging, RemInv, RemTyped
<1> QED BY <1>1, <1>2, RestingSound, MessagingKeeps

LEMMA LookUpKeeps ==
  ASSUME RemInv, NEW c \in RemCouriers, LookUp(c)
  PROVE  RemInv'
<1>1. /\ Job(c).pc = "look" /\ Job(c) \in Jobs /\ JobIsSound(Job(c))
      /\ UNCHANGED <<item, remClaimed, attempted, nudges, remReceipt, remQueued, remTold, remTwice>>
  BY JobAt DEF LookUp
<1>2. Job(c).what = "nudge" /\ Job(c).leg = "nudge" => ~Job(c).delivered
  BY <1>1 DEF RemInv, NudgesFounded
<1>3. ASSUME NEW job, job = [Job(c) EXCEPT !.pc = "enqueue", !.leg = "boss"], Become(c, job), Job(c).what = "over",
             UNCHANGED unheard
      PROVE  RemInv'
  <2>1. /\ job \in Jobs /\ job.pc = "enqueue" /\ job.leg = "boss" /\ job.what = "over" /\ job.gen = Job(c).gen
        /\ job.count = Job(c).count /\ job.n = Job(c).n
    BY <1>1, <1>3 DEF Jobs, Legs
  <2>2. JobIsSound(job)
    BY <2>1 DEF JobIsSound
  <2>3. OneHandsOver'
    BY <1>1, <1>3, <2>1, <2>2, NothingHandedOver
  <2>4. Messaging(c, job)
    BY <1>1, <1>3, <2>1, SameReceiptsGrow DEF Messaging, RemInv, RemTyped
  <2> QED BY <2>1, <2>2, <2>3, <2>4, MessagingKeeps
<1>4. ASSUME NEW job, job = [Job(c) EXCEPT !.pc = "send"], Become(c, job), UNCHANGED unheard
      PROVE  RemInv'
  <2>1. /\ job \in Jobs /\ job.pc = "send" /\ job.leg = Job(c).leg /\ job.what = Job(c).what /\ job.gen = Job(c).gen
        /\ job.count = Job(c).count /\ job.n = Job(c).n /\ job.delivered = Job(c).delivered
    BY <1>1, <1>4 DEF Jobs
  <2>2. JobIsSound(job)
    BY <1>1, <2>1 DEF JobIsSound
  <2>3. OneHandsOver'
    BY <1>1, <1>4, <2>1, <2>2, NothingHandedOver
  <2>4. Messaging(c, job)
    <3>1. job.leg = "nudge" => job.what = "nudge"
      BY <2>2 DEF JobIsSound, Reminder
    <3> QED BY <1>1, <1>2, <1>4, <2>1, <3>1, SameReceiptsGrow DEF Messaging, RemInv, RemTyped
  <2> QED BY <2>1, <2>2, <2>3, <2>4, MessagingKeeps
<1>5. ASSUME NEW job, job = [Job(c) EXCEPT !.pc = "mark"], Become(c, job), Job(c).what # "nudge",
             unheard' = unheard \cup {<<Job(c).what, Job(c).gen>>}
      PROVE  RemInv'
  <2>1. /\ job \in Jobs /\ job.pc = "mark" /\ job.leg = Job(c).leg /\ job.what = Job(c).what /\ job.gen = Job(c).gen
        /\ job.count = Job(c).count /\ job.n = Job(c).n
    BY <1>1, <1>5 DEF Jobs
  <2>2. JobIsSound(job) /\ job.leg # "nudge"
    BY <1>1, <1>5, <2>1 DEF JobIsSound, Jobs, Reminder
  <2>3. OneHandsOver'
    BY <1>1, <1>5, <2>1, <2>2, NothingHandedOver
  <2>4. Grounds(job.what, job.gen)'
    BY <1>5, <2>1 DEF Grounds
  <2>5. Messaging(c, job)
    BY <1>1, <1>5, <2>1, <2>2, <2>4, SameReceiptsGrow DEF Messaging, RemInv, RemTyped
  <2> QED BY <2>1, <2>2, <2>3, <2>5, MessagingKeeps
<1>6. ASSUME Become(c, Resting), UNCHANGED unheard PROVE RemInv'
  BY <1>1, <1>6, Ends
<1> QED BY <1>3, <1>4, <1>5, <1>6 DEF LookUp

\* A leg ends with its message represented, or with nothing settled.
LEMMA LegEndsKeeps ==
  ASSUME RemInv, NEW c \in RemCouriers, Job(c).pc \in {"enqueue", "send", "transmit"},
         NEW settled \in BOOLEAN, NEW delivered \in BOOLEAN, Become(c, AfterLeg(Job(c), settled, delivered)),
         UNCHANGED <<item, remClaimed, attempted, nudges, unheard>>,
         ReceiptsGrow, remQueued \subseteq remQueued',
         remTold' \subseteq remTold \cup {Key(c)}, remTold' \subseteq DOMAIN remReceipt',
         settled => Key(c) \in DOMAIN remReceipt' \cup remQueued',
         delivered /\ Job(c).leg = "nudge" => Key(c) \in DOMAIN remReceipt' /\ remReceipt'[Key(c)] = "delivered",
         \A d \in RemCouriers : (d # c /\ Job(d).pc = "transmit") => Key(d) \in DOMAIN remReceipt' \ remTold',
         remTwice' = {}, \A k \in DOMAIN remReceipt' : remReceipt'[k] = "delivered" => k \in remTold'
  PROVE  RemInv'
<1> PICK job : job = AfterLeg(Job(c), settled, delivered)
  OBVIOUS
<1>1. /\ Job(c) \in Jobs /\ JobIsSound(Job(c))
      /\ Key(c).leg = Job(c).leg /\ Key(c).gen = Job(c).gen
      /\ Become(c, job)
  BY JobAt
<1>2. /\ job \in Jobs /\ JobIsSound(job) /\ job.pc \in {"idle", "enqueue", "mark"}
      /\ job.pc # "idle" =>
           /\ job.what = Job(c).what /\ job.gen = Job(c).gen /\ job.count = Job(c).count /\ job.n = Job(c).n
           /\ Job(c).what = "nudge" => job.leg = Job(c).leg
           /\ Job(c).what = "nudge" => job.pc = "mark"
      /\ job.pc = "mark" => settled /\ job.leg = Job(c).leg /\ (job.delivered => Job(c).delivered \/ delivered)
  BY <1>1, LegEnds
<1>3. /\ Job(c)' = job
      /\ \A d \in RemCouriers : d # c => Job(d)' = Job(d) /\ Key(d)' = Key(d)
  BY <1>1, <1>2, Becomes
<1>4. OneHandsOver'
  <2>1. \A d \in RemCouriers : Job(d)'.pc = "transmit" => d # c
    BY <1>2, <1>3
  <2>2. \A d \in RemCouriers : Job(d)'.pc = "transmit" => Key(d)' \in DOMAIN remReceipt' \ remTold'
    BY <1>3, <2>1
  <2>3. \A d, e \in RemCouriers : d # e /\ Job(d)'.pc = "transmit" /\ Job(e)'.pc = "transmit" => Key(d)' # Key(e)'
    BY <1>3, <2>1 DEF RemInv, OneHandsOver
  <2> QED BY <2>2, <2>3 DEF OneHandsOver
<1>5. job.pc = "mark" => Grounds(job.what, job.gen)'
  <2>1. job.pc = "mark" => Key(c).gen = job.gen /\ Key(c).leg \in {job.what, "boss"}
    BY <1>1, <1>2 DEF JobIsSound
  <2> QED BY <1>2, <2>1 DEF Grounds
<1>6. job.leg = "nudge" /\ job.pc # "idle" => job.what = "nudge" /\ job.pc = "mark" /\ ~Job(c).delivered /\ Job(c).leg = "nudge"
  <2>1. job.leg = "nudge" => job.what = "nudge"
    BY <1>2 DEF JobIsSound, Reminder
  <2> QED BY <1>2, <2>1 DEF RemInv, NudgesFounded
<1>7. Messaging(c, job)
  BY <1>1, <1>2, <1>5, <1>6 DEF Messaging
<1> QED BY <1>2, <1>4, <1>7, MessagingKeeps

LEMMA EnqueueKeeps ==
  ASSUME RemInv, NEW c \in RemCouriers, EnqueueNotice(c)
  PROVE  RemInv'
<1>1. /\ Job(c).pc = "enqueue" /\ Job(c) \in Jobs /\ JobIsSound(Job(c)) /\ Job(c).what = "over"
      /\ UNCHANGED <<item, remClaimed, attempted, nudges, remReceipt, unheard, remTold, remTwice>>
  BY JobAt DEF EnqueueNotice, JobIsSound
<1>2. CASE remQueued' = remQueued \cup {Key(c)} /\ Become(c, AfterLeg(Job(c), TRUE, TRUE))
  <2>1. Job(c).leg # "nudge"
    BY <1>1 DEF JobIsSound
  <2> QED BY <1>1, <1>2, <2>1, LegEndsKeeps, SameReceiptsGrow DEF RemInv, RemTyped, OneHandsOver
<1>3. CASE Become(c, [Job(c) EXCEPT !.pc = "send"]) /\ UNCHANGED remQueued
  <2> PICK job : job = [Job(c) EXCEPT !.pc = "send"]
    OBVIOUS
  <2>1. /\ job \in Jobs /\ job.pc = "send" /\ job.leg = Job(c).leg /\ job.what = Job(c).what /\ job.gen = Job(c).gen
        /\ job.count = Job(c).count /\ job.n = Job(c).n
    BY <1>1 DEF Jobs
  <2>2. JobIsSound(job) /\ job.leg # "nudge"
    BY <1>1, <2>1 DEF JobIsSound
  <2>3. OneHandsOver'
    BY <1>1, <1>3, <2>1, <2>2, NothingHandedOver
  <2>4. Messaging(c, job)
    BY <1>1, <1>3, <2>1, <2>2, SameReceiptsGrow DEF Messaging, RemInv, RemTyped
  <2> QED BY <2>1, <2>2, <2>3, <2>4, MessagingKeeps
<1> QED BY <1>2, <1>3 DEF EnqueueNotice

\* A message that nobody began is begun.
LEMMA Begun ==
  ASSUME RemInv, NEW k \in MessageKeys, k \notin DOMAIN remReceipt, remReceipt' = WithReceipt(k)
  PROVE  /\ DOMAIN remReceipt' = DOMAIN remReceipt \cup {k} /\ remReceipt'[k] = "started"
         /\ \A x \in DOMAIN remReceipt : remReceipt'[x] = remReceipt[x]
         /\ ReceiptsGrow
<1>1. /\ DOMAIN remReceipt' = DOMAIN remReceipt \cup {k} /\ remReceipt'[k] = "started"
      /\ \A x \in DOMAIN remReceipt : remReceipt'[x] = remReceipt[x]
  BY DEF WithReceipt
<1>2. IsFiniteSet(DOMAIN remReceipt \cup {k})
  BY FS_AddElement DEF RemInv, RemTyped
<1> QED BY <1>1, <1>2 DEF ReceiptsGrow, RemInv, RemTyped

LEMMA BeginReminderKeeps ==
  ASSUME RemInv, NEW c \in RemCouriers, BeginReminder(c)
  PROVE  RemInv'
<1>1. /\ Job(c).pc = "send" /\ Job(c) \in Jobs /\ JobIsSound(Job(c))
      /\ Key(c) \in MessageKeys /\ Key(c).leg = Job(c).leg /\ Key(c).gen = Job(c).gen /\ Key(c).n = Job(c).n
      /\ UNCHANGED <<item, remClaimed, attempted, nudges, remQueued, unheard, remTold, remTwice>>
  BY JobAt DEF BeginReminder
<1>2. remTwice = {} /\ \A d \in RemCouriers : Job(d).pc = "transmit" => Key(d) \in DOMAIN remReceipt \ remTold
  BY DEF RemInv, OneHandsOver
<1>3. \A k \in DOMAIN remReceipt : remReceipt[k] = "delivered" => k \in remTold
  BY DEF RemInv, OneHandsOver
<1>4. remTold \subseteq DOMAIN remReceipt
  BY DEF RemInv, RemTyped
<1>5. CASE Become(c, AfterLeg(Job(c), FALSE, FALSE)) /\ UNCHANGED remReceipt
  <2>1. ReceiptsGrow
    BY <1>5, SameReceiptsGrow
  <2> QED BY <1>1, <1>2, <1>3, <1>4, <1>5, <2>1, LegEndsKeeps
<1>6. CASE Key(c) \in DOMAIN remReceipt /\ UNCHANGED remReceipt
           /\ Become(c, AfterLeg(Job(c), TRUE, remReceipt[Key(c)] = "delivered"))
  <2> PICK was \in BOOLEAN : was <=> remReceipt[Key(c)] = "delivered"
    OBVIOUS
  <2>1. ReceiptsGrow
    BY <1>6, SameReceiptsGrow
  <2>2. was = (remReceipt[Key(c)] = "delivered")
    OBVIOUS
  <2>3. Become(c, AfterLeg(Job(c), TRUE, was))
    BY <1>6, <2>2
  <2>4. was => remReceipt'[Key(c)] = "delivered"
    BY <1>6
  <2> QED BY <1>1, <1>2, <1>3, <1>4, <1>6, <2>1, <2>3, <2>4, LegEndsKeeps
<1>7. CASE /\ Key(c) \notin DOMAIN remReceipt
           /\ remReceipt' = WithReceipt(Key(c))
           /\ Become(c, [Job(c) EXCEPT !.pc = "transmit"])
  <2> PICK job : job = [Job(c) EXCEPT !.pc = "transmit"]
    OBVIOUS
  <2> PICK k \in MessageKeys : k = Key(c)
    BY <1>1
  <2>1. /\ job \in Jobs /\ job.pc = "transmit" /\ job.leg = Job(c).leg /\ job.what = Job(c).what /\ job.gen = Job(c).gen
        /\ job.count = Job(c).count /\ job.n = Job(c).n /\ job.delivered = Job(c).delivered
    BY <1>1 DEF Jobs
  <2>2. JobIsSound(job)
    BY <1>1, <2>1 DEF JobIsSound
  <2>3. /\ DOMAIN remReceipt' = DOMAIN remReceipt \cup {k} /\ remReceipt'[k] = "started"
        /\ \A x \in DOMAIN remReceipt : remReceipt'[x] = remReceipt[x]
        /\ ReceiptsGrow
    BY <1>7, Begun
  <2>4. /\ Job(c)' = job /\ Key(c)' = k
        /\ \A d \in RemCouriers : d # c => Job(d)' = Job(d) /\ Key(d)' = Key(d)
    <3>1. k = [leg |-> job.leg, gen |-> job.gen, n |-> job.n]
      BY <2>1 DEF Key
    <3> QED BY <1>7, <2>1, <2>2, <3>1, Becomes
  <2>5. OneHandsOver'
    <3>1. \A d \in RemCouriers : Job(d)'.pc = "transmit" => Key(d)' \in DOMAIN remReceipt' \ remTold'
      BY <1>1, <1>2, <1>4, <1>7, <2>3, <2>4
    <3>2. \A d \in RemCouriers : d # c /\ Job(d)'.pc = "transmit" => Key(d)' # k
      BY <1>2, <1>7, <2>4
    <3>3. \A d, e \in RemCouriers : d # e /\ Job(d)'.pc = "transmit" /\ Job(e)'.pc = "transmit" => Key(d)' # Key(e)'
      <4> SUFFICES ASSUME NEW d \in RemCouriers, NEW e \in RemCouriers, d # e,
                          Job(d)'.pc = "transmit", Job(e)'.pc = "transmit"
                   PROVE  Key(d)' # Key(e)'
        OBVIOUS
      <4>1. CASE d = c \/ e = c
        BY <2>4, <3>2, <4>1
      <4>2. CASE d # c /\ e # c
        BY <2>4, <4>2 DEF RemInv, OneHandsOver
      <4> QED BY <4>1, <4>2
    <3>4. \A x \in DOMAIN remReceipt' : remReceipt'[x] = "delivered" => x \in remTold'
      BY <1>1, <1>3, <2>3
    <3> QED BY <1>1, <1>2, <3>1, <3>3, <3>4 DEF OneHandsOver
  <2>6. Messaging(c, job)
    <3>1. job.leg = "nudge" => job.what = "nudge" /\ ~job.delivered
      BY <1>1, <2>1 DEF RemInv, NudgesFounded, JobIsSound, Reminder
    <3> QED BY <1>1, <1>4, <1>7, <2>1, <2>3, <3>1 DEF Messaging
  <2> QED BY <2>1, <2>2, <2>5, <2>6, MessagingKeeps
<1> QED BY <1>5, <1>6, <1>7 DEF BeginReminder

LEMMA TransmitKeeps ==
  ASSUME RemInv, NEW c \in RemCouriers, TransmitReminder(c)
  PROVE  RemInv'
<1> PICK ok \in BOOLEAN :
      /\ remReceipt' = [remReceipt EXCEPT ![Key(c)] = IF ok THEN "delivered" ELSE "failed"]
      /\ Become(c, AfterLeg(Job(c), TRUE, ok))
  BY DEF TransmitReminder
<1> PICK k \in MessageKeys : k = Key(c)
  BY JobAt
<1>1. /\ Job(c).pc = "transmit" /\ remTold' = remTold \cup {k} /\ remTwice' = remTwice \cup (remTold \cap {k})
      /\ UNCHANGED <<item, remClaimed, attempted, nudges, remQueued, unheard>>
  BY DEF TransmitReminder
<1>2. k \in DOMAIN remReceipt \ remTold /\ remReceipt[k] # "delivered" /\ remTwice = {}
  BY <1>1 DEF RemInv, OneHandsOver
<1>3. remTold \subseteq DOMAIN remReceipt /\ DOMAIN remReceipt \subseteq MessageKeys /\ IsFiniteSet(DOMAIN remReceipt)
  BY DEF RemInv, RemTyped
<1>4. /\ DOMAIN remReceipt' = DOMAIN remReceipt
      /\ \A x \in DOMAIN remReceipt : x # k => remReceipt'[x] = remReceipt[x]
      /\ ok => remReceipt'[k] = "delivered"
  BY <1>2
<1>5. ReceiptsGrow
  BY <1>2, <1>3, <1>4 DEF ReceiptsGrow
<1>6. remTwice' = {} /\ remTold' \subseteq DOMAIN remReceipt'
  BY <1>1, <1>2, <1>3, <1>4
<1>7. \A d \in RemCouriers : (d # c /\ Job(d).pc = "transmit") => Key(d) \in DOMAIN remReceipt' \ remTold'
  BY <1>1, <1>4 DEF RemInv, OneHandsOver
<1>8. \A x \in DOMAIN remReceipt' : remReceipt'[x] = "delivered" => x \in remTold'
  BY <1>1, <1>4 DEF RemInv, OneHandsOver
<1> QED BY <1>1, <1>2, <1>4, <1>5, <1>6, <1>7, <1>8, LegEndsKeeps

\* A nudge that was delivered makes one more of them.
LEMMA OneNudgeMore ==
  ASSUME RemInv, NEW k \in DOMAIN remReceipt, k.leg = "nudge", remReceipt[k] = "delivered", NEW made \in Nat,
         k.n = made + 1
  PROVE  Cardinality(NudgedTo(k.gen, made)) + 1 <= Cardinality(NudgedTo(k.gen, made + 1))
<1> PICK g : g = k.gen
  OBVIOUS
<1>1. IsFiniteSet(NudgedTo(g, made)) /\ IsFiniteSet(NudgedTo(g, made + 1))
  <2>1. NudgedTo(g, made) \subseteq DOMAIN remReceipt /\ NudgedTo(g, made + 1) \subseteq DOMAIN remReceipt
    BY DEF NudgedTo
  <2> QED BY <2>1, FS_Subset DEF RemInv, RemTyped
<1>2. k \notin NudgedTo(g, made)
  BY DEF NudgedTo
<1>3. NudgedTo(g, made) \cup {k} \subseteq NudgedTo(g, made + 1)
  <2>1. \A j \in DOMAIN remReceipt : j.n \in Nat
    BY DEF RemInv, RemTyped, MessageKeys
  <2>2. \A j \in DOMAIN remReceipt : j.n <= made => j.n <= made + 1
    BY <2>1
  <2>3. k.n <= made + 1
    OBVIOUS
  <2> QED BY <2>2, <2>3 DEF NudgedTo
<1>4. Cardinality(NudgedTo(g, made) \cup {k}) = Cardinality(NudgedTo(g, made)) + 1
  BY <1>1, <1>2, FS_AddElement
<1>5. Cardinality(NudgedTo(g, made) \cup {k}) <= Cardinality(NudgedTo(g, made + 1))
  BY <1>1, <1>3, FS_Subset
<1> QED BY <1>4, <1>5

\* More attempts, no fewer nudges.
LEMMA MoreAttempts ==
  ASSUME RemInv, NEW g, NEW made \in Nat
  PROVE  /\ Cardinality(NudgedTo(g, made)) <= Cardinality(NudgedTo(g, made + 1))
         /\ Cardinality(NudgedTo(g, made)) <= Cardinality(NudgedOf(g))
         /\ Cardinality(NudgedTo(g, made)) \in Nat /\ Cardinality(NudgedTo(g, made + 1)) \in Nat
         /\ Cardinality(NudgedOf(g)) \in Nat
<1>1. /\ NudgedTo(g, made + 1) \subseteq DOMAIN remReceipt /\ NudgedOf(g) \subseteq DOMAIN remReceipt
      /\ NudgedTo(g, made) \subseteq NudgedOf(g)
  BY DEF NudgedTo, NudgedOf
<1>2. NudgedTo(g, made) \subseteq NudgedTo(g, made + 1)
  <2>1. \A j \in DOMAIN remReceipt : j.n \in Nat
    BY DEF RemInv, RemTyped, MessageKeys
  <2>2. \A j \in DOMAIN remReceipt : j.n <= made => j.n <= made + 1
    BY <2>1
  <2> QED BY <2>2 DEF NudgedTo
<1>3. IsFiniteSet(NudgedTo(g, made + 1)) /\ IsFiniteSet(NudgedOf(g))
  BY <1>1, FS_Subset DEF RemInv, RemTyped
<1>4. IsFiniteSet(NudgedTo(g, made))
  BY <1>2, <1>3, FS_Subset
<1> QED BY <1>1, <1>2, <1>3, <1>4, FS_Subset, FS_CardinalityType

\* What a claim, a mark or the row itself does to the nudges that are under way.
NudgeFounded(c, gen, made, count) ==
  Job(c).pc # "idle" /\ Job(c).what = "nudge" =>
    /\ Job(c).gen <= gen
    /\ Job(c).leg = "nudge" /\ Job(c).gen = gen =>
         \/ Job(c).n = made + 1 /\ Job(c).count = count
         \/ remClaimed["nudge"] = "none" /\ ~nudges.due
    /\ Job(c).leg = "nudge" /\ Job(c).pc = "mark" /\ Job(c).delivered =>
         Key(c) \in DOMAIN remReceipt /\ remReceipt[Key(c)] = "delivered"
    /\ Job(c).leg = "nudge" /\ Job(c).pc # "mark" => ~Job(c).delivered
    /\ Job(c).leg = "escalate" => Job(c).n <= Cardinality(NudgedOf(Job(c).gen))

LEMMA MarkNudgeKeeps ==
  ASSUME RemInv, NEW c \in RemCouriers, MarkReminder(c), MarkFits(Job(c)), Job(c).what = "nudge"
  PROVE  RemInv'
<1> PICK job \in Jobs : job = Job(c)
  BY JobAt
<1> PICK gen \in Nat : gen = item.gen
  BY DEF RemInv, RemTyped, ItemRows
<1> PICK made \in Nat : made = nudges.attempts
  BY DEF RemInv, RemTyped, NudgeRows
<1> PICK count \in Nat : count = nudges.count
  BY DEF RemInv, RemTyped, NudgeRows
<1>1. /\ job.pc = "mark" /\ job.what = "nudge" /\ job.gen = gen /\ remClaimed["nudge"] # "none"
      /\ remClaimed' = [remClaimed EXCEPT !["nudge"] = "none"]
      /\ nudges' = Counted(job)
      /\ Become(c, IF Escalates(job) THEN [job EXCEPT !.pc = "send", !.leg = "escalate", !.n = job.count + 1] ELSE Resting)
      /\ UNCHANGED <<attempted, item, remReceipt, remQueued, unheard, remTold, remTwice>>
  BY DEF MarkReminder, MarkFits
<1>2. job.leg = "nudge" /\ job.n = made + 1 /\ job.count = count
  <2>1. job.leg = "nudge"
    BY <1>1, JobAt DEF JobIsSound
  <2> QED BY <1>1, <2>1 DEF RemInv, NudgesFounded
<1>3. job.delivered => Key(c) \in DOMAIN remReceipt /\ remReceipt[Key(c)] = "delivered"
  BY <1>1, <1>2 DEF RemInv, NudgesFounded
<1>4. /\ nudges' \in NudgeRows /\ nudges'.attempts = made + 1 /\ nudges'.due = FALSE
      /\ nudges'.count = IF job.delivered THEN count + 1 ELSE count
  <2>1. nudges \in NudgeRows
    BY DEF RemInv, RemTyped
  <2> PICK after \in Nat : after = IF job.delivered THEN count + 1 ELSE count
    OBVIOUS
  <2> PICK next \in Nat : next = made + 1
    OBVIOUS
  <2>2. nudges' = [nudges EXCEPT !.attempts = next, !.count = after, !.due = FALSE]
    BY <1>1 DEF Counted
  <2> QED BY <2>1, <2>2 DEF NudgeRows
<1>5. count <= Cardinality(NudgedTo(gen, made))
  BY DEF RemInv, NudgesFounded
<1>6. nudges'.count <= Cardinality(NudgedTo(gen, made + 1))
  <2>1. CASE job.delivered
    <3> PICK k \in DOMAIN remReceipt : k = Key(c)
      BY <1>3, <2>1
    <3>1. k.leg = "nudge" /\ k.gen = gen /\ k.n = made + 1 /\ remReceipt[k] = "delivered"
      BY <1>1, <1>2, <1>3, <2>1, JobAt
    <3>2. Cardinality(NudgedTo(gen, made)) + 1 <= Cardinality(NudgedTo(gen, made + 1))
      BY <3>1, OneNudgeMore
    <3> QED BY <1>4, <1>5, <2>1, <3>2, MoreAttempts
  <2>2. CASE ~job.delivered
    BY <1>4, <1>5, <2>2, MoreAttempts
  <2> QED BY <2>1, <2>2
<1>7. job.delivered => count + 1 <= Cardinality(NudgedOf(gen))
  <2> SUFFICES ASSUME job.delivered PROVE count + 1 <= Cardinality(NudgedOf(gen))
    OBVIOUS
  <2> PICK next \in Nat : next = made + 1
    OBVIOUS
  <2>1. count + 1 <= Cardinality(NudgedTo(gen, next))
    BY <1>4, <1>6
  <2> QED BY <2>1, MoreAttempts
<1> PICK moved \in Jobs : moved = IF Escalates(job) THEN [job EXCEPT !.pc = "send", !.leg = "escalate", !.n = job.count + 1]
                                  ELSE Resting
  <2>1. [job EXCEPT !.pc = "send", !.leg = "escalate", !.n = job.count + 1] \in Jobs
    <3> PICK n \in Nat : n = job.count + 1
      BY <1>2
    <3> QED BY DEF Jobs, Legs
  <2> QED BY <2>1, RestingSound
<1>8. \/ moved = Resting
      \/ /\ moved.pc = "send" /\ moved.leg = "escalate" /\ moved.what = "nudge" /\ moved.gen = gen
         /\ moved.n = count + 1 /\ job.delivered
  <2>1. CASE Escalates(job)
    <3> PICK n \in Nat : n = job.count + 1
      BY <1>2
    <3>1. moved = [job EXCEPT !.pc = "send", !.leg = "escalate", !.n = n]
      BY <2>1
    <3>2. moved.pc = "send" /\ moved.leg = "escalate" /\ moved.what = "nudge" /\ moved.gen = gen /\ moved.n = n
      BY <1>1, <3>1 DEF Jobs
    <3> QED BY <1>2, <2>1, <3>2 DEF Escalates
  <2> QED BY <2>1
<1>9. JobIsSound(moved) /\ moved.pc \notin {"transmit", "mark"}
  BY <1>8, RestingSound DEF JobIsSound
<1>10. /\ Job(c)' = moved
       /\ \A d \in RemCouriers : d # c => Job(d)' = Job(d) /\ Key(d)' = Key(d)
       /\ remCourier' \in [RemCouriers -> Jobs] /\ \A d \in RemCouriers : JobIsSound(remCourier'[d])
  BY <1>1, <1>9, Becomes
<1>11. remClaimed' \in [Reminder -> {"none", "fresh", "stale"}] /\ remClaimed'["nudge"] = "none"
  BY <1>1 DEF RemInv, RemTyped, Reminder
<1>12. RemTyped'
  BY <1>1, <1>4, <1>10, <1>11 DEF RemInv, RemTyped
<1>13. OneHandsOver'
  BY <1>1, <1>9, NothingHandedOver
<1>14. MarksFounded'
  BY <1>1, <1>9, <1>10 DEF RemInv, MarksFounded, Grounds
<1>15. NudgesFounded'
  <2>1. nudges'.count <= Cardinality(NudgedTo(item.gen, nudges.attempts))'
    BY <1>1, <1>4, <1>6 DEF NudgedTo
  <2> PICK after : after = nudges'.count
    OBVIOUS
  <2> PICK next : next = made + 1
    OBVIOUS
  <2>2. ASSUME NEW d \in RemCouriers PROVE NudgeFounded(d, gen, next, after)'
    <3>1. CASE d = c
      <4>1. CASE moved = Resting
        BY <1>10, <3>1, <4>1, RestingSound DEF NudgeFounded
      <4>2. CASE /\ moved.pc = "send" /\ moved.leg = "escalate" /\ moved.what = "nudge" /\ moved.gen = gen
                 /\ moved.n = count + 1 /\ job.delivered
        <5>1. moved.n <= Cardinality(NudgedOf(gen))
          BY <1>7, <4>2
        <5>2. Job(d)'.n <= Cardinality(NudgedOf(Job(d).gen))'
          <6>1. NudgedOf(Job(d).gen)' = NudgedOf(gen)
            BY <1>1, <1>10, <3>1, <4>2, ZenonT(60) DEF NudgedOf
          <6> QED BY <1>10, <3>1, <5>1, <6>1
        <5>3. Job(d)'.leg # "nudge" /\ Job(d)'.gen <= gen
          <6>1. gen <= gen
            OBVIOUS
          <6> QED BY <1>10, <3>1, <4>2, <6>1
        <5> QED BY <5>2, <5>3 DEF NudgeFounded
      <4> QED BY <1>8, <4>1, <4>2
    <3>2. CASE d # c
      <4>1. Job(d)' = Job(d) /\ Key(d)' = Key(d)
        BY <1>10, <3>2
      <4>2. NudgeFounded(d, gen, made, count)
        BY DEF RemInv, NudgesFounded, NudgeFounded
      <4> PICK g : g = Job(d).gen
        OBVIOUS
      <4>3. NudgedOf(Job(d).gen)' = NudgedOf(g)
        BY <1>1, <4>1 DEF NudgedOf
      <4>4. remClaimed'["nudge"] = "none" /\ ~nudges'.due /\ remReceipt' = remReceipt
        BY <1>1, <1>4, <1>11
      <4> QED BY <4>1, <4>2, <4>3, <4>4 DEF NudgeFounded
    <3> QED BY <3>1, <3>2
  <2>3. \A k \in remTold' : k.leg = "escalate" => k.n <= Cardinality(NudgedOf(k.gen))'
    BY <1>1 DEF RemInv, NudgesFounded, NudgedOf
  <2> QED BY <1>1, <1>4, <2>1, <2>2, <2>3 DEF NudgesFounded, NudgeFounded
<1> QED BY <1>12, <1>13, <1>14, <1>15 DEF RemInv

\* A step of the row that leaves what was nudged to as it is, and no late job in doubt.
LEMMA DeadlineRowMoves ==
  ASSUME RemInv, RemTyped', UNCHANGED <<remCourier, remReceipt, remQueued, unheard, remTold, remTwice>>,
         \/ attempted' = {}
         \/ attempted' = attempted /\ item'.gen = item.gen,
         \/ item'.gen > item.gen /\ nudges'.count = 0
         \/ /\ item'.gen = item.gen /\ nudges'.attempts = nudges.attempts /\ nudges'.count = nudges.count
            /\ \/ nudges'.due => nudges.due
               \/ \A c \in RemCouriers : Job(c).pc = "idle" \/ Job(c).what # "nudge"
            /\ remClaimed["nudge"] = "none" => remClaimed'["nudge"] = "none"
  PROVE  RemInv'
<1> PICK gen \in Nat : gen = item.gen
  BY DEF RemInv, RemTyped, ItemRows
<1> PICK next \in Nat : next = item'.gen
  BY DEF RemTyped, ItemRows
<1> PICK made \in Nat : made = nudges'.attempts
  BY DEF RemTyped, NudgeRows
<1> PICK count \in Nat : count = nudges'.count
  BY DEF RemTyped, NudgeRows
<1>1. \A d \in RemCouriers : Job(d)' = Job(d) /\ Key(d)' = Key(d)
  BY DEF Job, Key
<1>2. OneHandsOver'
  BY <1>1 DEF RemInv, OneHandsOver
<1>3. MarksFounded'
  BY <1>1 DEF RemInv, MarksFounded, Grounds
<1>4. NudgesFounded'
  <2>1. count <= Cardinality(NudgedTo(next, made))
    <3>1. CASE count = 0
      BY <3>1, MoreAttempts
    <3>2. CASE next = gen /\ made = nudges.attempts /\ count = nudges.count
      BY <3>2 DEF RemInv, NudgesFounded
    <3> QED BY <3>1, <3>2
  <2>2. nudges'.count <= Cardinality(NudgedTo(item.gen, nudges.attempts))'
    BY <2>1 DEF NudgedTo
  <2>3. ASSUME NEW d \in RemCouriers PROVE NudgeFounded(d, next, made, count)'
    <3> PICK g \in Nat : g = Job(d).gen
      BY JobAt DEF Jobs
    <3>1. CASE Job(d).pc = "idle" \/ Job(d).what # "nudge"
      BY <1>1, <3>1 DEF NudgeFounded
    <3>2. CASE Job(d).pc # "idle" /\ Job(d).what = "nudge"
      <4>1. NudgeFounded(d, gen, nudges.attempts, nudges.count)
        BY DEF RemInv, NudgesFounded, NudgeFounded
      <4>2. g <= gen /\ g <= next
        BY <3>2, <4>1 DEF NudgeFounded
      <4>3. g = next => g = gen
        BY <4>2
      <4>4. /\ Job(d).leg = "nudge" /\ g = next =>
                 \/ Job(d).n = made + 1 /\ Job(d).count = count
                 \/ remClaimed'["nudge"] = "none" /\ ~nudges'.due
        <5>1. next > gen => g # next
          BY <4>2
        <5> QED BY <3>2, <4>1, <4>3, <5>1 DEF NudgeFounded
      <4>5. NudgedOf(Job(d).gen)' = NudgedOf(g)
        BY <1>1 DEF NudgedOf
      <4> QED BY <1>1, <3>2, <4>1, <4>2, <4>4, <4>5 DEF NudgeFounded
    <3> QED BY <3>1, <3>2
  <2>4. \A k \in remTold' : k.leg = "escalate" => k.n <= Cardinality(NudgedOf(k.gen))'
    BY DEF RemInv, NudgesFounded, NudgedOf
  <2> QED BY <2>2, <2>3, <2>4 DEF NudgesFounded, NudgeFounded
<1> QED BY <1>2, <1>3, <1>4 DEF RemInv

LEMMA RowKeeps ==
  ASSUME RemInv,
         MoveDeadline \/ CloseItem \/ ReportProgress \/ DeadlineNears \/ LeasesRunOut \/ NudgeFallsDue
         \/ UNCHANGED reminderVars
  PROVE  RemInv'
<1>1. /\ item \in ItemRows /\ nudges \in NudgeRows /\ item.gen \in Nat
      /\ remClaimed \in [Reminder -> {"none", "fresh", "stale"}]
  BY DEF RemInv, RemTyped, ItemRows
<1>2. RemTyped
  BY DEF RemInv
<1>3. CASE MoveDeadline
  <2> PICK phase \in {"far", "near", "past"} : item' = [item EXCEPT !.gen = @ + 1, !.phase = phase]
    BY <1>3 DEF MoveDeadline
  <2> PICK next \in Nat : next = item.gen + 1
    BY <1>1
  <2>1. item' \in ItemRows /\ item'.gen = next
    <3>1. item' = [item EXCEPT !.gen = next, !.phase = phase]
      OBVIOUS
    <3> QED BY <1>1, <3>1 DEF ItemRows
  <2>2. nudges' \in NudgeRows /\ nudges'.count = 0
    BY <1>3 DEF MoveDeadline, Unnudged, NudgeRows
  <2>3. /\ remClaimed' \in [Reminder -> {"none", "fresh", "stale"}] /\ attempted' = {}
        /\ UNCHANGED <<remCourier, remReceipt, remQueued, unheard, remTold, remTwice>>
    BY <1>3 DEF MoveDeadline
  <2>4. RemTyped'
    BY <1>2, <2>1, <2>2, <2>3 DEF RemTyped
  <2>5. item'.gen > item.gen
    BY <1>1, <2>1
  <2> QED BY <2>2, <2>3, <2>4, <2>5, DeadlineRowMoves
<1>4. CASE CloseItem \/ DeadlineNears
  <2> PICK phase \in {"far", "near", "past"} : phase = IF item.phase = "far" THEN "near" ELSE "past"
    OBVIOUS
  <2>1. item' = [item EXCEPT !.open = FALSE] \/ item' = [item EXCEPT !.phase = phase]
    BY <1>4 DEF CloseItem, DeadlineNears
  <2>2. item' \in ItemRows /\ item'.gen = item.gen
    BY <1>1, <2>1 DEF ItemRows
  <2>3. UNCHANGED <<nudges, remClaimed, attempted, remCourier, remReceipt, remQueued, unheard, remTold, remTwice>>
    BY <1>4 DEF CloseItem, DeadlineNears
  <2>4. RemTyped'
    BY <1>2, <2>2, <2>3 DEF RemTyped
  <2> QED BY <2>2, <2>3, <2>4, DeadlineRowMoves
<1>5. CASE ReportProgress \/ NudgeFallsDue
  <2> PICK due \in BOOLEAN : /\ nudges' = [nudges EXCEPT !.due = due]
                             /\ due => \A c \in RemCouriers : Job(c).pc = "idle" \/ Job(c).what # "nudge"
    BY <1>5 DEF ReportProgress, NudgeFallsDue, Job
  <2>1. nudges' \in NudgeRows /\ nudges'.attempts = nudges.attempts /\ nudges'.count = nudges.count /\ nudges'.due = due
    BY <1>1 DEF NudgeRows
  <2>2. UNCHANGED <<item, remClaimed, attempted, remCourier, remReceipt, remQueued, unheard, remTold, remTwice>>
    BY <1>5 DEF ReportProgress, NudgeFallsDue
  <2>3. RemTyped'
    BY <1>2, <2>1, <2>2 DEF RemTyped
  <2> QED BY <2>1, <2>2, <2>3, DeadlineRowMoves
<1>6. CASE LeasesRunOut
  <2> PICK r \in Reminder : remClaimed[r] = "fresh" /\ remClaimed' = [remClaimed EXCEPT ![r] = "stale"]
    BY <1>6 DEF LeasesRunOut
  <2>1. /\ remClaimed' \in [Reminder -> {"none", "fresh", "stale"}]
        /\ remClaimed["nudge"] = "none" => remClaimed'["nudge"] = "none"
    BY <1>1
  <2>2. UNCHANGED <<item, nudges, attempted, remCourier, remReceipt, remQueued, unheard, remTold, remTwice>>
    BY <1>6 DEF LeasesRunOut
  <2>3. RemTyped'
    BY <1>2, <2>1, <2>2 DEF RemTyped
  <2> QED BY <2>1, <2>2, <2>3, DeadlineRowMoves
<1>7. CASE UNCHANGED reminderVars
  <2>1. UNCHANGED <<item, nudges, remClaimed, attempted, remCourier, remReceipt, remQueued, unheard, remTold, remTwice>>
    BY <1>7 DEF reminderVars
  <2>2. RemTyped'
    BY <1>2, <2>1 DEF RemTyped
  <2> QED BY <2>1, <2>2, DeadlineRowMoves
<1> QED BY <1>3, <1>4, <1>5, <1>6, <1>7

LEMMA MarkSettledKeeps ==
  ASSUME RemInv, NEW c \in RemCouriers, MarkReminder(c), MarkFits(Job(c)), Job(c).what # "nudge"
  PROVE  RemInv'
<1> PICK r \in Reminder : r = Job(c).what /\ r # "nudge"
  BY JobAt DEF Jobs
<1>1. /\ Job(c).pc = "mark" /\ Job(c).gen = item.gen /\ Become(c, Resting)
      /\ remClaimed' = [remClaimed EXCEPT ![r] = "none"] /\ attempted' = attempted \cup {r}
      /\ UNCHANGED <<nudges, item, remReceipt, remQueued, unheard, remTold, remTwice>>
  BY DEF MarkReminder, MarkFits
<1>2. Grounds(r, item.gen)
  BY <1>1 DEF RemInv, MarksFounded
<1>3. remClaimed' \in [Reminder -> {"none", "fresh", "stale"}] /\ remClaimed'["nudge"] = remClaimed["nudge"]
  BY <1>1 DEF RemInv, RemTyped, Reminder
<1>4. /\ Job(c)' = Resting
      /\ \A d \in RemCouriers : d # c => Job(d)' = Job(d) /\ Key(d)' = Key(d)
      /\ remCourier' \in [RemCouriers -> Jobs] /\ \A d \in RemCouriers : JobIsSound(remCourier'[d])
  BY <1>1, RestingSound, Becomes
<1>5. RemTyped'
  BY <1>1, <1>3, <1>4 DEF RemInv, RemTyped
<1>6. OneHandsOver'
  BY <1>1, RestingSound, NothingHandedOver
<1>7. MarksFounded'
  BY <1>1, <1>2, <1>4, RestingSound DEF RemInv, MarksFounded, Grounds
<1>8. NudgesFounded'
  <2> PICK gen \in Nat : gen = item.gen
    BY DEF RemInv, RemTyped, ItemRows
  <2> PICK made \in Nat : made = nudges.attempts
    BY DEF RemInv, RemTyped, NudgeRows
  <2> PICK count \in Nat : count = nudges.count
    BY DEF RemInv, RemTyped, NudgeRows
  <2>1. count <= Cardinality(NudgedTo(gen, made))
    BY DEF RemInv, NudgesFounded
  <2>2. nudges'.count <= Cardinality(NudgedTo(item.gen, nudges.attempts))'
    BY <1>1, <2>1 DEF NudgedTo
  <2>3. ASSUME NEW d \in RemCouriers PROVE NudgeFounded(d, gen, made, count)'
    <3>1. CASE d = c
      BY <1>4, <3>1, RestingSound DEF NudgeFounded
    <3>2. CASE d # c
      <4>1. Job(d)' = Job(d) /\ Key(d)' = Key(d)
        BY <1>4, <3>2
      <4>2. NudgeFounded(d, gen, made, count)
        BY DEF RemInv, NudgesFounded, NudgeFounded
      <4> PICK g : g = Job(d).gen
        OBVIOUS
      <4>3. NudgedOf(Job(d).gen)' = NudgedOf(g)
        BY <1>1, <4>1 DEF NudgedOf
      <4> QED BY <1>1, <1>3, <4>1, <4>2, <4>3 DEF NudgeFounded
    <3> QED BY <3>1, <3>2
  <2>4. \A k \in remTold' : k.leg = "escalate" => k.n <= Cardinality(NudgedOf(k.gen))'
    BY <1>1 DEF RemInv, NudgesFounded, NudgedOf
  <2> QED BY <1>1, <2>2, <2>3, <2>4 DEF NudgesFounded, NudgeFounded
<1> QED BY <1>5, <1>6, <1>7, <1>8 DEF RemInv

LEMMA MarkKeeps ==
  ASSUME RemInv, NEW c \in RemCouriers, MarkReminder(c)
  PROVE  RemInv'
<1>1. CASE ~MarkFits(Job(c))
  <2>1. /\ Job(c).pc # "idle" /\ Become(c, Resting)
        /\ UNCHANGED <<item, remClaimed, attempted, nudges, remReceipt, remQueued, unheard, remTold, remTwice>>
    BY <1>1 DEF MarkReminder
  <2> QED BY <2>1, Ends
<1> QED BY <1>1, MarkNudgeKeeps, MarkSettledKeeps

\* A claim takes the row as it is; no other nudge is in doubt while one falls due.
LEMMA ClaimKeeps ==
  ASSUME RemInv, NEW c \in RemCouriers, NEW r \in Reminder, ClaimReminder(c, r)
  PROVE  RemInv'
<1> PICK gen \in Nat : gen = item.gen
  BY DEF RemInv, RemTyped, ItemRows
<1> PICK made \in Nat : made = nudges.attempts
  BY DEF RemInv, RemTyped, NudgeRows
<1> PICK count \in Nat : count = nudges.count
  BY DEF RemInv, RemTyped, NudgeRows
<1> PICK n \in Nat : n = IF r = "nudge" THEN made + 1 ELSE 0
  OBVIOUS
<1> PICK job : job = [Resting EXCEPT !.pc = "look", !.what = r, !.gen = gen, !.leg = r, !.count = count, !.n = n]
  OBVIOUS
<1>1. /\ job \in Jobs /\ JobIsSound(job) /\ job.pc = "look" /\ job.what = r /\ job.leg = r /\ job.gen = gen
      /\ job.count = count /\ job.n = n /\ job.delivered = FALSE
  <2>1. r \in Legs
    BY DEF Reminder, Legs
  <2> QED BY <2>1 DEF Resting, Jobs, JobIsSound, Reminder
<1>2. /\ Job(c).pc = "idle" /\ RemDue(r) /\ remClaimed' = [remClaimed EXCEPT ![r] = "fresh"]
      /\ Become(c, job)
      /\ UNCHANGED <<nudges, item, attempted, remReceipt, remQueued, unheard, remTold, remTwice>>
  BY DEF ClaimReminder, Become, Job
<1>3. /\ remClaimed' \in [Reminder -> {"none", "fresh", "stale"}]
      /\ r # "nudge" => remClaimed'["nudge"] = remClaimed["nudge"]
  BY <1>2 DEF RemInv, RemTyped, Reminder
<1>4. r = "nudge" => nudges.due
  BY <1>2 DEF RemDue
<1>5. /\ Job(c)' = job
      /\ \A d \in RemCouriers : d # c => Job(d)' = Job(d) /\ Key(d)' = Key(d)
      /\ remCourier' \in [RemCouriers -> Jobs] /\ \A d \in RemCouriers : JobIsSound(remCourier'[d])
  BY <1>1, <1>2, Becomes
<1>6. RemTyped'
  BY <1>2, <1>3, <1>5 DEF RemInv, RemTyped
<1>7. OneHandsOver'
  BY <1>1, <1>2, NothingHandedOver
<1>8. MarksFounded'
  <2>1. \A x \in attempted' : Grounds(x, item.gen)'
    BY <1>2 DEF RemInv, MarksFounded, Grounds
  <2>2. ASSUME NEW d \in RemCouriers, Job(d)'.pc = "mark" PROVE Grounds(Job(d).what, Job(d).gen)'
    <3>1. d # c /\ Job(d)' = Job(d) /\ Job(d).pc = "mark"
      BY <1>1, <1>5, <2>2
    <3>2. Grounds(Job(d).what, Job(d).gen)
      BY <3>1 DEF RemInv, MarksFounded
    <3> QED BY <1>2, <3>1, <3>2 DEF Grounds
  <2> QED BY <2>1, <2>2 DEF MarksFounded
<1>9. NudgesFounded'
  <2>1. count <= Cardinality(NudgedTo(gen, made))
    BY DEF RemInv, NudgesFounded
  <2>2. nudges'.count <= Cardinality(NudgedTo(item.gen, nudges.attempts))'
    BY <1>2, <2>1 DEF NudgedTo
  <2>3. ASSUME NEW d \in RemCouriers PROVE NudgeFounded(d, gen, made, count)'
    <3>1. CASE d = c
      <4>1. r = "nudge" => job.n = made + 1
        BY <1>1
      <4>2. job.leg # "escalate" /\ gen <= gen
        BY <1>1 DEF Reminder
      <4> QED BY <1>1, <1>5, <3>1, <4>1, <4>2 DEF NudgeFounded
    <3>2. CASE d # c
      <4>1. Job(d)' = Job(d) /\ Key(d)' = Key(d)
        BY <1>5, <3>2
      <4>2. NudgeFounded(d, gen, made, count)
        BY DEF RemInv, NudgesFounded, NudgeFounded
      <4> PICK g : g = Job(d).gen
        OBVIOUS
      <4>3. NudgedOf(Job(d).gen)' = NudgedOf(g)
        BY <1>2, <4>1 DEF NudgedOf
      <4>4. (remClaimed["nudge"] = "none" /\ ~nudges.due) => (remClaimed'["nudge"] = "none" /\ ~nudges'.due)
        BY <1>2, <1>3, <1>4
      <4> QED BY <1>2, <4>1, <4>2, <4>3, <4>4 DEF NudgeFounded
    <3> QED BY <3>1, <3>2
  <2>4. \A k \in remTold' : k.leg = "escalate" => k.n <= Cardinality(NudgedOf(k.gen))'
    BY <1>2 DEF RemInv, NudgesFounded, NudgedOf
  <2> QED BY <1>2, <2>2, <2>3, <2>4 DEF NudgesFounded, NudgeFounded
<1> QED BY <1>6, <1>7, <1>8, <1>9 DEF RemInv

LEMMA RemStep ==
  ASSUME RemInv, [RemindersNext]_reminderVars
  PROVE  RemInv'
<1>1. CASE MoveDeadline \/ CloseItem \/ ReportProgress \/ DeadlineNears \/ LeasesRunOut \/ NudgeFallsDue
           \/ UNCHANGED reminderVars
  BY <1>1, RowKeeps
<1>2. ASSUME NEW c \in RemCouriers, NEW r \in Reminder, ClaimReminder(c, r) PROVE RemInv'
  BY <1>2, ClaimKeeps
<1>3. ASSUME NEW c \in RemCouriers, DoJob(c) PROVE RemInv'
  <2>1. CASE LookUp(c)
    BY <2>1, LookUpKeeps
  <2>2. CASE EnqueueNotice(c)
    BY <2>2, EnqueueKeeps
  <2>3. CASE BeginReminder(c)
    BY <2>3, BeginReminderKeeps
  <2>4. CASE TransmitReminder(c)
    BY <2>4, TransmitKeeps
  <2>5. CASE MarkReminder(c)
    BY <2>5, MarkKeeps
  <2> QED BY <1>3, <2>1, <2>2, <2>3, <2>4, <2>5 DEF DoJob
<1>4. ASSUME NEW c \in RemCouriers, LoseJob(c) PROVE RemInv'
  <2>1. /\ Job(c).pc # "idle" /\ Become(c, Resting)
        /\ UNCHANGED <<item, remClaimed, attempted, nudges, remReceipt, remQueued, unheard, remTold, remTwice>>
    BY <1>4 DEF LoseJob
  <2> QED BY <2>1, Ends
<1> QED BY <1>1, <1>2, <1>3, <1>4 DEF RemindersNext

\* The reminders of an item fit its present deadline: a late courier does not settle
\* the reminder of a deadline that moved, no message is handed over twice, and an
\* escalation says no more nudges than were delivered.
THEOREM RemindersTrue == RemindersSpec => []RemindersAreTrue
<1>1. ASSUME RemInv PROVE RemindersAreTrue
  <2>1. MarksFitTheDeadline
    BY <1>1 DEF RemInv, MarksFounded, MarksFitTheDeadline, Grounds
  <2>2. NudgesAreCounted
    BY <1>1 DEF RemInv, OneHandsOver, NudgesFounded, NudgesAreCounted, NudgedOf
  <2> QED BY <2>1, <2>2 DEF RemindersAreTrue
<1> QED BY <1>1, RemInitial, RemStep, PTL DEF RemindersSpec

--------------------------------------------------------------------------------
(* The Telegram inbox *)

\* The goroutines of a conversation, as the line keeps them.
LineItems == [updates : Seq(Inbound), open : BOOLEAN]

\* The updates of a line.
Lined(l) == UNION {ToSet(l[i].updates) : i \in DOMAIN l}

\* Nothing waits behind an album that still grows, and an item in work is in the line.
InboxInv ==
  /\ burst \in Seq(Inbound)
  /\ line \in Seq(LineItems)
  /\ Collecting => burst = <<>>
  /\ running => line # <<>>
  /\ SlotsAreOwned

LEMMA SlotsInLine == SlotsAreOwned <=> claimed \subseteq ToSet(burst) \cup Lined(line)
BY DEF SlotsAreOwned, Lined

LEMMA AppendedSet ==
  ASSUME NEW s \in Seq(Inbound), NEW u \in Inbound
  PROVE  Append(s, u) \in Seq(Inbound) /\ ToSet(Append(s, u)) = ToSet(s) \cup {u}
<1> PICK n \in Nat : n = Len(s) /\ DOMAIN s = 1 .. n
  OBVIOUS
<1> PICK t : t = Append(s, u)
  OBVIOUS
<1>1. t \in Seq(Inbound) /\ DOMAIN t = 1 .. n + 1 /\ t[n + 1] = u /\ \A i \in 1 .. n : t[i] = s[i]
  OBVIOUS
<1>2. 1 .. n + 1 = 1 .. n \cup {n + 1}
  OBVIOUS
<1>3. ToSet(t) = ToSet(s) \cup {u}
  BY <1>1, <1>2 DEF ToSet
<1> QED BY <1>1, <1>3

LEMMA SingleSet == ASSUME NEW u \in Inbound PROVE <<u>> \in Seq(Inbound) /\ ToSet(<<u>>) = {u}
BY DEF ToSet

LEMMA EmptySet == ToSet(<<>>) = {} /\ Lined(<<>>) = {}
BY DEF ToSet, Lined

\* Closing the album moves no update.
LEMMA ClosedLine ==
  ASSUME NEW l \in Seq(LineItems)
  PROVE  /\ AlbumClosed(l) \in Seq(LineItems)
         /\ Lined(AlbumClosed(l)) = Lined(l)
         /\ Len(AlbumClosed(l)) = Len(l)
         /\ AlbumClosed(l) # <<>> => ~Last(AlbumClosed(l)).open
<1> PICK n \in Nat : n = Len(l) /\ DOMAIN l = 1 .. n
  OBVIOUS
<1>1. AlbumClosed(l) = [i \in 1 .. n |-> [l[i] EXCEPT !.open = FALSE]]
  BY DEF AlbumClosed
<1>2. \A i \in 1 .. n : /\ [l[i] EXCEPT !.open = FALSE] \in LineItems
                        /\ [l[i] EXCEPT !.open = FALSE].updates = l[i].updates
                        /\ ~[l[i] EXCEPT !.open = FALSE].open
  <2> TAKE i \in 1 .. n
  <2> PICK old \in LineItems : old = l[i]
    OBVIOUS
  <2> PICK new : new = [old EXCEPT !.open = FALSE]
    OBVIOUS
  <2>1. new \in LineItems
    BY DEF LineItems
  <2>2. new.updates = old.updates
    BY DEF LineItems
  <2>3. ~new.open
    BY DEF LineItems
  <2> QED BY <2>1, <2>2, <2>3
<1> HIDE DEF LineItems
<1>3. AlbumClosed(l) \in Seq(LineItems) /\ Len(AlbumClosed(l)) = n /\ DOMAIN AlbumClosed(l) = 1 .. n
  BY <1>1, <1>2
<1>4. \A i \in 1 .. n : AlbumClosed(l)[i].updates = l[i].updates /\ ~AlbumClosed(l)[i].open
  BY <1>1, <1>2
<1>5. Lined(AlbumClosed(l)) = Lined(l)
  BY <1>3, <1>4 DEF Lined
<1>6. AlbumClosed(l) # <<>> => ~Last(AlbumClosed(l)).open
  BY <1>3, <1>4 DEF Last
<1> QED BY <1>3, <1>5, <1>6

LEMMA JoinedLine ==
  ASSUME NEW l \in Seq(LineItems), NEW s \in Seq(Inbound), NEW o \in BOOLEAN
  PROVE  /\ Append(l, Item(s, o)) \in Seq(LineItems)
         /\ Lined(Append(l, Item(s, o))) = Lined(l) \cup ToSet(s)
         /\ Append(l, Item(s, o)) # <<>>
         /\ Last(Append(l, Item(s, o))).open <=> o
<1> PICK e : e = [updates |-> s, open |-> o]
  OBVIOUS
<1>0. e \in LineItems /\ e.updates = s /\ (e.open <=> o) /\ e = Item(s, o)
  BY DEF LineItems, Item
<1> HIDE DEF LineItems
<1> PICK n \in Nat : n = Len(l) /\ DOMAIN l = 1 .. n
  OBVIOUS
<1> PICK k : k = Append(l, e)
  OBVIOUS
<1>1. k \in Seq(LineItems) /\ Len(k) = n + 1 /\ DOMAIN k = 1 .. n + 1 /\ k[n + 1] = e
      /\ \A i \in 1 .. n : k[i] = l[i]
  BY <1>0
<1>2. Lined(k) = Lined(l) \cup ToSet(s)
  <2>1. 1 .. n + 1 = 1 .. n \cup {n + 1}
    OBVIOUS
  <2> QED BY <1>0, <1>1, <2>1 DEF Lined
<1>3. k # <<>> /\ Last(k) = e
  BY <1>1 DEF Last
<1> QED BY <1>0, <1>1, <1>2, <1>3

LEMMA QueuedBurst ==
  ASSUME InboxInv, NEW l \in Seq(LineItems)
  PROVE  /\ BurstQueued(l) \in Seq(LineItems)
         /\ Lined(BurstQueued(l)) = Lined(l) \cup ToSet(burst)
         /\ l # <<>> => BurstQueued(l) # <<>>
         /\ (l # <<>> => ~Last(l).open) => (BurstQueued(l) # <<>> => ~Last(BurstQueued(l)).open)
BY JoinedLine, EmptySet DEF BurstQueued, InboxInv

\* Routing keeps what is in line and adds the update.
Routed(u) ==
  /\ burst' \in Seq(Inbound)
  /\ line' \in Seq(LineItems)
  /\ (line' # <<>> /\ Last(line').open) => burst' = <<>>
  /\ line # <<>> => line' # <<>>
  /\ ToSet(burst) \cup Lined(line) \cup {u} \subseteq ToSet(burst') \cup Lined(line')

LEMMA TextRouted ==
  ASSUME InboxInv, NEW u \in Inbound, NEW kind, RouteText(u, kind)
  PROVE  Routed(u)
<1>1. /\ line \in Seq(LineItems) /\ burst \in Seq(Inbound)
      /\ AlbumClosed(line) \in Seq(LineItems) /\ Lined(AlbumClosed(line)) = Lined(line)
      /\ line # <<>> => AlbumClosed(line) # <<>>
      /\ AlbumClosed(line) # <<>> => ~Last(AlbumClosed(line)).open
  BY ClosedLine DEF InboxInv
<1>2. CASE burst' = Append(burst, u) /\ line' = AlbumClosed(line)
  BY <1>1, <1>2, AppendedSet DEF Routed
<1>3. CASE burst' = <<u>> /\ line' = BurstQueued(AlbumClosed(line))
  BY <1>1, <1>3, SingleSet, QueuedBurst DEF Routed
<1> QED BY <1>2, <1>3 DEF RouteText

LEMMA AlbumRouted ==
  ASSUME InboxInv, NEW u \in Inbound, RouteAlbum(u)
  PROVE  Routed(u)
<1>1. line \in Seq(LineItems) /\ burst \in Seq(Inbound) /\ burst' = <<>>
  BY DEF InboxInv, RouteAlbum
<1>2. CASE ~Collecting
  <2>1. line' = Append(BurstQueued(line), Item(<<u>>, TRUE))
    BY <1>2 DEF RouteAlbum
  <2> PICK l : l = BurstQueued(line)
    OBVIOUS
  <2>2. l \in Seq(LineItems) /\ Lined(l) = Lined(line) \cup ToSet(burst)
    BY <1>1, QueuedBurst
  <2>3. <<u>> \in Seq(Inbound) /\ ToSet(<<u>>) = {u}
    BY SingleSet
  <2>4. /\ line' \in Seq(LineItems) /\ line' # <<>>
        /\ Lined(line') = Lined(l) \cup {u}
    BY <2>1, <2>2, <2>3, JoinedLine
  <2> QED BY <1>1, <2>2, <2>4, EmptySet DEF Routed
<1>3. CASE Collecting
  <2> PICK n \in Nat : n = Len(line) /\ DOMAIN line = 1 .. n /\ n > 0
    BY <1>1, <1>3 DEF Collecting
  <2> PICK old \in LineItems : old = line[n]
    BY <1>1
  <2> PICK e : e = [old EXCEPT !.updates = Append(@, u)]
    OBVIOUS
  <2>1. e \in LineItems /\ ToSet(e.updates) = ToSet(old.updates) \cup {u}
    BY AppendedSet DEF LineItems
  <2>2. line' = [line EXCEPT ![n] = e] /\ burst = <<>>
    BY <1>3 DEF RouteAlbum, InboxInv
  <2> HIDE DEF LineItems
  <2> PICK l \in Seq(LineItems) : l = line
    BY <1>1
  <2> PICK k : k = line'
    OBVIOUS
  <2>3. k = [l EXCEPT ![n] = e] /\ n = Len(l) /\ DOMAIN l = 1 .. n
    BY <2>2
  <2>4. k \in Seq(LineItems) /\ DOMAIN k = 1 .. n
    BY <2>1, <2>3
  <2>5. Len(k) = n /\ k[n] = e /\ \A i \in 1 .. n : i # n => k[i] = l[i]
    BY <2>3, <2>4
  <2>6. line' \in Seq(LineItems) /\ Len(line') = n /\ DOMAIN line' = 1 .. n /\ line'[n] = e
        /\ \A i \in 1 .. n : i # n => line'[i] = line[i]
    BY <2>4, <2>5
  <2>7. n \in DOMAIN line' /\ ToSet(line'[n].updates) = ToSet(old.updates) \cup {u}
    BY <2>1, <2>6
  <2>8. ToSet(old.updates) \cup {u} \subseteq Lined(line')
    BY <2>7 DEF Lined
  <2>9. \A i \in 1 .. n : ToSet(line[i].updates) \subseteq Lined(line')
    <3> TAKE i \in 1 .. n
    <3>1. CASE i = n
      BY <3>1, <2>8
    <3>2. CASE i # n
      <4>1. line'[i] = line[i] /\ i \in DOMAIN line'
        BY <3>2, <2>6
      <4> QED BY <4>1 DEF Lined
    <3> QED BY <3>1, <3>2
  <2>10. Lined(line) \cup {u} \subseteq Lined(line')
    BY <2>8, <2>9 DEF Lined
  <2> QED BY <1>1, <2>2, <2>6, <2>10, EmptySet DEF Routed
<1> QED BY <1>2, <1>3

LEMMA SingleRouted ==
  ASSUME InboxInv, NEW u \in Inbound, RouteSingle(u)
  PROVE  Routed(u)
<1>1. line \in Seq(LineItems) /\ burst \in Seq(Inbound) /\ burst' = <<>>
  BY DEF InboxInv, RouteSingle
<1>2. /\ BurstQueued(line) \in Seq(LineItems)
      /\ AlbumClosed(BurstQueued(line)) \in Seq(LineItems)
      /\ Lined(AlbumClosed(BurstQueued(line))) = Lined(line) \cup ToSet(burst)
  BY <1>1, QueuedBurst, ClosedLine
<1>3. line' = Append(AlbumClosed(BurstQueued(line)), Item(<<u>>, FALSE))
  BY DEF RouteSingle
<1> PICK l : l = AlbumClosed(BurstQueued(line))
  OBVIOUS
<1>4. <<u>> \in Seq(Inbound) /\ ToSet(<<u>>) = {u}
  BY SingleSet
<1>5. line' \in Seq(LineItems) /\ line' # <<>> /\ Lined(line') = Lined(l) \cup {u}
  BY <1>2, <1>3, <1>4, JoinedLine
<1> QED BY <1>1, <1>2, <1>5, EmptySet DEF Routed

LEMMA TakeKeeps == ASSUME InboxInv, NEW u \in Inbound, TakeInbound(u) PROVE InboxInv'
<1>1. claimed \subseteq ToSet(burst) \cup Lined(line) /\ UNCHANGED running
  BY SlotsInLine DEF InboxInv, TakeInbound
<1>2. CASE claimed' = claimed \ {u} /\ UNCHANGED <<burst, line>>
  BY <1>1, <1>2 DEF InboxInv, SlotsAreOwned, Collecting
<1>3. CASE claimed' = claimed \cup {u} /\ Repeated(u) /\ UNCHANGED <<burst, line>>
  <2>1. u \in ToSet(burst) \cup Lined(line)
    <3>1. CASE u \in ToSet(Last(line).updates) /\ Collecting
      <4>1. Last(line) = line[Len(line)] /\ Len(line) \in DOMAIN line
        BY <3>1 DEF Collecting, Last, InboxInv
      <4> QED BY <3>1, <4>1 DEF Lined
    <3> QED BY <1>3, <3>1 DEF Repeated
  <2> QED BY <1>1, <1>3, <2>1, SlotsInLine DEF InboxInv, Collecting, SlotsAreOwned, Lined
<1>4. CASE claimed' = claimed \cup {u} /\ Routed(u)
  <2>1. SlotsAreOwned'
    <3>1. claimed' \subseteq ToSet(burst') \cup Lined(line')
      BY <1>1, <1>4 DEF Routed
    <3> QED BY <3>1 DEF SlotsAreOwned, Lined
  <2> QED BY <1>1, <1>4, <2>1 DEF InboxInv, Routed, Collecting
<1> QED BY <1>2, <1>3, <1>4, TextRouted, AlbumRouted, SingleRouted DEF TakeInbound

LEMMA TimersKeep == ASSUME InboxInv, BurstTimer \/ AlbumTimer PROVE InboxInv'
<1>1. claimed \subseteq ToSet(burst) \cup Lined(line) /\ UNCHANGED <<claimed, running>>
      /\ line \in Seq(LineItems)
  BY SlotsInLine DEF InboxInv, BurstTimer, AlbumTimer
<1>2. CASE BurstTimer
  <2>1. line' = BurstQueued(line) /\ burst' = <<>> /\ (line # <<>> => line' # <<>>) /\ line' \in Seq(LineItems)
    BY <1>1, <1>2, QueuedBurst DEF BurstTimer
  <2>2. claimed' \subseteq ToSet(burst') \cup Lined(line')
    BY <1>1, <2>1, QueuedBurst
  <2> QED BY <1>1, <2>1, <2>2 DEF InboxInv, SlotsAreOwned, Lined, Collecting
<1>3. CASE AlbumTimer
  <2>1. /\ line' = AlbumClosed(line) /\ UNCHANGED burst /\ line' \in Seq(LineItems)
        /\ Lined(line') = Lined(line) /\ (line # <<>> => line' # <<>>)
        /\ line' # <<>> => ~Last(line').open
    BY <1>1, <1>3, ClosedLine DEF AlbumTimer
  <2>2. claimed' \subseteq ToSet(burst') \cup Lined(line')
    BY <1>1, <2>1
  <2> QED BY <1>1, <2>1, <2>2 DEF InboxInv, SlotsAreOwned, Lined, Collecting
<1> QED BY <1>2, <1>3

LEMMA FinishKeeps == ASSUME InboxInv, NEW processed \in BOOLEAN, FinishItem(processed) PROVE InboxInv'
<1>1. /\ claimed \subseteq ToSet(burst) \cup Lined(line)
      /\ line \in Seq(LineItems) /\ line # <<>> /\ burst \in Seq(Inbound)
      /\ line' = Tail(line) /\ UNCHANGED burst /\ ~running'
      /\ claimed' = claimed \ ToSet(Head(line).updates)
  BY SlotsInLine DEF InboxInv, FinishItem
<1> PICK n \in Nat : n = Len(line) /\ DOMAIN line = 1 .. n /\ n > 0
  BY <1>1
<1>2. /\ line' \in Seq(LineItems) /\ Len(line') = n - 1 /\ DOMAIN line' = 1 .. n - 1
      /\ \A i \in 1 .. n - 1 : line'[i] = line[i + 1]
      /\ Head(line) = line[1]
  BY <1>1
<1>3. \A i \in 2 .. n : i - 1 \in 1 .. n - 1 /\ line'[i - 1] = line[i]
  BY <1>2
<1>4. Lined(line) \subseteq ToSet(Head(line).updates) \cup Lined(line')
  <2>1. \A i \in 1 .. n : i = 1 \/ i \in 2 .. n
    OBVIOUS
  <2> QED BY <1>2, <1>3, <2>1 DEF Lined
<1>5. claimed' \subseteq ToSet(burst') \cup Lined(line')
  BY <1>1, <1>4
<1>6. line' # <<>> => Last(line') = Last(line)
  BY <1>1, <1>2 DEF Last
<1> QED BY <1>1, <1>2, <1>5, <1>6 DEF InboxInv, SlotsAreOwned, Lined, Collecting

LEMMA InboxRests ==
  ASSUME InboxInv, UNCHANGED <<claimed, burst, line>>, running' = running \/ line # <<>>
  PROVE  InboxInv'
BY DEF InboxInv, SlotsAreOwned, Collecting

LEMMA InboxStep == InboxInv /\ [InboxNext]_inboxVars => InboxInv'
<1> SUFFICES ASSUME InboxInv, [InboxNext]_inboxVars PROVE InboxInv'
  OBVIOUS
<1>1. CASE UNCHANGED inboxVars
  BY <1>1, InboxRests DEF inboxVars
<1>2. CASE \E kind \in InboundKinds : StoreUpdate(kind)
  BY <1>2, InboxRests DEF StoreUpdate
<1>3. ASSUME NEW u \in Inbound, Drain(u) \/ InboundWaits(u) \/ InboundLeaseEnds(u) PROVE InboxInv'
  BY <1>3, TakeKeeps, InboxRests DEF Drain, ExhaustInbound, InboundWaits, InboundLeaseEnds
<1>4. CASE BurstTimer \/ AlbumTimer
  BY <1>4, TimersKeep
<1>5. CASE Process
  BY <1>5, FinishKeeps, InboxRests DEF Process, StartItem
<1>6. CASE InboxStops
  BY <1>6 DEF InboxStops, InboxInv, SlotsAreOwned, Collecting
<1> QED BY <1>1, <1>2, <1>3, <1>4, <1>5, <1>6 DEF InboxNext

\* A slot of the inbox is held only by an update that waits in a burst or in line, so it is
\* given back when that is finished, for any number of updates, of any kinds
\* (drainInboundUpdates, flushPendingText, flushPendingMedia, finishQueuedMessage).
THEOREM SlotsOwned == InboxSpec => []SlotsAreOwned
<1>1. InboxInit => InboxInv
  BY DEF InboxInit, InboxInv, SlotsAreOwned, Collecting
<1>2. InboxInv => SlotsAreOwned
  BY DEF InboxInv
<1> QED BY <1>1, <1>2, InboxStep, PTL DEF InboxSpec
================================================================================
