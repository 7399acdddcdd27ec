------------------------------ MODULE EventBus ------------------------------
(***************************************************************************)
(* The durable event queue and the bus that empties it: a fact is recorded *)
(* once, a model decides whether to tell its user, and the message goes    *)
(* out under a delivery receipt.                                           *)
(*                                                                         *)
(* A handler is one goroutine of the bus; it works on the copy of the row  *)
(* it claimed, and every statement it makes is a step.  Every statement    *)
(* may fail, and the process may stop between any two.  Rows carry no      *)
(* clock: "ready" is available_at <= now, "stale" a claim older than       *)
(* eventClaimLease, "recent" an event inside the five-minute window.       *)
(* Sending an event's message concerns no receipt but its own.             *)
(***************************************************************************)
EXTENDS Integers, FiniteSets

CONSTANTS
  Facts,            \* what can be reported: a kind, a decider and a detail
  StableFacts,      \* those reported under a source key
  MaxEvents,        \* bound: rows of events
  MaxReports,       \* bound: calls of Emit and EnqueueOnce
  MaxEventAttempts, \* eventMaxAttempts
  MaxHandlers       \* slots of Bus.sem

EventIds == 1 .. MaxEvents
Handlers == 1 .. MaxHandlers

ASSUME EventBusAssumption ==
  /\ StableFacts \subseteq Facts
  /\ MaxEvents \in Nat
  /\ MaxReports \in Nat
  /\ MaxEventAttempts \in Nat \ {0}
  /\ MaxHandlers \in Nat \ {0}

VARIABLES
  event,     \* events
  receipt,   \* notification_deliveries, by event
  handler,   \* the goroutines of dispatchDue
  reports,   \* calls of the enqueueing functions so far
  begun,     \* by event: model turns begun since it was last opened
  sends,     \* by event: messages given to the channel under its receipt
  told       \* by event: the channel confirmed a message

busVars == <<event, receipt, handler, reports, begun, sends, told>>

BlankEvent == [fact |-> "none", required |-> FALSE, recent |-> FALSE, status |-> "absent",
               attempts |-> 0, outcome |-> "", mode |-> "", reply |-> "",
               claim |-> 0, claims |-> 0, ready |-> FALSE, stale |-> FALSE]
FreeSlot   == [pc |-> "free", event |-> 0, claim |-> 0, attempts |-> 0, required |-> FALSE,
               mode |-> "", reply |-> ""]

BusInit ==
  /\ event = [e \in EventIds |-> BlankEvent]
  /\ receipt = [e \in EventIds |-> "none"]
  /\ handler = [h \in Handlers |-> FreeSlot]
  /\ reports = 0
  /\ begun = [e \in EventIds |-> 0]
  /\ sends = [e \in EventIds |-> 0]
  /\ told = [e \in EventIds |-> FALSE]

--------------------------------------------------------------------------------
(* Recording a fact *)

Represents(e, f) ==
  /\ event[e].status # "absent"
  /\ event[e].fact = f
  /\ f \in StableFacts \/ event[e].recent

WasDelivered(e) == event[e].status = "done" /\ event[e].outcome \in {"handled", "fallback"}
EventEnded(e)   == event[e].status \in {"done", "failed"}

\* Mistake: a required duplicate marks the row and leaves an ended event ended.
NeverReopens(e) == FALSE

Reopens(e) ==
  /\ EventEnded(e)
  /\ ~WasDelivered(e)
  /\ ~(event[e].fact \in StableFacts /\ event[e].required)

Opened(e) ==
  IF Reopens(e)
  THEN [event[e] EXCEPT !.required = TRUE, !.status = "pending", !.attempts = 0, !.outcome = "",
                        !.reply = "", !.mode = "", !.ready = TRUE, !.claim = 0, !.stale = FALSE]
  ELSE [event[e] EXCEPT !.required = TRUE]

RecordFact(f, required) ==
  /\ reports < MaxReports
  /\ ~\E e \in EventIds : Represents(e, f)
  /\ \E e \in EventIds :
       /\ event[e].status = "absent"
       /\ \A d \in 1 .. e - 1 : event[d].status # "absent"
       /\ event' = [event EXCEPT ![e] = [BlankEvent EXCEPT !.fact = f, !.required = required,
                                           !.recent = f \notin StableFacts, !.status = "pending", !.ready = TRUE]]
  /\ reports' = reports + 1
  /\ UNCHANGED <<receipt, handler, begun, sends, told>>

\* A duplicate changes the row only when it is required; that its text may
\* differ from the first one's is reported to the log and changes nothing.
RecordDuplicate(f) ==
  /\ reports < MaxReports
  /\ \E e \in EventIds :
       /\ Represents(e, f)
       /\ \A d \in e + 1 .. MaxEvents : ~Represents(d, f)
       /\ ~event[e].required \/ Reopens(e)
       /\ event' = [event EXCEPT ![e] = Opened(e)]
       /\ begun' = IF Reopens(e) THEN [begun EXCEPT ![e] = 0] ELSE begun
  /\ reports' = reports + 1
  /\ UNCHANGED <<receipt, handler, sends, told>>

WindowCloses(e) ==
  /\ event[e].recent
  /\ event' = [event EXCEPT ![e].recent = FALSE]
  /\ UNCHANGED <<receipt, handler, reports, begun, sends, told>>

--------------------------------------------------------------------------------
(* Claiming *)

DueAgain(e) ==
  \/ event[e].status = "pending" /\ event[e].ready
  \/ event[e].status = "processing" /\ event[e].stale

\* Mistake: an event interrupted in its last attempt is left as it is.
ExhaustWaiting(e) ==
  /\ event[e].status = "pending" /\ event[e].ready
  /\ event[e].attempts >= MaxEventAttempts
  /\ event' = [event EXCEPT ![e].status = "failed", ![e].outcome = "send_failed"]
  /\ UNCHANGED <<receipt, handler, reports, begun, sends, told>>

Exhaust(e) ==
  /\ DueAgain(e)
  /\ event[e].attempts >= MaxEventAttempts
  /\ event' = [event EXCEPT ![e].status = "failed", ![e].outcome = "send_failed",
                            ![e].claim = 0, ![e].stale = FALSE]
  /\ UNCHANGED <<receipt, handler, reports, begun, sends, told>>

\* Slots are alike: the first free one is taken.
Dispatch(h, e) ==
  /\ handler[h].pc = "free"
  /\ \A g \in 1 .. h - 1 : handler[g].pc # "free"
  /\ DueAgain(e)
  /\ event[e].attempts < MaxEventAttempts
  /\ event' = [event EXCEPT ![e].status = "processing", ![e].claim = event[e].claims + 1,
                            ![e].claims = @ + 1, ![e].attempts = @ + 1, ![e].stale = FALSE]
  /\ handler' = [handler EXCEPT ![h] =
                   [pc |-> "start", event |-> e, claim |-> event[e].claims + 1,
                    attempts |-> event[e].attempts + 1, required |-> event[e].required,
                    mode |-> event[e].mode, reply |-> event[e].reply]]
  /\ UNCHANGED <<receipt, reports, begun, sends, told>>

BackoffEnds(e) ==
  /\ event[e].status = "pending"
  /\ ~event[e].ready
  /\ event' = [event EXCEPT ![e].ready = TRUE]
  /\ UNCHANGED <<receipt, handler, reports, begun, sends, told>>

\* The time-outs of one handling add up to more than the lease.
ClaimExpires(e) ==
  /\ event[e].status = "processing"
  /\ ~event[e].stale
  /\ event' = [event EXCEPT ![e].stale = TRUE]
  /\ UNCHANGED <<receipt, handler, reports, begun, sends, told>>

--------------------------------------------------------------------------------
(* Handling *)

StillClaimed(h) ==
  LET e == handler[h].event
  IN  event[e].status = "processing" /\ event[e].claim = handler[h].claim

Go(h, pc) == handler' = [handler EXCEPT ![h].pc = pc]
Say(h, mode, reply) ==
  handler' = [handler EXCEPT ![h].pc = "prepare", ![h].mode = mode, ![h].reply = reply]
Release(h) == handler' = [handler EXCEPT ![h] = FreeSlot]

\* A statement of the handler fails, the channel is not ready, or it panics.
StepFails(h) ==
  /\ handler[h].pc \in {"start", "begin", "skip", "prepare", "send"}
  /\ Go(h, "retry")
  /\ UNCHANGED <<event, receipt, reports, begun, sends, told>>

\* An acknowledgement fails; its handler is done.
AckFails(h) ==
  /\ handler[h].pc \in {"retry", "drop", "settle", "settleUnsent"}
  /\ Release(h)
  /\ UNCHANGED <<event, receipt, reports, begun, sends, told>>

\* Mistake: an interrupted decision is taken again.
FindDeciderAnew(h) ==
  /\ handler[h].pc = "start"
  /\ \/ Go(h, "drop")
     \/ IF handler[h].reply # "" THEN Go(h, "send") ELSE Go(h, "begin")
  /\ UNCHANGED <<event, receipt, reports, begun, sends, told>>

\* An account is disabled and enabled at any time.
FindDecider(h) ==
  /\ handler[h].pc = "start"
  /\ \/ Go(h, "drop")
     \/ IF handler[h].reply # "" THEN Go(h, "send")
        ELSE IF handler[h].mode = "generating" THEN Say(h, "fallback", "fact")
        ELSE Go(h, "begin")
  /\ UNCHANGED <<event, receipt, reports, begun, sends, told>>

BeginDecision(h) ==
  LET e == handler[h].event IN
  /\ handler[h].pc = "begin"
  /\ IF StillClaimed(h) /\ event[e].reply = ""
     THEN /\ event' = [event EXCEPT ![e].mode = "generating"]
          /\ begun' = [begun EXCEPT ![e] = @ + 1]
          /\ Go(h, "decide")
     ELSE Go(h, "retry") /\ UNCHANGED <<event, begun>>
  /\ UNCHANGED <<receipt, reports, sends, told>>

Decide(h) ==
  /\ handler[h].pc = "decide"
  /\ \/ Say(h, "handled", "text")
     \/ Say(h, "fallback", "fact")   \* no usable answer, or silence about a required event
     \/ ~handler[h].required /\ Go(h, "skip")
  /\ UNCHANGED <<event, receipt, reports, begun, sends, told>>

\* Mistake: the policy is the one read when the event was claimed.
FinalizeSkipAsClaimed(h) ==
  LET e == handler[h].event IN
  /\ handler[h].pc = "skip"
  /\ IF StillClaimed(h)
     THEN /\ event' = [event EXCEPT ![e].status = "done", ![e].outcome = "skipped",
                                    ![e].reply = "text", ![e].mode = "skipped",
                                    ![e].claim = 0, ![e].stale = FALSE]
          /\ Release(h)
     ELSE Say(h, "fallback", "fact") /\ UNCHANGED event
  /\ UNCHANGED <<receipt, reports, begun, sends, told>>

FinalizeSkip(h) ==
  LET e == handler[h].event IN
  /\ handler[h].pc = "skip"
  /\ IF StillClaimed(h) /\ ~event[e].required
     THEN /\ event' = [event EXCEPT ![e].status = "done", ![e].outcome = "skipped",
                                    ![e].reply = "text", ![e].mode = "skipped",
                                    ![e].claim = 0, ![e].stale = FALSE]
          /\ Release(h)
     ELSE Say(h, "fallback", "fact") /\ UNCHANGED event
  /\ UNCHANGED <<receipt, reports, begun, sends, told>>

PrepareDelivery(h) ==
  LET e == handler[h].event IN
  /\ handler[h].pc = "prepare"
  /\ IF StillClaimed(h)
     THEN /\ event' = [event EXCEPT ![e].mode = handler[h].mode, ![e].reply = handler[h].reply]
          /\ Go(h, "send")
     ELSE Go(h, "retry") /\ UNCHANGED event
  /\ UNCHANGED <<receipt, reports, begun, sends, told>>

\* Mistake: a receipt whose sending is not known to have succeeded is used again.
BeginSendAgain(h) ==
  LET e == handler[h].event IN
  /\ handler[h].pc = "send"
  /\ IF receipt[e] = "delivered" THEN Go(h, "settle") /\ UNCHANGED receipt
     ELSE receipt' = [receipt EXCEPT ![e] = "started"] /\ Go(h, "transmit")
  /\ UNCHANGED <<event, reports, begun, sends, told>>

\* The receipt decides: it is created once, and whoever finds it settles by it.
BeginSend(h) ==
  LET e == handler[h].event IN
  /\ handler[h].pc = "send"
  /\ CASE receipt[e] = "none"      -> /\ receipt' = [receipt EXCEPT ![e] = "started"]
                                      /\ Go(h, "transmit")
       [] receipt[e] = "delivered" -> Go(h, "settle") /\ UNCHANGED receipt
       [] OTHER                    -> Go(h, "settleUnsent") /\ UNCHANGED receipt
  /\ UNCHANGED <<event, reports, begun, sends, told>>

Transmit(h) ==
  LET e == handler[h].event IN
  /\ handler[h].pc = "transmit"
  /\ sends' = [sends EXCEPT ![e] = @ + 1]
  /\ \/ Go(h, "markSent") /\ told' = [told EXCEPT ![e] = TRUE]
     \/ Go(h, "markFailed") /\ UNCHANGED told
  /\ UNCHANGED <<event, receipt, reports, begun>>

\* The mark may be lost; the handler knows what happened all the same.
MarkReceipt(h) ==
  LET e == handler[h].event
      status == IF handler[h].pc = "markSent" THEN "delivered" ELSE "failed"
  IN
  /\ handler[h].pc \in {"markSent", "markFailed"}
  /\ \/ receipt' = [receipt EXCEPT ![e] = IF @ = "started" THEN status ELSE @]
     \/ UNCHANGED receipt
  /\ Go(h, IF handler[h].pc = "markSent" THEN "settle" ELSE "settleUnsent")
  /\ UNCHANGED <<event, reports, begun, sends, told>>

\* Mistake: whatever became of the sending, the event counts as told.
SettledByMode(h) == IF handler[h].pc = "drop" THEN "dropped" ELSE handler[h].mode

SettledAs(h) ==
  CASE handler[h].pc = "drop"         -> "dropped"
    [] handler[h].pc = "settleUnsent" -> "send_failed"
    [] OTHER                          -> handler[h].mode

CompleteEvent(h) ==
  LET e == handler[h].event IN
  /\ handler[h].pc \in {"drop", "settle", "settleUnsent"}
  /\ StillClaimed(h)
  /\ event' = [event EXCEPT ![e].status = "done", ![e].outcome = SettledAs(h),
                            ![e].claim = 0, ![e].stale = FALSE]
  /\ Release(h)
  /\ UNCHANGED <<receipt, reports, begun, sends, told>>

RetryEvent(h) ==
  LET e == handler[h].event IN
  /\ handler[h].pc = "retry"
  /\ StillClaimed(h)
  /\ event' = [event EXCEPT ![e] =
       IF handler[h].attempts >= MaxEventAttempts
       THEN [@ EXCEPT !.status = "failed", !.outcome = "send_failed", !.claim = 0, !.stale = FALSE]
       ELSE [@ EXCEPT !.status = "pending", !.ready = FALSE, !.claim = 0, !.stale = FALSE]]
  /\ Release(h)
  /\ UNCHANGED <<receipt, reports, begun, sends, told>>

BusStops ==
  /\ \E h \in Handlers : handler[h].pc # "free"
  /\ handler' = [h \in Handlers |-> FreeSlot]
  /\ UNCHANGED <<event, receipt, reports, begun, sends, told>>

--------------------------------------------------------------------------------
Handle(h) ==
  \/ FindDecider(h) \/ BeginDecision(h) \/ Decide(h) \/ FinalizeSkip(h) \/ PrepareDelivery(h)
  \/ BeginSend(h) \/ Transmit(h) \/ MarkReceipt(h) \/ CompleteEvent(h) \/ RetryEvent(h)

Consume(e) == Exhaust(e) \/ \E h \in Handlers : Dispatch(h, e)

BusNext ==
  \/ \E f \in Facts :
       \/ \E required \in BOOLEAN : RecordFact(f, required)
       \/ RecordDuplicate(f)
  \/ \E e \in EventIds : WindowCloses(e) \/ Consume(e) \/ BackoffEnds(e) \/ ClaimExpires(e)
  \/ \E h \in Handlers : Handle(h) \/ StepFails(h) \/ AckFails(h)
  \/ BusStops

\* The bus polls, time passes, and every statement returns: Run's ticker, the
\* leases and back-offs of the rows, and the time-outs of every call.
BusFairness ==
  /\ \A e \in EventIds : WF_busVars(Consume(e)) /\ WF_busVars(BackoffEnds(e) \/ ClaimExpires(e))
  /\ \A h \in Handlers : WF_busVars(Handle(h) \/ AckFails(h))

BusSpec == BusInit /\ [][BusNext]_busVars /\ BusFairness

--------------------------------------------------------------------------------
(* Properties *)

BusTypeOK ==
  /\ event \in [EventIds -> [fact : Facts \cup {"none"}, required : BOOLEAN, recent : BOOLEAN,
       status : {"absent", "pending", "processing", "done", "failed"},
       attempts : 0 .. MaxEventAttempts,
       outcome : {"", "handled", "skipped", "fallback", "dropped", "send_failed"},
       mode : {"", "generating", "handled", "fallback", "skipped"}, reply : {"", "text", "fact"},
       claim : Nat, claims : Nat, ready : BOOLEAN, stale : BOOLEAN]]
  /\ receipt \in [EventIds -> {"none", "started", "delivered", "failed"}]

\* A required event never ends in silence, even when the duplicate that made it
\* required arrives while the model is deciding to skip it (FinalizeEventSkip).
RequiredNeverSilenced ==
  \A e \in EventIds : event[e].required /\ event[e].status = "done" => event[e].outcome # "skipped"

\* Whatever stops or repeats, an opened event pays for one model turn at most
\* and gives the channel one message at most: the decision boundary and the
\* receipt are both crossed before the act they stand for.
NothingReplayed == \A e \in EventIds : begun[e] <= 1 /\ sends[e] <= 1

\* An event is recorded as delivered only if the channel confirmed it.
DeliveredMeansTold == \A e \in EventIds : WasDelivered(e) => told[e]

\* What the bus owes to whoever records a fact: it is told when it must be, once at
\* most, and the books say so truly (EnqueueEvent, deliverOnce, FinalizeEventSkip).
BusKeepsFaith == RequiredNeverSilenced /\ NothingReplayed /\ DeliveredMeansTold

\* No event waits or is being handled any more.
BusSettled == \A e \in EventIds : event[e].status \notin {"pending", "processing"}
\* Every recorded event ends: leases of stopped handlers expire, back-offs
\* elapse and the attempts are counted.
EveryEventEnds == <>[]BusSettled
==============================================================================
