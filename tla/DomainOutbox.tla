---------------------------- MODULE DomainOutbox ----------------------------
(***************************************************************************)
(* The outbox of domain events and its Telegram consumer: a bot's          *)
(* membership of a group, the greeting that an activation owes the group,  *)
(* and the gateways that lease the event and deliver it part by part.      *)
(*                                                                         *)
(* There is one group.  An occurrence is the id of the Telegram update     *)
(* that activated the membership; its event is written by the transaction  *)
(* that records the membership.  A greeting fits in one part.              *)
(***************************************************************************)
EXTENDS Integers, FiniteSets

CONSTANTS
  MaxUpdate,         \* bound: my_chat_member updates of the group
  ActiveUpdates,     \* those that say the bot is a member
  MaxApplications,   \* bound: times the updates are applied, repetitions included
  MaxOutboxAttempts, \* domainOutboxMaxAttempts
  Gateways           \* processes that drain the outbox

Updates == 1 .. MaxUpdate

ASSUME OutboxAssumption ==
  /\ MaxUpdate \in Nat
  /\ ActiveUpdates \subseteq Updates
  /\ MaxApplications \in Nat
  /\ MaxOutboxAttempts \in Nat \ {0}

VARIABLES
  group,     \* kv_state of the group: its record, membership marker and listen switch
  applied,   \* updates that took effect, and how often any was applied
  outbox,    \* domain_outbox_events, by update
  part,      \* telegram_delivery_parts, by update
  courier,   \* by gateway: the event its drain loop is delivering
  greeted    \* by update: greetings given to Telegram, and those it confirmed

outboxVars == <<group, applied, outbox, part, courier, greeted>>

BlankOutbox == [status |-> "absent", attempts |-> 0, claim |-> 0, ready |-> FALSE, stale |-> FALSE]
IdleCourier == [pc |-> "idle", event |-> 0, claim |-> 0]

OutboxInit ==
  /\ group = [found |-> FALSE, member |-> FALSE, last |-> 0, marker |-> "none",
              listen |-> "none", listenView |-> FALSE]
  /\ applied = [effective |-> {}, times |-> 0]
  /\ outbox = [u \in Updates |-> BlankOutbox]
  /\ part = [u \in Updates |-> "none"]
  /\ courier = [g \in Gateways |-> IdleCourier]
  /\ greeted = [u \in Updates |-> [sent |-> 0, confirmed |-> FALSE]]

--------------------------------------------------------------------------------
(* The group's records *)

\* An ordinary message of the group is seen; what it shows never overrides a
\* recorded membership.
ObserveGroup ==
  /\ group' = [group EXCEPT !.found = TRUE, !.member = IF group.found THEN @ ELSE TRUE,
                            !.listenView = IF group.listen = "none" THEN @ ELSE group.listen = "on"]
  /\ UNCHANGED <<applied, outbox, part, courier, greeted>>

SetListen(on) ==
  /\ group.found
  /\ group' = [group EXCEPT !.listen = IF on THEN "on" ELSE "off", !.listenView = on]
  /\ UNCHANGED <<applied, outbox, part, courier, greeted>>

WasMember == IF group.marker = "none" THEN group.found /\ group.member ELSE group.marker = "on"

\* Mistake: whatever update arrives last wins.
NeverOutdated(u) == FALSE

\* An update older than the recorded one changes nothing.
Outdated(u) == group.found /\ group.last > u

\* The membership and the event it owes are one transaction.  Updates arrive in
\* any order and more than once.
ApplyMembership(u) ==
  LET active == u \in ActiveUpdates
      became == active /\ ~WasMember
      listening == active /\ (became \/ IF group.listen = "none" THEN group.listenView
                                        ELSE group.listen = "on")
  IN
  /\ applied.times < MaxApplications
  /\ IF Outdated(u)
     THEN /\ applied' = [applied EXCEPT !.times = @ + 1]
          /\ UNCHANGED <<group, outbox>>
     ELSE /\ group' = [found |-> TRUE, member |-> active, last |-> u,
                       marker |-> IF active THEN "on" ELSE "off",
                       listen |-> IF listening THEN "on" ELSE "off", listenView |-> listening]
          /\ applied' = [effective |-> applied.effective \cup {u}, times |-> applied.times + 1]
          /\ outbox' = IF became /\ outbox[u].status = "absent"
                       THEN [outbox EXCEPT ![u].status = "pending", ![u].ready = TRUE]
                       ELSE outbox
  /\ UNCHANGED <<part, courier, greeted>>

--------------------------------------------------------------------------------
(* Leases *)

OutboxDue(u) ==
  \/ outbox[u].status = "pending" /\ outbox[u].ready
  \/ outbox[u].status = "processing" /\ outbox[u].stale

\* Mistake: an event interrupted in its last attempt is left as it is.
ExhaustInTime(u) ==
  /\ outbox[u].status = "pending" /\ outbox[u].ready
  /\ outbox[u].attempts >= MaxOutboxAttempts
  /\ outbox' = [outbox EXCEPT ![u].status = "failed"]
  /\ UNCHANGED <<group, applied, part, courier, greeted>>

\* The first statement of a claim: attempts that are used up end the event.
ExhaustOutbox(u) ==
  /\ OutboxDue(u)
  /\ outbox[u].attempts >= MaxOutboxAttempts
  /\ outbox' = [outbox EXCEPT ![u].status = "failed", ![u].stale = FALSE]
  /\ UNCHANGED <<group, applied, part, courier, greeted>>

\* A claim is named by the attempt it starts: owner and claimed_at in one.
ClaimOutbox(g, u) ==
  /\ courier[g].pc = "idle"
  /\ OutboxDue(u)
  /\ outbox[u].attempts < MaxOutboxAttempts
  /\ outbox' = [outbox EXCEPT ![u].status = "processing", ![u].attempts = @ + 1,
                              ![u].claim = outbox[u].attempts + 1, ![u].stale = FALSE]
  /\ courier' = [courier EXCEPT ![g] = [pc |-> "begin", event |-> u, claim |-> outbox[u].attempts + 1]]
  /\ UNCHANGED <<group, applied, part, greeted>>

OutboxWaits(u) ==
  /\ outbox[u].status = "pending"
  /\ ~outbox[u].ready
  /\ outbox' = [outbox EXCEPT ![u].ready = TRUE]
  /\ UNCHANGED <<group, applied, part, courier, greeted>>

OutboxLeaseEnds(u) ==
  /\ outbox[u].status = "processing"
  /\ ~outbox[u].stale
  /\ outbox' = [outbox EXCEPT ![u].stale = TRUE]
  /\ UNCHANGED <<group, applied, part, courier, greeted>>

--------------------------------------------------------------------------------
(* Delivery: deliverTelegramPartOnce inside deliverTelegramDomainOutboxEvent *)

CourierGoes(g, pc) == courier' = [courier EXCEPT ![g].pc = pc]

\* Mistake: a part that is not known to be delivered is sent again.
BeginPartAgain(g) ==
  LET u == courier[g].event IN
  /\ courier[g].pc = "begin"
  /\ \/ part[u] # "delivered" /\ part' = [part EXCEPT ![u] = "started"] /\ CourierGoes(g, "transmit")
     \/ part[u] = "delivered" /\ CourierGoes(g, "complete") /\ UNCHANGED part
  /\ UNCHANGED <<group, applied, outbox, greeted>>

\* Crossing the boundary of the part.  Finding one that someone began and did
\* not finish is an error, like a statement that fails.
BeginPart(g) ==
  LET u == courier[g].event IN
  /\ courier[g].pc = "begin"
  /\ \/ part[u] = "none" /\ part' = [part EXCEPT ![u] = "started"] /\ CourierGoes(g, "transmit")
     \/ part[u] = "delivered" /\ CourierGoes(g, "complete") /\ UNCHANGED part
     \/ CourierGoes(g, "giveBack") /\ UNCHANGED part
  /\ UNCHANGED <<group, applied, outbox, greeted>>

TransmitPart(g) ==
  LET u == courier[g].event IN
  /\ courier[g].pc = "transmit"
  /\ \/ /\ greeted' = [greeted EXCEPT ![u] = [sent |-> @.sent + 1, confirmed |-> TRUE]]
        /\ CourierGoes(g, "markSent")
     \/ /\ greeted' = [greeted EXCEPT ![u].sent = @ + 1]
        /\ CourierGoes(g, "markFailed")
  /\ UNCHANGED <<group, applied, outbox, part>>

\* A mark that cannot be written makes the delivery an error, sent or not.
MarkPart(g) ==
  LET u == courier[g].event IN
  /\ courier[g].pc \in {"markSent", "markFailed"}
  /\ part[u] = "started"
  /\ \/ part' = [part EXCEPT ![u] = IF courier[g].pc = "markSent" THEN "delivered" ELSE "failed"]
     \/ UNCHANGED part
  /\ CourierGoes(g, IF courier[g].pc = "markSent" /\ part'[u] = "delivered"
                    THEN "complete" ELSE "giveBack")
  /\ UNCHANGED <<group, applied, outbox, greeted>>

HoldsLease(g) ==
  LET u == courier[g].event IN
  outbox[u].status = "processing" /\ outbox[u].claim = courier[g].claim

\* Mistake: what was given back is counted as delivered.
SettleAsDone(g) ==
  LET u == courier[g].event IN
  /\ courier[g].pc \in {"complete", "giveBack"}
  /\ \/ /\ HoldsLease(g)
        /\ outbox' = [outbox EXCEPT ![u].status = "done", ![u].ready = FALSE, ![u].stale = FALSE]
     \/ UNCHANGED outbox
  /\ courier' = [courier EXCEPT ![g] = IdleCourier]
  /\ UNCHANGED <<group, applied, part, greeted>>

\* CompleteDomainOutboxEvent and RetryDomainOutboxEvent; the event is left as
\* it is when the lease is gone or the statement fails.
SettleOutbox(g) ==
  LET u == courier[g].event IN
  /\ courier[g].pc \in {"complete", "giveBack"}
  /\ \/ /\ HoldsLease(g)
        /\ outbox' = [outbox EXCEPT ![u].status = IF courier[g].pc = "complete" THEN "done" ELSE "pending",
                                    ![u].ready = FALSE, ![u].stale = FALSE]
     \/ UNCHANGED outbox
  /\ courier' = [courier EXCEPT ![g] = IdleCourier]
  /\ UNCHANGED <<group, applied, part, greeted>>

GatewayStops(g) ==
  /\ courier[g].pc # "idle"
  /\ courier' = [courier EXCEPT ![g] = IdleCourier]
  /\ UNCHANGED <<group, applied, outbox, part, greeted>>

--------------------------------------------------------------------------------
Deliver(g) == BeginPart(g) \/ TransmitPart(g) \/ MarkPart(g) \/ SettleOutbox(g)
TakeUp(u)  == ExhaustOutbox(u) \/ \E g \in Gateways : ClaimOutbox(g, u)

OutboxNext ==
  \/ ObserveGroup
  \/ \E on \in BOOLEAN : SetListen(on)
  \/ \E u \in Updates : ApplyMembership(u) \/ TakeUp(u) \/ OutboxWaits(u) \/ OutboxLeaseEnds(u)
  \/ \E g \in Gateways : Deliver(g) \/ GatewayStops(g)

\* The drain loop polls every five seconds, every call has a time-out, and time
\* passes for leases and waits.
OutboxFairness ==
  /\ \A u \in ActiveUpdates : /\ WF_outboxVars(TakeUp(u))
                              /\ WF_outboxVars(OutboxWaits(u) \/ OutboxLeaseEnds(u))
  /\ \A g \in Gateways : WF_outboxVars(Deliver(g))

OutboxSpec == OutboxInit /\ [][OutboxNext]_outboxVars /\ OutboxFairness

--------------------------------------------------------------------------------
(* Properties *)

\* Whatever order the updates come in, the records say what the newest applied
\* one said, and the listen switch and its copy in the group's record agree.
GroupFollowsNewest ==
  /\ group.last > 0 =>
       /\ \A u \in applied.effective : u <= group.last
       /\ group.member = (group.last \in ActiveUpdates)
       /\ group.marker = IF group.last \in ActiveUpdates THEN "on" ELSE "off"
  /\ group.listen # "none" => group.listenView = (group.listen = "on")

\* Two activations that each owe a greeting have a departure between them.
GreetingsNeedDepartures ==
  \A u, v \in Updates :
    u < v /\ outbox[u].status # "absent" /\ outbox[v].status # "absent"
      => \E w \in applied.effective \ ActiveUpdates : u < w /\ w < v

\* However many gateways take up an event, and wherever they stop, a greeting
\* goes out at most once, and an event counts as done only if it did.
GreetedOnce ==
  \A u \in Updates : /\ greeted[u].sent <= 1
                     /\ outbox[u].status = "done" => greeted[u].confirmed

\* The membership records and what is said because of them: the newest update wins,
\* each arrival is greeted once, and only an arrival is
\* (ApplyTelegramBotMembershipUpdate, deliverTelegramPartOnce).
MembershipHolds == GroupFollowsNewest /\ GreetingsNeedDepartures /\ GreetedOnce

\* No event of the outbox waits or is being handled.
OutboxSettled == \A u \in Updates : outbox[u].status \notin {"pending", "processing"}
\* Every event ends: what a stopped or slow gateway holds is taken up again
\* until it is done or its attempts are used up.
OutboxEventEnds == <>[]OutboxSettled
==============================================================================
