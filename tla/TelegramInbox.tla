---------------------------- MODULE TelegramInbox ----------------------------
(***************************************************************************)
(* The Telegram inbox: an update is stored before it is acknowledged,      *)
(* leased by the gateway, merged with its neighbours where a burst of text *)
(* or an album calls for it, and answered in its conversation's turn.      *)
(*                                                                         *)
(* One gateway and one conversation.  The goroutines of a conversation     *)
(* wait for each other in a chain, so they are a line whose head alone may *)
(* run.  A row that is settled is never read again and keeps its status    *)
(* only.                                                                   *)
(***************************************************************************)
EXTENDS Integers, FiniteSets, Sequences, SequencesExt

CONSTANTS
  MaxInbound,         \* bound: updates that arrive
  InboundKinds,       \* what they are: texts of two senders, album parts, single
                      \* messages, and updates handled without a turn
  MaxInFlight,        \* telegramInboundMaxInFlight
  MaxInboundAttempts  \* telegramInboundMaxAttempts

Inbound == 1 .. MaxInbound
TextKinds == {"textA", "textB"}

ASSUME InboxAssumption ==
  /\ MaxInbound \in Nat
  /\ InboundKinds \subseteq TextKinds \cup {"album", "single", "sync"}
  /\ MaxInFlight \in Nat \ {0}
  /\ MaxInboundAttempts \in Nat \ {0}

VARIABLES
  inbound,   \* telegram_inbound_updates
  claimed,   \* Gateway.inboundClaims
  order,     \* history: the updates that were routed and not finished, as they were routed
  burst,     \* Gateway.pending of the conversation: texts that are not queued yet
  line,      \* its chain of goroutines: updates, and whether an album still grows
  running    \* the head of the line is processing

inboxVars == <<inbound, claimed, order, burst, line, running>>

BlankInbound == [status |-> "absent", kind |-> "none", attempts |-> 0, ready |-> FALSE, stale |-> FALSE]

InboxInit ==
  /\ inbound = [u \in Inbound |-> BlankInbound]
  /\ claimed = {}
  /\ order = <<>>
  /\ burst = <<>>
  /\ line = <<>>
  /\ running = FALSE

Item(updates, open) == [updates |-> updates, open |-> open]
Settled(status)      == [BlankInbound EXCEPT !.status = status]

\* Webhook or long poll: repeated deliveries of an update add nothing.
StoreUpdate(kind) ==
  \E u \in Inbound :
    /\ inbound[u].status = "absent"
    /\ \A v \in 1 .. u - 1 : inbound[v].status # "absent"
    /\ inbound' = [inbound EXCEPT ![u] = [BlankInbound EXCEPT !.status = "pending", !.kind = kind,
                                                              !.ready = TRUE]]
    /\ UNCHANGED <<claimed, order, burst, line, running>>

--------------------------------------------------------------------------------
(* Leases *)

InboundDue(u) ==
  \/ inbound[u].status = "pending" /\ inbound[u].ready
  \/ inbound[u].status = "processing" /\ inbound[u].stale

\* Mistake: an update interrupted in its last attempt is left as it is.
ExhaustWaitingUpdate(u) ==
  /\ inbound[u].status = "pending" /\ inbound[u].ready
  /\ inbound[u].attempts >= MaxInboundAttempts
  /\ inbound' = [inbound EXCEPT ![u] = Settled("failed")]
  /\ UNCHANGED <<claimed, order, burst, line, running>>

ExhaustInbound(u) ==
  /\ InboundDue(u)
  /\ inbound[u].attempts >= MaxInboundAttempts
  /\ inbound' = [inbound EXCEPT ![u] = Settled("failed")]
  /\ UNCHANGED <<claimed, order, burst, line, running>>

InboundWaits(u) ==
  /\ inbound[u].status = "pending"
  /\ ~inbound[u].ready
  /\ inbound' = [inbound EXCEPT ![u].ready = TRUE]
  /\ UNCHANGED <<claimed, order, burst, line, running>>

\* The lease of an update in flight is renewed by the heartbeat, unless the
\* database was out of reach for as long as the lease.
InboundLeaseEnds(u) ==
  /\ inbound[u].status = "processing"
  /\ ~inbound[u].stale
  /\ inbound' = [inbound EXCEPT ![u].stale = TRUE]
  /\ UNCHANGED <<claimed, order, burst, line, running>>

--------------------------------------------------------------------------------
(* Routing *)

\* The line after the collecting album is closed, and after a waiting burst of
\* text has joined it: under Gateway.mu, in the step that needs it.
AlbumClosed(l) == [i \in DOMAIN l |-> [l[i] EXCEPT !.open = FALSE]]
BurstQueued(l) == IF burst = <<>> THEN l ELSE Append(l, Item(burst, FALSE))
Collecting     == line # <<>> /\ Last(line).open

SameSender(u, kind) == inbound[u].kind = kind

\* A message that a repeated claim brings back to what still collects it.
Repeated(u) == u \in ToSet(burst) \/ (Collecting /\ u \in ToSet(Last(line).updates))

\* A text extends the waiting burst of its sender; another sender's is queued.
RouteText(u, kind) ==
  IF burst # <<>> /\ SameSender(burst[1], kind)
  THEN burst' = Append(burst, u) /\ line' = AlbumClosed(line)
  ELSE burst' = <<u>> /\ line' = BurstQueued(AlbumClosed(line))

\* Mistake: a burst of text stays behind when an album begins.
RouteAlbumPastBurst(u) ==
  /\ UNCHANGED burst
  /\ line' = IF Collecting THEN [line EXCEPT ![Len(line)].updates = Append(@, u)]
             ELSE Append(line, Item(<<u>>, TRUE))

\* A part of an album joins the album that is collecting; the first one takes
\* the album's place in the line.
RouteAlbum(u) ==
  /\ burst' = <<>>
  /\ line' = IF Collecting THEN [line EXCEPT ![Len(line)].updates = Append(@, u)]
             ELSE Append(BurstQueued(line), Item(<<u>>, TRUE))

RouteSingle(u) ==
  /\ burst' = <<>>
  /\ line' = Append(AlbumClosed(BurstQueued(line)), Item(<<u>>, FALSE))

\* Claiming and routing one update.  The statement that claims a batch promises
\* no order within it.  An update in flight whose lease ran out is routed again.
TakeInbound(u) ==
  LET kind == inbound[u].kind
      row  == [inbound[u] EXCEPT !.status = "processing", !.stale = FALSE, !.attempts = @ + 1]
  IN
  /\ InboundDue(u)
  /\ inbound[u].attempts < MaxInboundAttempts
  /\ Cardinality(claimed) < MaxInFlight
  /\ IF kind = "sync"
     THEN \* handled at once: acknowledged, given back, or left to its lease
          /\ \E status \in {"done", "pending", "processing"} :
               inbound' = [inbound EXCEPT ![u] = 
               IF status = "done" THEN Settled("done") ELSE [row EXCEPT !.status = status, !.ready = FALSE]]
          /\ claimed' = claimed \ {u}
          /\ UNCHANGED <<order, burst, line>>
     ELSE /\ inbound' = [inbound EXCEPT ![u] = row]
          /\ claimed' = claimed \cup {u}
          /\ order' = IF Repeated(u) THEN order ELSE Append(order, u)
          /\ IF Repeated(u) THEN UNCHANGED <<burst, line>>
             ELSE \/ kind \in TextKinds /\ RouteText(u, kind)
                  \/ kind = "album" /\ RouteAlbum(u)
                  \/ kind = "single" /\ RouteSingle(u)
  /\ UNCHANGED running

BurstTimer ==
  /\ burst # <<>>
  /\ line' = BurstQueued(line)
  /\ burst' = <<>>
  /\ UNCHANGED <<inbound, claimed, order, running>>

AlbumTimer ==
  /\ Collecting
  /\ line' = AlbumClosed(line)
  /\ UNCHANGED <<inbound, claimed, order, burst, running>>

--------------------------------------------------------------------------------
(* Processing *)

StartItem ==
  /\ line # <<>>
  /\ ~running
  /\ ~Head(line).open
  /\ running' = TRUE
  /\ UNCHANGED <<inbound, claimed, order, burst, line>>

\* Mistake: only the first update of a merged message is settled and released.
FinishFirst(processed) ==
  LET updates == {Head(line).updates[1]} IN
  /\ running
  /\ running' = FALSE
  /\ line' = Tail(line)
  /\ \/ inbound' = [u \in Inbound |->
          IF u \in updates /\ inbound[u].status = "processing"
          THEN IF processed THEN Settled("done")
               ELSE [inbound[u] EXCEPT !.status = "pending", !.ready = FALSE, !.stale = FALSE]
          ELSE inbound[u]]
     \/ UNCHANGED inbound
  /\ claimed' = claimed \ updates
  /\ order' = FoldSeq(LAMBDA u, rest : RemoveFirst(rest, u), order, Head(line).updates)
  /\ UNCHANGED burst

\* finishQueuedMessage: the rows are acknowledged or given back, by a statement
\* that may fail, and their slots are free either way.
FinishItem(processed) ==
  LET updates == ToSet(Head(line).updates) IN
  /\ running
  /\ running' = FALSE
  /\ line' = Tail(line)
  /\ \/ inbound' = [u \in Inbound |->
          IF u \in updates /\ inbound[u].status = "processing"
          THEN IF processed THEN Settled("done")
               ELSE [inbound[u] EXCEPT !.status = "pending", !.ready = FALSE, !.stale = FALSE]
          ELSE inbound[u]]
     \/ UNCHANGED inbound
  /\ claimed' = claimed \ updates
  /\ order' = FoldSeq(LAMBDA u, rest : RemoveFirst(rest, u), order, Head(line).updates)
  /\ UNCHANGED burst

InboxStops ==
  /\ claimed # {} \/ line # <<>> \/ burst # <<>>
  /\ claimed' = {}
  /\ burst' = <<>>
  /\ line' = <<>>
  /\ running' = FALSE
  /\ order' = <<>>
  /\ UNCHANGED inbound

--------------------------------------------------------------------------------
Drain(u) == ExhaustInbound(u) \/ TakeInbound(u)
Process  == StartItem \/ \E processed \in BOOLEAN : FinishItem(processed)

InboxNext ==
  \/ \E kind \in InboundKinds : StoreUpdate(kind)
  \/ \E u \in Inbound : Drain(u) \/ InboundWaits(u) \/ InboundLeaseEnds(u)
  \/ BurstTimer \/ AlbumTimer \/ Process
  \/ InboxStops

\* The loop polls, timers fire, a message has a time-out, and a lease that no
\* heartbeat renews runs out.
InboxFairness ==
  /\ \A u \in Inbound :
       /\ WF_inboxVars(Drain(u))
       /\ WF_inboxVars(InboundWaits(u) \/ (u \notin claimed /\ InboundLeaseEnds(u)))
  /\ WF_inboxVars(BurstTimer) /\ WF_inboxVars(AlbumTimer) /\ WF_inboxVars(Process)

InboxSpec == InboxInit /\ [][InboxNext]_inboxVars /\ InboxFairness

--------------------------------------------------------------------------------
(* Properties *)

\* A conversation is answered in the order in which the gateway took its updates up,
\* bursts and albums included: whatever is in line was routed before what comes after it.
\* This is not the order in which they were stored: a claim takes what is due in any order,
\* and an update that is retried comes after those that were routed meanwhile.
AnsweredInOrder ==
  FlattenSeq([i \in DOMAIN line |-> line[i].updates]) \o burst = order

\* A slot of the inbox is held only by an update that something will finish:
\* no path leaves one behind, which would stop the inbox for good in the end.
SlotsAreOwned ==
  claimed \subseteq ToSet(burst) \cup UNION {ToSet(line[i].updates) : i \in DOMAIN line}

\* What is routed is answered in that order and the inbox can go on, whatever bursts, albums,
\* late claims and failed attempts do to it; a restart begins with an empty line
\* (drainInboundUpdates, flushPendingText, flushPendingMedia, finishQueuedMessage).
ConversationInLine == AnsweredInOrder /\ SlotsAreOwned

\* No stored update waits or is being handled.
InboxSettled == \A u \in Inbound : inbound[u].status \notin {"pending", "processing"}
\* Every stored update is answered or given up: none is lost in a merge, in a
\* stopped process or in a claim nobody renews.
EveryUpdateSettles == <>[]InboxSettled
==============================================================================
