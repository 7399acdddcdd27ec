-------------------------------- MODULE WorkerLink --------------------------------
(* The live link of one AI worker: workerhub/hub.go, gateway/httpapi/workerws.go,   *)
(* cmd/nbco-worker/ws.go and the idle loop of worker.go.                             *)
(*                                                                                   *)
(* The database is the only queue; the link merely wakes a waiting worker, stops a   *)
(* cancelled run and tells that the worker is there.  The worker reads one           *)
(* connection at a time and dials again after it; the server keeps the newest one in *)
(* its hub and its handlers end in any order.  A sender takes the connection under   *)
(* the hub's lock and writes to it later; nothing tells it that the write was lost.  *)
EXTENDS Naturals, FiniteSets

CONSTANTS
  Pushers,     \* calls that queue or cancel a run of the worker
  MaxLines,    \* bound on the connections dialled
  MaxQueued,   \* bound on the runs queued
  CancelSlots, \* cancellations the worker buffers
  MaxStops     \* bound on the server's restarts

ASSUME LinkAssumption == {MaxLines, MaxQueued, CancelSlots, MaxStops} \subseteq Nat

VARIABLES
  line,      \* the connections: the server's handler, whether they are up, what is under way
  hub,       \* the connection registered for the worker, 0 for none
  client,    \* the worker: its connection, its two channels and its loop
  runs,      \* the worker's runs in the database
  pusher,    \* what a call has left to send
  heard      \* observed: replaced and announced connections, signals the link lost, restarts

linkVars == <<line, hub, client, runs, pusher, heard>>

Lines == 1..MaxLines
QueuedRuns == 1..MaxQueued
\* A signal names the run it cancels; Wake names none.
Wake == 0
Signals == {Wake} \cup QueuedRuns

HandlerStages == {"none", "accepted", "replacing", "serving", "leaving", "telling", "done"}

NoLine == [handler |-> "none", old |-> 0, up |-> FALSE, carries |-> {}]

NoPush == [at |-> "idle", signal |-> Wake, to |-> 0]

LinkTypeOK ==
  /\ line \in [Lines -> [handler : HandlerStages, old : 0..MaxLines, up : BOOLEAN,
                         carries : SUBSET Signals]]
  /\ hub \in 0..MaxLines
  /\ client \in [reads : 0..MaxLines, wake : BOOLEAN, cancels : SUBSET QueuedRuns,
                 loop : {"asking", "told", "waiting", "held", "working"},
                 run : 0..MaxQueued, killed : BOOLEAN]
  /\ runs \in [QueuedRuns -> {"absent", "queued", "claimed", "cancelled", "ended"}]
  /\ pusher \in [Pushers -> [at : {"idle", "committed", "taken"}, signal : Signals, to : 0..MaxLines]]
  /\ heard \in [latest : 0..MaxLines, replaced : SUBSET Lines, announced : SUBSET Lines,
                lost : SUBSET Signals, stops : 0..MaxStops]

LinkInit ==
  /\ line = [n \in Lines |-> NoLine]
  /\ hub = 0
  /\ client = [reads |-> 0, wake |-> FALSE, cancels |-> {}, loop |-> "asking", run |-> 0, killed |-> FALSE]
  /\ runs = [r \in QueuedRuns |-> "absent"]
  /\ pusher = [p \in Pushers |-> NoPush]
  /\ heard = [latest |-> 0, replaced |-> {}, announced |-> {}, lost |-> {}, stops |-> 0]

HeldRun(r) == runs[r] \in {"queued", "claimed"}

--------------------------------------------------------------------------------
(* The hub and the handlers of the server.                                          *)

\* Attach: the new connection takes the place of the old one.
AttachLine(n) ==
  /\ line[n].handler = "accepted"
  /\ line' = [line EXCEPT ![n].handler = IF hub # 0 THEN "replacing" ELSE "serving",
                          ![n].old = hub]
  /\ hub' = n
  /\ heard' = [heard EXCEPT !.latest = n, !.replaced = @ \cup ({hub} \ {0})]
  /\ UNCHANGED <<client, runs, pusher>>

\* What a broken connection carried is lost.
Broken(lines, n) == [lines EXCEPT ![n].up = FALSE, ![n].carries = {}]

LostWith(n) == heard.lost \cup line[n].carries

\* The replaced connection is closed outside the hub's lock.
CloseReplaced(n) ==
  /\ line[n].handler = "replacing"
  /\ line' = Broken([line EXCEPT ![n].handler = "serving", ![n].old = 0], line[n].old)
  /\ heard' = [heard EXCEPT !.lost = LostWith(line[n].old)]
  /\ UNCHANGED <<hub, client, runs, pusher>>

\* The read fails: the link is down, or was closed.
ReadFails(n) ==
  /\ line[n].handler = "serving"
  /\ ~line[n].up
  /\ line' = [line EXCEPT ![n].handler = "leaving"]
  /\ UNCHANGED <<hub, client, runs, pusher, heard>>

\* Mistake: whatever is registered is removed.
Removes(n) == hub # 0

\* Detach removes only the connection that is still the registered one.
IsCurrent(n) == hub = n

\* Detach and CloseNow; only the connection removed here goes on to tell.
DetachLine(n) ==
  /\ line[n].handler = "leaving"
  /\ line' = [line EXCEPT ![n].handler = IF IsCurrent(n) THEN "telling" ELSE "done"]
  /\ hub' = IF IsCurrent(n) THEN 0 ELSE hub
  /\ UNCHANGED <<client, runs, pusher, heard>>

\* notifyWorkerOffline: the owner is told when the worker still holds tasks.
TellOffline(n) ==
  /\ line[n].handler = "telling"
  /\ line' = [line EXCEPT ![n].handler = "done"]
  /\ heard' = IF \E r \in QueuedRuns : HeldRun(r)
              THEN [heard EXCEPT !.announced = @ \cup {n}] ELSE heard
  /\ UNCHANGED <<hub, client, runs, pusher>>

\* The server restarts: hub, handlers and senders are gone, the database stays.
ServerStops ==
  /\ heard.stops < MaxStops
  /\ line' = [n \in Lines |->
                IF line[n].handler = "none" THEN NoLine ELSE [NoLine EXCEPT !.handler = "done"]]
  /\ hub' = 0
  /\ pusher' = [p \in Pushers |-> NoPush]
  /\ heard' = [heard EXCEPT !.latest = 0, !.stops = heard.stops + 1,
                            !.lost = heard.lost \cup (UNION {line[n].carries : n \in Lines})
                                       \cup {pusher[p].signal : p \in {q \in Pushers : pusher[q].at # "idle"}}]
  /\ UNCHANGED <<client, runs>>

--------------------------------------------------------------------------------
(* The calls that wake the worker or stop its run: the change is committed, then    *)
(* the signal sent.                                                                  *)

\* A task of the worker is created, reassigned, reopened or becomes ready.
QueueWork(p, r) ==
  /\ pusher[p].at = "idle"
  /\ runs[r] = "absent"
  /\ \A q \in QueuedRuns : q < r => runs[q] # "absent"
  /\ runs' = [runs EXCEPT ![r] = "queued"]
  /\ pusher' = [pusher EXCEPT ![p] = [at |-> "committed", signal |-> Wake, to |-> 0]]
  /\ UNCHANGED <<line, hub, client, heard>>

\* A tool ends the active run of a task.
CancelWork(p, r) ==
  /\ pusher[p].at = "idle"
  /\ runs[r] = "claimed"
  /\ runs' = [runs EXCEPT ![r] = "cancelled"]
  /\ pusher' = [pusher EXCEPT ![p] = [at |-> "committed", signal |-> r, to |-> 0]]
  /\ UNCHANGED <<line, hub, client, heard>>

\* send: the connection is taken under the lock; without one nothing is sent.
TakeLine(p) ==
  /\ pusher[p].at = "committed"
  /\ IF hub = 0
     THEN /\ pusher' = [pusher EXCEPT ![p] = NoPush]
          /\ heard' = [heard EXCEPT !.lost = @ \cup {pusher[p].signal}]
     ELSE /\ pusher' = [pusher EXCEPT ![p].at = "taken", ![p].to = hub]
          /\ UNCHANGED heard
  /\ UNCHANGED <<line, hub, client, runs>>

\* Send: what is written to a link that is down is lost, and nobody is told.
WriteSignal(p) ==
  /\ pusher[p].at = "taken"
  /\ LET n == pusher[p].to IN
       IF line[n].up
       THEN /\ line' = [line EXCEPT ![n].carries = @ \cup {pusher[p].signal}]
            /\ UNCHANGED heard
       ELSE /\ heard' = [heard EXCEPT !.lost = @ \cup {pusher[p].signal}]
            /\ UNCHANGED line
  /\ pusher' = [pusher EXCEPT ![p] = NoPush]
  /\ UNCHANGED <<hub, client, runs>>

--------------------------------------------------------------------------------
(* The worker's side of the link: wsLink.run, session.                              *)

\* A session ended, or none began yet: the next one is dialled.
Dial(n) ==
  /\ client.reads = 0
  /\ line[n].handler = "none"
  /\ \A o \in Lines : o < n => line[o].handler # "none"
  /\ line' = [line EXCEPT ![n] = [NoLine EXCEPT !.handler = "accepted", !.up = TRUE]]
  /\ client' = [client EXCEPT !.reads = n]
  /\ UNCHANGED <<hub, runs, pusher, heard>>

\* The link breaks, a write fails or a side hears nothing for too long.
LinkBreaks(n) ==
  /\ line[n].up
  /\ line' = Broken(line, n)
  /\ heard' = [heard EXCEPT !.lost = LostWith(n)]
  /\ UNCHANGED <<hub, client, runs, pusher>>

\* The worker notices that its connection is down.
SessionEnds ==
  /\ client.reads # 0
  /\ ~line[client.reads].up
  /\ client' = [client EXCEPT !.reads = 0]
  /\ UNCHANGED <<line, hub, runs, pusher, heard>>

\* Mistake: a wake-up is handed over only to a worker that waits.
WakeIfWaiting == client.loop = "waiting"

\* The wake-up is kept in the channel's one place until it is taken.
WakeKept == TRUE

\* session's read loop: wake-ups merge, a cancellation without room is dropped.
ReceiveSignal(s) ==
  /\ client.reads # 0
  /\ s \in line[client.reads].carries
  /\ line' = [line EXCEPT ![client.reads].carries = @ \ {s}]
  /\ IF s = Wake
     THEN /\ client' = [client EXCEPT !.wake = @ \/ WakeKept]
          /\ UNCHANGED heard
     ELSE IF Cardinality(client.cancels) < CancelSlots
          THEN /\ client' = [client EXCEPT !.cancels = @ \cup {s}]
               /\ UNCHANGED heard
          ELSE /\ heard' = [heard EXCEPT !.lost = @ \cup {s}]
               /\ UNCHANGED client
  /\ UNCHANGED <<hub, runs, pusher>>

--------------------------------------------------------------------------------
(* The worker's loop: ask for a run, work on it or wait.                            *)

\* The server answers a request for work: all signals for what it saw are spent.
AskForWork ==
  /\ client.loop = "asking"
  /\ LET ready == {r \in QueuedRuns : runs[r] = "queued"} IN
       IF ready = {}
       THEN client' = [client EXCEPT !.loop = "told"] /\ UNCHANGED runs
       ELSE \E r \in ready :
              /\ client' = [client EXCEPT !.loop = "held", !.run = r, !.killed = FALSE]
              /\ runs' = [runs EXCEPT ![r] = "claimed"]
  /\ heard' = [heard EXCEPT !.lost = @ \ {Wake}]
  /\ UNCHANGED <<line, hub, pusher>>

\* Without work, or after an error, the worker waits.
BeginWait ==
  /\ client.loop = "told"
  /\ client' = [client EXCEPT !.loop = "waiting"]
  /\ UNCHANGED <<line, hub, runs, pusher, heard>>

\* waitForWork: until it is woken or the poll interval has passed.
EndWait ==
  /\ client.loop = "waiting"
  /\ \E woken \in BOOLEAN :
       /\ woken => client.wake
       /\ client' = [client EXCEPT !.loop = "asking", !.wake = @ /\ ~woken]
  /\ UNCHANGED <<line, hub, runs, pusher, heard>>

\* registerRun: from here on a cancellation finds the run.
BeginRun ==
  /\ client.loop = "held"
  /\ client' = [client EXCEPT !.loop = "working"]
  /\ UNCHANGED <<line, hub, runs, pusher, heard>>

\* watchCancel: the run in hand is stopped when it is the one meant.
TakeCancel(r) ==
  /\ r \in client.cancels
  /\ client' = [client EXCEPT !.cancels = @ \ {r},
                              !.killed = @ \/ (client.loop = "working" /\ client.run = r)]
  /\ heard' = IF client.loop = "working" THEN heard ELSE [heard EXCEPT !.lost = @ \cup {r}]
  /\ UNCHANGED <<line, hub, runs, pusher>>

\* The run ends and its result is submitted; a cancelled one is refused.
EndRun ==
  /\ client.loop = "working"
  /\ client' = [client EXCEPT !.loop = "asking", !.run = 0, !.killed = FALSE]
  /\ runs' = [runs EXCEPT ![client.run] = IF @ = "claimed" THEN "ended" ELSE @]
  /\ UNCHANGED <<line, hub, pusher, heard>>

LinkNext ==
  \/ \E n \in Lines : AttachLine(n)
  \/ \E n \in Lines : CloseReplaced(n)
  \/ \E n \in Lines : ReadFails(n)
  \/ \E n \in Lines : DetachLine(n)
  \/ \E n \in Lines : TellOffline(n)
  \/ ServerStops
  \/ \E p \in Pushers, r \in QueuedRuns : QueueWork(p, r)
  \/ \E p \in Pushers, r \in QueuedRuns : CancelWork(p, r)
  \/ \E p \in Pushers : TakeLine(p)
  \/ \E p \in Pushers : WriteSignal(p)
  \/ \E n \in Lines : Dial(n)
  \/ \E n \in Lines : LinkBreaks(n)
  \/ SessionEnds
  \/ \E s \in Signals : ReceiveSignal(s)
  \/ AskForWork
  \/ BeginWait
  \/ EndWait
  \/ BeginRun
  \/ \E r \in QueuedRuns : TakeCancel(r)
  \/ EndRun

LinkSpec == LinkInit /\ [][LinkNext]_linkVars

--------------------------------------------------------------------------------
(* Properties.                                                                       *)

\* The hub knows the newest connection until its own handler leaves, whatever the
\* handlers of older ones do meanwhile, and never one whose handler has left.
HubKnowsTheNewest ==
  IF heard.latest = 0 \/ line[heard.latest].handler \in {"telling", "done"}
  THEN hub = 0 ELSE hub = heard.latest

\* A connection that was replaced ends without telling that the worker is gone.
OnlyTheLastTells == heard.announced \cap heard.replaced = {}

UnderWay(s) ==
  \/ \E p \in Pushers : pusher[p].at # "idle" /\ pusher[p].signal = s
  \/ \E n \in Lines : s \in line[n].carries

\* A worker does not wait beside queued work unless the link lost the wake-up: it
\* came too late for the answer "nothing to do" but in time for the wait.
NoWakeUpMissed ==
  client.loop = "waiting" /\ (\E r \in QueuedRuns : runs[r] = "queued")
    => client.wake \/ Wake \in heard.lost \/ UnderWay(Wake)

\* Nor does it work on a cancelled run unless the link, or the full channel, lost
\* the cancellation or it came before the run was registered; and none stops another run.
NoCancelMissed ==
  client.loop = "working"
    => /\ runs[client.run] = "cancelled"
            => client.killed \/ client.run \in client.cancels \cup heard.lost \/ UnderWay(client.run)
       /\ client.killed => runs[client.run] = "cancelled"

\* The link does what it is there for, however its connections come and go.
LinkIsTrue == LinkTypeOK /\ HubKnowsTheNewest /\ OnlyTheLastTells /\ NoWakeUpMissed /\ NoCancelMissed
================================================================================
