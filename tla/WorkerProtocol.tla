---------------------------- MODULE WorkerProtocol ----------------------------
(***************************************************************************)
(* One nbco-worker process and the HTTP API it polls: how a run is handed  *)
(* over, acknowledged, kept, and finalized, when any request or answer may *)
(* be lost, repeated or late and either process may stop at any moment.    *)
(*                                                                         *)
(* The tables are reduced to what this protocol reads: runs (of one worker *)
(* and one session scope), attempts, and the session row that carries the  *)
(* terminal's continuity from run to run.  Edits of the board show up as   *)
(* CancelRun; TaskBoard has them in full.                                  *)
(*                                                                         *)
(* A handler is as many steps as it has transactions.  A finalization is   *)
(* named by its claim and a number: 1 for the first request the client     *)
(* makes for the claim, 2 for the failure it reports when that one does    *)
(* not go through; repeated sends of one finalization are its tries.       *)
(***************************************************************************)
EXTENDS Integers, FiniteSets

CONSTANTS
  Runs,         \* ids of worker_runs rows
  MaxClaims,    \* bound: claims handed out
  MaxTries,     \* postFinal: sends of one finalization
  MaxFailures,  \* workerMaxFailures
  MaxFaults,    \* bound: lost answers, failed statements, restarts, late time-outs
  NoRun, NoClaim

Claims == 1 .. MaxClaims
Tries  == 1 .. MaxTries
Calls  == Claims \X {1, 2} \X Tries
\* "invalid" is a result that breaks the contract of its run.
Kinds  == {"complete", "invalid", "input", "fail"}

ASSUME ProtocolAssumption ==
  /\ MaxClaims \in Nat
  /\ MaxTries \in Nat \ {0}
  /\ MaxFailures \in Nat \ {0}
  /\ MaxFaults \in Nat
  /\ NoRun \notin Runs
  /\ NoClaim \notin Claims

VARIABLES
  run,       \* worker_runs
  attempt,   \* worker_run_attempts, by claim
  session,   \* worker_sessions: last_run_id, and the claim that wrote last
  effects,   \* by claim: what followed its finalization
  offer,     \* by claim: the handler of GET next that leased it
  call,      \* by finalization and try: its request and handler
  asked,     \* by claim: the kind of its first finalization
  client,    \* the worker process
  faults     \* faults so far

vars == <<run, attempt, session, effects, offer, call, asked, client, faults>>
db   == <<run, attempt, session, effects>>
http == <<offer, call>>

RunStatuses == {"absent", "queued", "claimed", "retry_wait",
                "awaiting_input", "completed", "cancelled"}
Unfinished  == {"queued", "claimed", "retry_wait", "awaiting_input"}

BlankRun     == [status |-> "absent", claim |-> NoClaim, failures |-> 0, attempts |-> 0,
                 ready |-> FALSE, age |-> "fresh"]
BlankAttempt == [status |-> "absent", run |-> NoRun, no |-> 0, acked |-> FALSE, fin |-> 0]
Idle         == [phase |-> "idle", claim |-> NoClaim, fin |-> 0, try |-> 0]

Init ==
  /\ run = [r \in Runs |-> BlankRun]
  /\ attempt = [c \in Claims |-> BlankAttempt]
  /\ session = [run |-> NoRun, by |-> NoClaim]
  /\ effects = [c \in Claims |-> {}]
  /\ offer = [c \in Claims |-> "none"]
  /\ call = [k \in Calls |-> "unsent"]
  /\ asked = [c \in Claims |-> "none"]
  /\ client = Idle
  /\ faults = 0

\* Something goes wrong.
Fault    == faults < MaxFaults /\ faults' = faults + 1
NoFault  == UNCHANGED faults

--------------------------------------------------------------------------------
(* The rows *)

\* Mistake: a finalization is accepted from whoever once held the run.
OnceLeased(c) == attempt[c].run \in Runs

Leased(c) ==
  /\ attempt[c].status = "claimed"
  /\ attempt[c].run \in Runs
  /\ run[attempt[c].run].status = "claimed"
  /\ run[attempt[c].run].claim = c

\* Mistake: the claim stays in the row of a run that ended.
ClaimKept(r, status) == [run[r] EXCEPT !.status = status, !.ready = FALSE, !.age = "fresh"]

\* The row of run r without a lease.
Ended(r, status) ==
  [run[r] EXCEPT !.status = status, !.claim = NoClaim, !.ready = FALSE, !.age = "fresh"]

CreateRun(r) ==
  /\ run[r].status = "absent"
  /\ run' = [run EXCEPT ![r].status = "queued", ![r].ready = TRUE]
  /\ UNCHANGED <<attempt, session, effects, http, asked, client, faults>>

\* The task was edited, the worker revoked, or the direct run cancelled.
CancelRun(r) ==
  /\ run[r].status \in Unfinished
  /\ run' = [run EXCEPT ![r] = Ended(r, "cancelled")]
  /\ attempt' = [c \in Claims |->
                   IF attempt[c].run = r /\ attempt[c].status = "claimed"
                   THEN [attempt[c] EXCEPT !.status = "cancelled"] ELSE attempt[c]]
  /\ UNCHANGED <<session, effects, http, asked, client, faults>>

\* Time passes.  A lease its client keeps renewing ages only by mishap.
LeaseAges(r) ==
  /\ run[r].status = "claimed"
  /\ run[r].age # "stale"
  /\ IF client.claim = run[r].claim THEN Fault ELSE NoFault
  /\ run' = [run EXCEPT ![r].age = IF @ = "fresh" THEN "overdue" ELSE "stale"]
  /\ UNCHANGED <<attempt, session, effects, http, asked, client>>

BackoffElapses(r) ==
  /\ run[r].status = "retry_wait"
  /\ ~run[r].ready
  /\ run' = [run EXCEPT ![r].ready = TRUE]
  /\ UNCHANGED <<attempt, session, effects, http, asked, client, faults>>

--------------------------------------------------------------------------------
(* Handing a run over: handleWorkerNext and Client.Next *)

Held(r) ==
  /\ run[r].status = "claimed"
  /\ \/ run[r].age = "fresh"
     \/ run[r].age = "overdue" /\ attempt[run[r].claim].acked

\* Mistake: an expired lease blocks the queue no longer, but is not taken over.
QueuedOnly(r) ==
  /\ run[r].status \in {"queued", "retry_wait"} /\ run[r].ready
  /\ \A q \in Runs : ~Held(q)

Offerable(r) ==
  /\ \/ run[r].status \in {"queued", "retry_wait"} /\ run[r].ready
     \/ run[r].status = "claimed" /\ ~Held(r)
  /\ \A q \in Runs : ~Held(q)

\* Expired leases come before the queue.
First(r) ==
  run[r].status = "claimed" \/ \A q \in Runs : run[q].status = "claimed" => ~Offerable(q)

Fresh(c) == attempt[c].status = "absent" /\ \A b \in Claims : attempt[b].status = "absent" => c <= b

Poll ==
  /\ client.phase = "idle"
  /\ client' = [Idle EXCEPT !.phase = "polling"]
  /\ UNCHANGED <<db, http, asked, faults>>

\* Nothing to do: 204.
PollEmpty ==
  /\ client.phase = "polling" /\ client.claim = NoClaim
  /\ ~\E r \in Runs : Offerable(r)
  /\ client' = Idle
  /\ UNCHANGED <<db, http, asked, faults>>

\* The client's time-out, or a broken connection; the handler may go on.
GiveUpPoll ==
  /\ client.phase = "polling"
  /\ Fault
  /\ client' = Idle
  /\ UNCHANGED <<db, http, asked>>

\* ClaimNextWorkerRun for the poll the client waits on, or for an earlier poll
\* it gave up on.
ClaimNext(r, c) ==
  /\ Fresh(c) /\ Offerable(r) /\ First(r)
  /\ \/ /\ client.phase = "polling" /\ client.claim = NoClaim
        /\ client' = [client EXCEPT !.claim = c]
        /\ NoFault
     \/ Fault /\ UNCHANGED client
  /\ run' = [run EXCEPT ![r].status = "claimed", ![r].claim = c, ![r].attempts = @ + 1,
                        ![r].ready = FALSE, ![r].age = "fresh"]
  /\ attempt' = [b \in Claims |->
                   IF b = c THEN [status |-> "claimed", run |-> r, no |-> run[r].attempts + 1,
                                  acked |-> FALSE, fin |-> 0]
                   ELSE IF b = run[r].claim THEN [attempt[b] EXCEPT !.status = "expired"]
                   ELSE attempt[b]]
  /\ offer' = [offer EXCEPT ![c] = "claimed"]
  /\ UNCHANGED <<session, effects, call, asked>>

\* ClaimWorkerSession, a statement of its own after the lease was committed.
OpenSession(c) ==
  /\ offer[c] = "claimed"
  /\ offer' = [offer EXCEPT ![c] = "opened"]
  /\ session' = [session EXCEPT !.run = attempt[c].run]
  /\ UNCHANGED <<run, attempt, effects, call, asked, client, faults>>

Awaited(c) == client.phase = "polling" /\ client.claim = c

\* The answer is written; whoever no longer waits does not get it.
Deliver(c) ==
  /\ offer[c] = "opened"
  /\ offer' = [offer EXCEPT ![c] = "none"]
  /\ client' = IF Awaited(c) THEN [client EXCEPT !.phase = "acking"] ELSE client
  /\ UNCHANGED <<db, call, asked, faults>>

\* ReleaseWorkerRunClaim, from the handler's deferred function: the client is
\* gone, or a step of the handler failed.  The release may fail as well.
Release(c) ==
  /\ offer[c] # "none"
  /\ offer' = [offer EXCEPT ![c] = "none"]
  /\ \/ /\ IF Awaited(c) THEN Fault ELSE NoFault
        /\ IF Leased(c)
           THEN LET r == attempt[c].run
                IN /\ run' = [run EXCEPT ![r] = [Ended(r, "queued") EXCEPT !.ready = TRUE]]
                   /\ attempt' = [attempt EXCEPT ![c].status = "released"]
           ELSE UNCHANGED <<run, attempt>>
     \/ Fault /\ UNCHANGED <<run, attempt>>
  /\ client' = IF Awaited(c) THEN Idle ELSE client
  /\ UNCHANGED <<session, effects, call, asked>>

--------------------------------------------------------------------------------
(* Keeping the lease: acknowledgeRun, keepRunLease, persistNativeSession *)

Renewed(c) ==
  /\ run' = [run EXCEPT ![attempt[c].run].age = "fresh"]
  /\ attempt' = [attempt EXCEPT ![c].acked = TRUE]

\* The first heartbeat, repeated until it is answered; 409 drops the run.
Acknowledge(c) ==
  /\ client.phase = "acking" /\ client.claim = c
  /\ \/ /\ Leased(c) /\ Renewed(c)
        /\ \/ client' = [client EXCEPT !.phase = "working"] /\ NoFault
           \/ Fault /\ UNCHANGED client
     \/ ~Leased(c) /\ client' = Idle /\ UNCHANGED <<run, attempt, faults>>
  /\ UNCHANGED <<session, effects, http, asked>>

Heartbeat(c) ==
  /\ client.phase \in {"working", "ending"} /\ client.claim = c
  /\ Leased(c) /\ run[attempt[c].run].age # "fresh"
  /\ Renewed(c)
  /\ UNCHANGED <<session, effects, http, asked, client, faults>>

\* A refused heartbeat or the hub's cancel ends the execution without a report.
LeaseLost(c) ==
  /\ client.phase = "working" /\ client.claim = c
  /\ ~Leased(c)
  /\ client' = Idle
  /\ UNCHANGED <<db, http, asked, faults>>

\* UpdateWorkerSessionForClaim while the terminal is at work.
PersistSession(c) ==
  /\ client.phase = "working" /\ client.claim = c
  /\ Leased(c) /\ session.run = attempt[c].run
  /\ session' = [session EXCEPT !.by = c]
  /\ UNCHANGED <<run, attempt, effects, http, asked, client, faults>>

--------------------------------------------------------------------------------
(* Ending the lease: Client.postFinal against the finalization handlers *)

KindOf(c, fin) == IF fin = 1 THEN asked[c] ELSE "fail"

Send(c, fin, try) ==
  /\ client' = [phase |-> "ending", claim |-> c, fin |-> fin, try |-> try]
  /\ call' = [call EXCEPT ![<<c, fin, try>>] = "sent"]

\* The execution is over: a result, a question or a failure is reported.
Finish(c, kind) ==
  /\ client.phase = "working" /\ client.claim = c
  /\ Send(c, 1, 1)
  /\ asked' = [asked EXCEPT ![c] = kind]
  /\ UNCHANGED <<db, offer, faults>>

\* Mistake: a question counts as a failure.
QuestionsCount(r, kind) ==
  [Ended(r, IF kind = "complete" THEN "completed" ELSE "awaiting_input")
     EXCEPT !.failures = IF kind = "complete" THEN @ ELSE @ + 1]

\* Mistake: a failed run gets a status the column does not know.
FailedStatus(r, kind) == Ended(r, IF kind = "fail" THEN "failed" ELSE "completed")

\* The row of run r after kind was applied.
Outcome(r, kind) ==
  LET failures == run[r].failures + 1
  IN CASE kind = "complete" -> Ended(r, "completed")
       [] kind = "input"    -> Ended(r, "awaiting_input")
       [] kind = "fail"     ->
            [Ended(r, IF failures >= MaxFailures THEN "awaiting_input" ELSE "retry_wait")
               EXCEPT !.failures = failures]

\* Where a handler goes on after the commit that left run row.
Following(kind, row) ==
  IF kind = "fail" /\ row.status # "awaiting_input" THEN "saveQuiet" ELSE "save"

\* Mistake: a repeated finalization is answered without what must follow it.
NothingFollows(kind, row) == "ok"

\* Where a repeated finalization goes on: through the same steps again.
Replayed(kind, row) == Following(kind, row)

\* workerAttemptWasFinalizedTx
WasFinalized(c, fin) == attempt[c].fin = fin

\* CompleteWorkerRun, RequestWorkerRunInput or FailWorkerRun.
Commit(c, fin, try) ==
  LET k    == <<c, fin, try>>
      r    == attempt[c].run
      kind == KindOf(c, fin)
      row  == Outcome(r, kind)
  IN /\ call[k] = "sent"
     /\ \/ /\ kind # "invalid" /\ WasFinalized(c, fin)
           /\ call' = [call EXCEPT ![k] = Replayed(kind, run[r])]
           /\ UNCHANGED <<run, attempt>>
        \/ /\ kind # "invalid" /\ ~WasFinalized(c, fin) /\ Leased(c)
           /\ run' = [run EXCEPT ![r] = row]
           /\ attempt' = [attempt EXCEPT ![c].status = row.status, ![c].fin = fin]
           /\ call' = [call EXCEPT ![k] = Following(kind, row)]
        \/ /\ kind = "invalid" \/ (~WasFinalized(c, fin) /\ ~Leased(c))
           /\ call' = [call EXCEPT ![k] = "refused"]
           /\ UNCHANGED <<run, attempt>>
     /\ UNCHANGED <<session, effects, offer, asked, client, faults>>

\* Mistake: an attempt that was overtaken still writes the session.
NeverSuperseded(c) == FALSE

\* A newer attempt of the run owns the continuity.
Superseded(c) == attempt[c].no < run[attempt[c].run].attempts

\* UpdateWorkerSessionForFinalization, then the next step of the handler.
SaveSession(c, fin, try) ==
  LET k    == <<c, fin, try>>
      mine == session.run = attempt[c].run
      next == IF call[k] = "saveQuiet" THEN "ok"
              ELSE IF KindOf(c, fin) = "complete" THEN "wake" ELSE "tell"
  IN /\ call[k] \in {"save", "saveQuiet"}
     /\ call' = [call EXCEPT ![k] = IF mine \/ Superseded(c) THEN next ELSE "error"]
     /\ session' = IF mine /\ ~Superseded(c) THEN [session EXCEPT !.by = c] ELSE session
     /\ effects' = [effects EXCEPT ![c] = IF mine \/ Superseded(c) THEN @ \cup {"saved"} ELSE @]
     /\ UNCHANGED <<run, attempt, offer, asked, client, faults>>

\* Lessons are filed and ready dependents woken, then the assigner is told.
FollowUp(c, fin, try) ==
  LET k == <<c, fin, try>>
  IN /\ call[k] \in {"wake", "tell"}
     /\ effects' = [effects EXCEPT ![c] = @ \cup {IF call[k] = "wake" THEN "woken" ELSE "told"}]
     /\ call' = [call EXCEPT ![k] = IF @ = "wake" THEN "tell" ELSE "ok"]
     /\ UNCHANGED <<run, attempt, session, offer, asked, client, faults>>

\* A statement of the handler fails: 500.
StepFails(k) ==
  /\ call[k] \in {"sent", "save", "saveQuiet", "wake", "tell"}
  /\ Fault
  /\ call' = [call EXCEPT ![k] = "error"]
  /\ UNCHANGED <<db, offer, asked, client>>

\* A result or a question that could not be reported turns into a failure
\* report, under a number of its own; a failure report is given up.
ReportFailure ==
  \/ client.fin = 1 /\ asked[client.claim] # "fail" /\ Send(client.claim, 2, 1)
  \/ (client.fin = 2 \/ asked[client.claim] = "fail") /\ client' = Idle /\ UNCHANGED call

\* postRetried, after a try that brought no answer or a 5xx.
Again ==
  \/ client.try < MaxTries /\ Send(client.claim, client.fin, client.try + 1)
  \/ client.try = MaxTries /\ ReportFailure

Answer ==
  /\ client.phase = "ending"
  /\ LET stage == call[<<client.claim, client.fin, client.try>>]
     IN \/ stage = "ok" /\ client' = Idle /\ UNCHANGED call
        \/ stage = "refused" /\ ReportFailure  \* 4xx ends the tries at once
        \/ stage = "error" /\ Again
  /\ UNCHANGED <<db, offer, asked, faults>>

\* The answer is lost or late; the handler goes on.  The 30 seconds of failTask
\* may be over as well.
AnswerLost ==
  /\ client.phase = "ending"
  /\ Fault
  /\ \/ Again
     \/ (client.fin = 2 \/ asked[client.claim] = "fail") /\ client' = Idle /\ UNCHANGED call
  /\ UNCHANGED <<db, offer, asked>>

--------------------------------------------------------------------------------
(* Restarts *)

\* Every handler under way stops where it is; the connections break.
ServerRestart ==
  /\ Fault
  /\ offer' = [c \in Claims |-> "none"]
  /\ call' = [k \in Calls |-> IF call[k] \in {"sent", "save", "saveQuiet", "wake", "tell"}
                              THEN "error" ELSE call[k]]
  /\ client' = IF client.phase = "polling" THEN Idle ELSE client
  /\ UNCHANGED <<db, asked>>

ClientCrash ==
  /\ client.phase # "idle"
  /\ Fault
  /\ client' = Idle
  /\ UNCHANGED <<db, http, asked>>

--------------------------------------------------------------------------------
ServeCall(k) ==
  \/ Commit(k[1], k[2], k[3])
  \/ SaveSession(k[1], k[2], k[3])
  \/ FollowUp(k[1], k[2], k[3])

ServePoll(c) ==
  \/ \E r \in Runs : ClaimNext(r, c)
  \/ OpenSession(c) \/ Deliver(c) \/ Release(c)

Work(c) ==
  \/ Acknowledge(c) \/ LeaseLost(c)
  \/ \E kind \in Kinds : Finish(c, kind)

Tick(r) == LeaseAges(r) \/ BackoffElapses(r)

Next ==
  \/ \E r \in Runs : CreateRun(r) \/ CancelRun(r) \/ Tick(r)
  \/ Poll \/ PollEmpty \/ GiveUpPoll
  \/ \E c \in Claims : ServePoll(c) \/ Work(c) \/ Heartbeat(c) \/ PersistSession(c)
  \/ \E k \in Calls : ServeCall(k) \/ StepFails(k)
  \/ Answer \/ AnswerLost
  \/ ServerRestart \/ ClientCrash

Spec == Init /\ [][Next]_vars

\* Handlers run to their end, the client loops, and time passes.
Fairness ==
  /\ WF_vars(Poll) /\ WF_vars(PollEmpty) /\ WF_vars(Answer)
  /\ \A c \in Claims : WF_vars(ServePoll(c)) /\ WF_vars(Work(c))
  /\ \A k \in Calls : WF_vars(ServeCall(k))
  /\ \A r \in Runs : WF_vars(Tick(r))

FairSpec == Spec /\ Fairness

--------------------------------------------------------------------------------
(* Properties *)

AttemptStatuses == {"absent", "claimed", "released", "expired", "retry_wait",
                    "awaiting_input", "completed", "cancelled"}
Handling        == {"sent", "save", "saveQuiet", "wake", "tell"}

RunRow ==
  [status : RunStatuses, claim : Claims \cup {NoClaim}, failures : 0 .. MaxFailures,
   attempts : Nat, ready : BOOLEAN, age : {"fresh", "overdue", "stale"}]
AttemptRow ==
  [status : AttemptStatuses, run : Runs \cup {NoRun}, no : Nat, acked : BOOLEAN, fin : 0 .. 2]

\* The rows keep to the values of their columns and the processes to their states.
TypeOK ==
  /\ run \in [Runs -> RunRow]
  /\ attempt \in [Claims -> AttemptRow]
  /\ session \in [run : Runs \cup {NoRun}, by : Claims \cup {NoClaim}]
  /\ effects \in [Claims -> SUBSET {"saved", "woken", "told"}]
  /\ offer \in [Claims -> {"none", "claimed", "opened"}]
  /\ call \in [Calls -> Handling \cup {"unsent", "refused", "error", "ok"}]
  /\ asked \in [Claims -> Kinds \cup {"none"}]
  /\ client \in [phase : {"idle", "polling", "acking", "working", "ending"},
                 claim : Claims \cup {NoClaim}, fin : 0 .. 2, try : 0 .. MaxTries]
  /\ faults \in 0 .. MaxFaults

\* A finalization is answered 200 only when everything that must follow it was
\* done, by this request or an earlier one: the terminal session is settled,
\* dependents are woken, and the assigner hears of results, questions and of a
\* run that is paused after too many failures (the handlers' replay paths).
AnsweredMeansDone ==
  \A c \in Claims, fin \in {1, 2}, try \in Tries :
    call[<<c, fin, try>>] = "ok" =>
      /\ attempt[c].fin = fin
      /\ "saved" \in effects[c]
      /\ KindOf(c, fin) = "complete" => {"woken", "told"} \subseteq effects[c]
      /\ KindOf(c, fin) = "input" => "told" \in effects[c]
      /\ attempt[c].status = "awaiting_input" /\ run[attempt[c].run].status = "awaiting_input"
           => "told" \in effects[c]

\* The failures a run is charged with are the attempts that ended in a failure
\* report, however often a report was repeated, and nothing else (releases,
\* expired leases and questions are free); a run goes on failing only below
\* the limit (FailWorkerRun).
FailuresCounted ==
  \A r \in Runs :
    LET failed == {c \in Claims : /\ attempt[c].run = r /\ attempt[c].fin # 0
                                  /\ KindOf(c, attempt[c].fin) = "fail"}
    IN /\ run[r].failures = Cardinality(failed)
       /\ run[r].failures = MaxFailures => run[r].status \in {"awaiting_input", "cancelled"}

\* A finalized attempt stands: neither a repeated request nor the failure
\* report of a client that never saw the answer changes it or undoes the
\* completion of its run.
ResultsStand ==
  [][\A c \in Claims : attempt[c].fin # 0 =>
       /\ attempt'[c] = attempt[c]
       /\ attempt[c].status = "completed" => run'[attempt[c].run].status = "completed"]_vars

\* The continuity of the terminal goes forward: once a later attempt of a run
\* wrote the session, no late request of an earlier one overwrites it
\* (UpdateWorkerSessionForFinalization).
SessionKeepsNewest ==
  [][session'.by # session.by /\ session.by # NoClaim /\ session'.by # NoClaim
       /\ attempt[session.by].run = attempt[session'.by].run
     => attempt[session'.by].no > attempt[session.by].no]_vars

\* The runs are the jobs of LeasedWork, the attempts its leases.
JobState(status) ==
  CASE status = "absent" -> "unused"
    [] status \in {"queued", "retry_wait"} -> "waiting"
    [] status = "claimed" -> "leased"
    [] status = "awaiting_input" -> "paused"
    [] status = "completed" -> "done"
    [] status = "cancelled" -> "dropped"

Queue == INSTANCE LeasedWork WITH
  Jobs    <- Runs,
  Leases  <- Claims,
  NoLease <- NoClaim,
  job     <- [r \in Runs |-> JobState(run[r].status)],
  holder  <- [r \in Runs |-> run[r].claim],
  used    <- {c \in Claims : attempt[c].status # "absent"}

\* Lost answers, repeated requests, late handlers and restarts included, the
\* protocol hands out and settles runs as the queue of LeasedWork does.
ImplementsLeasedWork == Queue!Spec

\* Every run ends: it is completed, waits for its assigner, or was cancelled.
RunsEnd ==
  \A r \in Runs : run[r].status = "queued" ~>
    run[r].status \in {"completed", "awaiting_input", "cancelled"}
================================================================================
