---------------------------- MODULE AutomationRuns ----------------------------
(***************************************************************************)
(* The runs of the scheduler's automations: a unit "automation, period,    *)
(* subject" is claimed under a lease, may be allowed one turn that writes, *)
(* stores its report, sends it and is settled.                             *)
(*                                                                         *)
(* A runCopy is one goroutine of a pool, or the pass that claimed the run.  *)
(* Kinds: "report" writes nothing (dispatchAutomationAI, daily summary,    *)
(* orphan notice), "action" writes and reports, "silent" writes and tells  *)
(* nobody (SuppressNotification).  The time stamp of a claim is            *)
(* represented by who holds it.                                            *)
(***************************************************************************)
EXTENDS Integers

CONSTANTS
  RunKinds,       \* kinds explored: "report", "action", "silent"
  Runners,        \* goroutines: numbers from 1
  MaxRunAttempts  \* automationRunMaxAttempts

ASSUME AutomationAssumption ==
  /\ RunKinds \subseteq {"report", "action", "silent"}
  /\ Runners \subseteq Nat \ {0}
  /\ MaxRunAttempts \in Nat \ {0}

VARIABLES
  runKind,    \* the automation's kind
  run,        \* the row of automation_runs
  window,     \* the period is "open", or "over": expires_at has passed
  runCopy,    \* claimed copies of the run
  runReceipt, \* notification_deliveries under "scheduler:<execution key>"
  effects,    \* turns that wrote, or may have written
  doubtful,   \* a writing turn was interrupted after it may have written
  reportsSent \* messages given to the channel

automationVars == <<runKind, run, window, runCopy, runReceipt, effects, doubtful, reportsSent>>

NoRun == [status |-> "absent", attempts |-> 0, claim |-> 0, stale |-> FALSE, ready |-> FALSE,
          started |-> FALSE, result |-> FALSE, outcome |-> ""]
IdleRunner == [pc |-> "idle", attempts |-> 0, started |-> FALSE, result |-> FALSE, wrote |-> FALSE]

AutomationInit ==
  /\ runKind \in RunKinds
  /\ run = NoRun
  /\ window = "open"
  /\ runCopy = [n \in Runners |-> IdleRunner]
  /\ runReceipt = "none"
  /\ effects = 0
  /\ doubtful = FALSE
  /\ reportsSent = 0

--------------------------------------------------------------------------------
(* Claiming *)

\* The first visit of the period inserts the row.
Visited == IF run.status = "absent" THEN [NoRun EXCEPT !.status = "pending", !.ready = TRUE] ELSE run

Interrupted(r) == r.status = "processing" /\ r.stale
RunFailed(r)   == [r EXCEPT !.status = "failed", !.claim = 0, !.stale = FALSE,
                            !.outcome = IF @ = "" THEN "failed" ELSE @]

Claimable(r) ==
  /\ window = "open"
  /\ r.attempts < MaxRunAttempts
  /\ r.ready
  /\ r.status = "pending" \/ Interrupted(r)

\* ClaimAutomationRunUntil finds a run to execute ...
ClaimRun(n) ==
  /\ runCopy[n].pc = "idle"
  /\ Claimable(Visited)
  /\ run' = [Visited EXCEPT !.status = "processing", !.claim = n, !.stale = FALSE, !.attempts = @ + 1]
  /\ runCopy' = [runCopy EXCEPT ![n] = [pc |-> "start", attempts |-> Visited.attempts + 1,
                                       started |-> Visited.started, result |-> Visited.result, wrote |-> FALSE]]
  /\ UNCHANGED <<runKind, window, runReceipt, effects, doubtful, reportsSent>>

\* ... or ends one whose attempts are used up.
ExhaustRun ==
  /\ run.attempts >= MaxRunAttempts
  /\ (run.status = "pending" /\ run.ready) \/ Interrupted(run)
  /\ run' = RunFailed(run)
  /\ UNCHANGED <<runKind, window, runCopy, runReceipt, effects, doubtful, reportsSent>>

\* Mistake: only runs that wait are expired.
ExpireWaitingRun ==
  /\ window = "over"
  /\ run.status = "pending"
  /\ run' = RunFailed(run)
  /\ UNCHANGED <<runKind, window, runCopy, runReceipt, effects, doubtful, reportsSent>>

\* ExpireAutomationRuns, whoever still works on it.
ExpireRun ==
  /\ window = "over"
  /\ run.status = "pending" \/ Interrupted(run)
  /\ run' = RunFailed(run)
  /\ UNCHANGED <<runKind, window, runCopy, runReceipt, effects, doubtful, reportsSent>>

RunTimePasses ==
  /\ \/ run.status = "processing" /\ ~run.stale /\ run' = [run EXCEPT !.stale = TRUE]
     \/ run.status = "pending" /\ ~run.ready /\ run' = [run EXCEPT !.ready = TRUE]
  /\ UNCHANGED <<runKind, window, runCopy, runReceipt, effects, doubtful, reportsSent>>

PeriodEnds ==
  /\ window = "open"
  /\ window' = "over"
  /\ UNCHANGED <<runKind, run, runCopy, runReceipt, effects, doubtful, reportsSent>>

--------------------------------------------------------------------------------
(* Executing *)

HoldsRun(n)   == run.status = "processing" /\ run.claim = n
OnTo(n, pc)   == runCopy' = [runCopy EXCEPT ![n].pc = pc]
Done(n)       == runCopy' = [runCopy EXCEPT ![n] = IdleRunner]

\* Mistake: a turn that was begun is taken again.
StartRunAnew(n) ==
  /\ runCopy[n].pc = "start"
  /\ OnTo(n, IF runCopy[n].result THEN "deliver" ELSE IF runKind = "report" THEN "compose" ELSE "act")
  /\ UNCHANGED <<runKind, run, window, runReceipt, effects, doubtful, reportsSent>>

\* A stored report is sent; a write turn that was begun is looked into; otherwise
\* the turn is taken.  A full pool retries.
StartRun(n) ==
  /\ runCopy[n].pc = "start"
  /\ \/ OnTo(n, "retry")
     \/ OnTo(n, IF runCopy[n].result THEN "deliver"
                ELSE IF runKind = "report" THEN "compose"
                ELSE IF runCopy[n].started THEN "recover" ELSE "begin")
  /\ UNCHANGED <<runKind, run, window, runReceipt, effects, doubtful, reportsSent>>

\* BeginAutomationAction: the boundary is stored before the turn may write.
BeginAction(n) ==
  /\ runCopy[n].pc = "begin"
  /\ \/ HoldsRun(n) /\ ~run.started /\ run' = [run EXCEPT !.started = TRUE] /\ OnTo(n, "act")
     \/ OnTo(n, "retry") /\ UNCHANGED run
  /\ UNCHANGED <<runKind, window, runReceipt, effects, doubtful, reportsSent>>

\* The turn writes or does not, and returns or breaks off.
TakeTurn(n) ==
  /\ runCopy[n].pc = "act"
  /\ \E wrote, broke \in BOOLEAN :
       /\ effects' = IF wrote THEN effects + 1 ELSE effects
       /\ doubtful' = (doubtful \/ (wrote /\ broke))
       /\ runCopy' = [runCopy EXCEPT ![n].pc = IF broke THEN "recover" ELSE "assess", ![n].wrote = wrote]
  /\ UNCHANGED <<runKind, run, window, runReceipt, reportsSent>>

Prepared(n, outcome) ==
  IF HoldsRun(n)
  THEN /\ run' = [run EXCEPT !.result = TRUE, !.outcome = outcome]
       /\ OnTo(n, "deliver")
  ELSE OnTo(n, "retry") /\ UNCHANGED run

\* Mistake: what the reading turn found is recorded as a success.
RecoverAsSuccess(n) ==
  /\ runCopy[n].pc = "recover"
  /\ Prepared(n, "succeeded")
  /\ UNCHANGED <<runKind, window, runReceipt, effects, doubtful, reportsSent>>

\* A reading turn reconstructs what happened; the outcome stays uncertain.
Recover(n) ==
  /\ runCopy[n].pc = "recover"
  /\ \/ Prepared(n, "uncertain")
     \/ OnTo(n, "retry") /\ UNCHANGED run
  /\ UNCHANGED <<runKind, window, runReceipt, effects, doubtful, reportsSent>>

\* Mistake: an attempt that is left is enough.
PresumedHarmless(n) == runCopy[n].attempts < MaxRunAttempts

\* Nothing was written and an attempt is left: the boundary may be taken back.
ProvedHarmless(n) == ~runCopy[n].wrote /\ runCopy[n].attempts < MaxRunAttempts

\* handleCompletedAutomationAction: the assessment fails, finds the work
\* incomplete, or gives its outcome.
Assess(n) ==
  /\ runCopy[n].pc = "assess"
  /\ \/ \E outcome \in {"succeeded", "no_change", "uncertain"} : Prepared(n, outcome)
     \/ IF ProvedHarmless(n) THEN OnTo(n, "retrySafe") /\ UNCHANGED run
        ELSE Prepared(n, IF runCopy[n].wrote THEN "uncertain" ELSE "failed")
     \/ OnTo(n, "retry") /\ UNCHANGED run
  /\ UNCHANGED <<runKind, window, runReceipt, effects, doubtful, reportsSent>>

\* dispatchAutomationAI stores the text of a reading turn; the daily summary and
\* the orphan notice send without storing, or have nothing to say.
Compose(n) ==
  /\ runCopy[n].pc = "compose"
  /\ \/ Prepared(n, "succeeded")
     \/ OnTo(n, "deliver") /\ UNCHANGED run
     \/ OnTo(n, "complete") /\ UNCHANGED run
     \/ OnTo(n, "retry") /\ UNCHANGED run
  /\ UNCHANGED <<runKind, window, runReceipt, effects, doubtful, reportsSent>>

\* send: one receipt per execution key.
SendReport(n) ==
  /\ runCopy[n].pc = "deliver"
  /\ IF runKind = "silent" THEN OnTo(n, "complete") /\ UNCHANGED runReceipt
     ELSE \/ OnTo(n, "retry") /\ UNCHANGED runReceipt
          \/ CASE runReceipt = "none"      -> runReceipt' = "started" /\ OnTo(n, "transmit")
               [] runReceipt = "delivered" -> OnTo(n, "complete") /\ UNCHANGED runReceipt
               [] OTHER                    -> OnTo(n, "failDelivery") /\ UNCHANGED runReceipt
  /\ UNCHANGED <<runKind, run, window, effects, doubtful, reportsSent>>

TransmitReport(n) ==
  /\ runCopy[n].pc = "transmit"
  /\ reportsSent' = reportsSent + 1
  /\ \E ok \in BOOLEAN :
       /\ OnTo(n, IF ok THEN "complete" ELSE "failDelivery")
       /\ runReceipt' \in {runReceipt, IF ok THEN "delivered" ELSE "failed"}
  /\ UNCHANGED <<runKind, run, window, effects, doubtful>>

--------------------------------------------------------------------------------
(* Settling *)

CompletedRun ==
  [run EXCEPT !.status = IF run.outcome \in {"failed", "uncertain"} THEN "failed" ELSE "done",
              !.claim = 0, !.stale = FALSE]

\* CompleteAutomationRun, FailAutomationRunDelivery.
SettleRun(n) ==
  /\ runCopy[n].pc \in {"complete", "failDelivery"}
  /\ run' = IF ~HoldsRun(n) THEN run
            ELSE IF runCopy[n].pc = "complete" THEN CompletedRun
            ELSE [run EXCEPT !.status = "failed", !.claim = 0, !.stale = FALSE]
  /\ Done(n)
  /\ UNCHANGED <<runKind, window, runReceipt, effects, doubtful, reportsSent>>

\* retryAutomationRun: only a replay-safe retry forgets the boundary.
RetriedRun(n) ==
  LET back == [run EXCEPT !.status = "pending", !.claim = 0, !.stale = FALSE, !.ready = FALSE] IN
  IF runCopy[n].attempts >= MaxRunAttempts THEN [RunFailed(run) EXCEPT !.ready = FALSE]
  ELSE IF runCopy[n].pc = "retrySafe" THEN [back EXCEPT !.started = FALSE, !.result = FALSE, !.outcome = ""]
  ELSE back

RetryRun(n) ==
  /\ runCopy[n].pc \in {"retry", "retrySafe"}
  /\ run' = IF HoldsRun(n) THEN RetriedRun(n) ELSE run
  /\ Done(n)
  /\ UNCHANGED <<runKind, window, runReceipt, effects, doubtful, reportsSent>>

\* The process stops, the goroutine panics, or a settling statement fails.
LoseRunner(n) ==
  /\ runCopy[n].pc # "idle"
  /\ doubtful' = (doubtful \/ (runCopy[n].wrote /\ runCopy[n].pc = "assess"))
  /\ Done(n)
  /\ UNCHANGED <<runKind, run, window, runReceipt, effects, reportsSent>>

WorkOn(n) ==
  \/ StartRun(n) \/ BeginAction(n) \/ TakeTurn(n) \/ Recover(n) \/ Assess(n) \/ Compose(n)
  \/ SendReport(n) \/ TransmitReport(n) \/ SettleRun(n) \/ RetryRun(n)

AutomationNext ==
  \/ ExhaustRun \/ ExpireRun \/ RunTimePasses \/ PeriodEnds
  \/ \E n \in Runners : ClaimRun(n) \/ WorkOn(n) \/ LoseRunner(n)

\* Every tick expires what is over; the period of a run ends, leases run out,
\* statements and turns return.  That a run is claimed again is not assumed: the pass that owns it
\* may never come back to it.
AutomationFairness ==
  /\ WF_automationVars(ExpireRun) /\ WF_automationVars(RunTimePasses)
  /\ WF_automationVars(run.status # "absent" /\ PeriodEnds)
  /\ \A n \in Runners : WF_automationVars(WorkOn(n))

AutomationSpec == AutomationInit /\ [][AutomationNext]_automationVars /\ AutomationFairness

--------------------------------------------------------------------------------
(* Properties *)

\* One turn per run writes: another is allowed only after an assessed turn that
\* wrote nothing, whatever stops and however late the others come.
WritesOnce == effects <= 1 /\ reportsSent <= 1

\* A run in which a writing turn broke off, or stopped before it was assessed, never
\* counts as done.
DoubtIsRecorded == doubtful => run.status # "done"

\* An automation acts once and reports truly (ClaimAutomationRun, the assessment and
\* the receipts of its reports).
RunsAreHonest == WritesOnce /\ DoubtIsRecorded

\* Every run ends, by its attempts or with its period.
RunSettled == run.status \notin {"pending", "processing"}
\* The run reaches a final status (ExpireAutomationRuns ends what nobody claims).
EveryRunEnds == <>[]RunSettled
==============================================================================
