------------------------------- MODULE Execution -------------------------------
(***************************************************************************)
(* How nbco-worker carries out one run after another: a terminal agent     *)
(* driven turn by turn, the built-in agent, or a plain command; with a     *)
(* second model that judges the turns and reviews what is delivered, and   *)
(* with the run cancelled or timing out at any moment.                     *)
(*                                                                         *)
(* WorkerProtocol has the requests a run begins and ends with; here they   *)
(* are one step each.  A delivery is the number of the turn that made it,  *)
(* and the terminal shows the last block of either kind with the marks it  *)
(* was written under.  What the judge answers is a choice; the texts of    *)
(* prompts and evidence are left out.                                      *)
(***************************************************************************)
EXTENDS Integers

CONSTANTS
  RunIds,          \* ids of worker_runs rows
  Engines,         \* a subset of {"cli", "builtin", "command"}
  Signatures,      \* what the judge may find wrong
  AuditInterval,   \* agentProgressAuditInterval
  MaxStalledTurns, MaxRejections, MaxSilentTurns,
  MaxTurns, MaxJobs  \* bounds: turns of a run, runs

ASSUME ExecutionAssumption ==
  /\ Engines \subseteq {"cli", "builtin", "command"}
  /\ {AuditInterval, MaxStalledTurns, MaxRejections, MaxSilentTurns, MaxTurns, MaxJobs} \subseteq Nat
  /\ MaxStalledTurns > 0

VARIABLES
  job,       \* the run in hand: its number, id, engine, phase, marks
  sessions,    \* terminal sessions: the stored one, the one of this run, and the one that died
  screen,    \* the last block of either kind, and which is the later one
  work,      \* turns made
  judged,    \* what the judge and the screen said of the turns
  rejected,  \* reviewFailures
  verdict,   \* what the review said of each delivery
  stopped, killed, \* runCtx, curKilled
  withdrawn, \* ids of runs whose lease was taken back, and whether it is this one's
  late,      \* ids that cancelCurrentRun is being called with
  ended      \* how the last run ended

executionVars ==
  <<job, sessions, screen, work, judged, rejected, verdict, stopped, killed, withdrawn, late, ended>>

Turns   == 0 .. MaxTurns
NoBlock == [marks |-> 0, work |-> 0]
Blank   == [done |-> NoBlock, ask |-> NoBlock, last |-> "done"]
Unjudged == [since |-> 0, stalled |-> 0, sig |-> "none", silent |-> 0, streak |-> 0, same |-> 0]
NotEnded == [how |-> "none", work |-> 0, ref |-> 0, odd |-> FALSE]

ExecutionInit ==
  /\ job = [no |-> 0, id |-> 0, engine |-> "cli", phase |-> "idle", marks |-> 0, broken |-> FALSE]
  /\ sessions = [stored |-> 0, ref |-> 0, live |-> 0, unfit |-> 0]
  /\ screen = Blank
  /\ work = 0
  /\ judged = Unjudged
  /\ rejected = [s \in Signatures |-> 0]
  /\ verdict = [t \in Turns |-> "none"]
  /\ stopped = FALSE /\ killed = FALSE
  /\ withdrawn = [ids |-> {}, now |-> FALSE]
  /\ late = {}
  /\ ended = NotEnded

To(phase)   == job' = [job EXCEPT !.phase = phase]
In(phase)   == job.phase = phase
agentVars   == <<screen, work, judged, rejected, verdict>>
leaseVars   == <<stopped, killed, withdrawn, late>>

--------------------------------------------------------------------------------
(* Taking a run, losing it, and letting go *)

\* A claimed and acknowledged run is registered; only one is in hand.
Take(id, engine) ==
  /\ In("idle") /\ job.no < MaxJobs
  /\ job' = [no |-> job.no + 1, id |-> id, engine |-> engine, phase |-> "prepare",
             marks |-> 1, broken |-> FALSE]
  /\ sessions' = [sessions EXCEPT !.ref = sessions.stored, !.live = 0, !.unfit = 0]
  /\ screen' = Blank /\ work' = 0 /\ judged' = Unjudged
  /\ rejected' = [s \in Signatures |-> 0]
  /\ verdict' = [t \in Turns |-> "none"]
  /\ stopped' = FALSE /\ killed' = FALSE
  /\ withdrawn' = [withdrawn EXCEPT !.now = FALSE]
  /\ ended' = NotEnded
  /\ UNCHANGED late

\* The server takes the run back; a message or a refused heartbeat is on its way.
Withdraw ==
  /\ ~In("idle") /\ ~withdrawn.now
  /\ withdrawn' = [ids |-> withdrawn.ids \cup {job.id}, now |-> TRUE]
  /\ late' = late \cup {job.id}
  /\ UNCHANGED <<job, sessions, agentVars, stopped, killed, ended>>

\* Mistake: whatever runs is cancelled.
HitsAnything(id) == ~In("idle")

Hits(id) == ~In("idle") /\ job.id = id

CancelCurrentRun(id) ==
  /\ id \in late
  /\ late' = late \ {id}
  /\ IF Hits(id) THEN killed' = TRUE /\ stopped' = TRUE ELSE UNCHANGED <<killed, stopped>>
  /\ UNCHANGED <<job, sessions, agentVars, withdrawn, ended>>

\* taskTimeout
TimeOut ==
  /\ ~In("idle") /\ ~stopped
  /\ stopped' = TRUE
  /\ UNCHANGED <<job, sessions, agentVars, killed, withdrawn, late, ended>>

\* Only a later block that asks, or a terminal that broke off, goes unreviewed.
End(how, delivery, odd) ==
  /\ To("idle")
  /\ ended' = [how |-> how, work |-> delivery, ref |-> sessions.ref, odd |-> odd]
  /\ sessions' = [sessions EXCEPT !.stored = IF withdrawn.now \/ how = "dropped" THEN @ ELSE sessions.ref]
  /\ UNCHANGED <<agentVars, leaseVars>>

Drop == killed /\ End("dropped", 0, FALSE)

--------------------------------------------------------------------------------
(* prepareFiles, and starting the engine *)

Prepare ==
  /\ In("prepare")
  /\ \/ /\ ~stopped
        /\ To(CASE job.engine = "cli" -> "start"
                [] job.engine = "builtin" -> "think"
                [] job.engine = "command" -> "command")
        /\ UNCHANGED <<sessions, agentVars, leaseVars, ended>>
     \/ Drop
     \/ ~killed /\ To("fail") /\ UNCHANGED <<sessions, agentVars, leaseVars, ended>>

FreshRef(ref) == 0

\* The stored session fits when runtime, arguments and directory are unchanged.
StartFresh ==
  /\ In("start") /\ ~stopped
  /\ sessions' = [sessions EXCEPT !.ref = FreshRef(sessions.stored), !.live = job.no,
                              !.unfit = sessions.stored]
  /\ To("turn")
  /\ UNCHANGED <<agentVars, leaseVars, ended>>

\* When the resumed terminal dies, the reference stays until the new one is seen.
Resume ==
  /\ In("start") /\ ~stopped /\ sessions.stored # 0
  /\ \E alive \in BOOLEAN :
       sessions' = [sessions EXCEPT !.ref = sessions.stored,
                                !.live = IF alive THEN sessions.stored ELSE job.no]
  /\ To("turn")
  /\ UNCHANGED <<agentVars, leaseVars, ended>>

StartFails ==
  /\ In("start")
  /\ \/ Drop
     \/ To("fail") /\ UNCHANGED <<sessions, agentVars, leaseVars, ended>>

\* persistNativeSession, detectEngineSessionRef
SeeSession ==
  /\ job.engine = "cli" /\ job.phase \notin {"idle", "prepare", "start"}
  /\ sessions.live # sessions.ref
  /\ \E stored \in {sessions.stored, sessions.live} :
       sessions' = [sessions EXCEPT !.ref = sessions.live,
                                !.stored = IF withdrawn.now THEN @ ELSE stored]
  /\ UNCHANGED <<job, agentVars, leaseVars, ended>>

--------------------------------------------------------------------------------
(* A turn of the terminal agent: submitAndWait and driveAgentTurnsWithJudge *)

\* What a turn may leave on the screen.
Blocks == {{}, {"done"}, {"ask"}, {"done", "ask"}}

Shown(blocks, last) ==
  LET block == [marks |-> job.marks, work |-> work + 1]
  IN [done |-> IF "done" \in blocks THEN block ELSE screen.done,
      ask  |-> IF "ask" \in blocks THEN block ELSE screen.ask,
      last |-> IF blocks = {} THEN screen.last ELSE last]

Turn ==
  /\ In("turn") /\ work < MaxTurns
  /\ \E blocks \in Blocks, last \in {"done", "ask"}, broken \in BOOLEAN :
       /\ blocks # {} => last \in blocks
       /\ blocks = {} => last = screen.last
       /\ stopped => broken
       /\ screen' = Shown(blocks, last)
       /\ job' = [job EXCEPT !.phase = "parse", !.broken = broken]
  /\ work' = work + 1
  /\ UNCHANGED <<sessions, judged, rejected, verdict, leaseVars, ended>>

Completed == screen.done.marks = job.marks
Asked     == screen.ask.marks = job.marks

\* A completion alone is reviewed; anything else that ends the turns is settled.
Parse ==
  /\ In("parse")
  /\ To(IF Completed /\ ~Asked /\ ~job.broken THEN "review"
        ELSE IF Completed \/ Asked \/ job.broken THEN "settle" ELSE "judge")
  /\ UNCHANGED <<sessions, agentVars, leaseVars, ended>>

--------------------------------------------------------------------------------
(* assessTurn and its consequences *)

\* Mistake: progress forgives nothing.
StalledStill(j) == [j EXCEPT !.since = 0, !.streak = 0, !.same = 0]

Progressing(j) ==
  [j EXCEPT !.since = 0, !.stalled = 0, !.sig = "none", !.streak = 0, !.same = 0]

Stalling(j, s) ==
  [j EXCEPT !.since = 0, !.sig = s,
            !.stalled = IF j.sig = s THEN @ + 1 ELSE 1,
            !.streak = @ + 1,
            !.same = IF j.sig = s /\ @ > 0 THEN @ + 1 ELSE 1]

\* The judge cannot be asked: the screen tells whether the turn after changed anything.
ByScreen(j, changed) ==
  [j EXCEPT !.since = 0, !.same = 0,
            !.stalled = IF changed THEN 0 ELSE @ + 1,
            !.streak = IF changed THEN 0 ELSE @ + 1]

\* What the judge and, for want of it, the screen may say.
Judgements(j) ==
  {Progressing(j)} \cup {Stalling(j, s) : s \in Signatures}

\* The terminal agent takes another turn, the built-in one asks its model again.
GoOn == IF job.engine = "cli" THEN "turn" ELSE "think"

Judge ==
  /\ In("judge")
  /\ \/ /\ judged.since + 1 < AuditInterval
        /\ judged' = [judged EXCEPT !.since = @ + 1]
        /\ To(GoOn)
     \/ /\ judged.since + 1 = AuditInterval
        /\ \/ ~stopped /\ judged' \in Judgements(judged)
           \/ job.engine = "cli" /\ \E changed \in BOOLEAN : judged' = ByScreen(judged, changed)
           \/ job.engine = "builtin" /\ judged' = [judged EXCEPT !.since = 0]
        /\ To(IF judged'.stalled >= MaxStalledTurns THEN "hopeless" ELSE GoOn)
  /\ UNCHANGED <<sessions, screen, work, rejected, verdict, leaseVars, ended>>

\* The agent is given up; only the terminal's driver looks whether it was cancelled.
GiveUpAgent ==
  /\ In("hopeless")
  /\ \/ job.engine = "cli" /\ Drop
     \/ /\ job.engine = "cli" => ~killed
        /\ To("fail") /\ UNCHANGED <<sessions, agentVars, leaseVars, ended>>

--------------------------------------------------------------------------------
(* reviewCompletion and its consequences *)

\* Mistake: a rework is asked for under the same marks.
SameMarks(marks) == marks

NewCompletionMarks(marks) == marks + 1

Reviewed == IF job.engine = "cli" THEN screen.done.work ELSE work

Pass ==
  /\ In("review") /\ ~stopped
  /\ verdict' = [verdict EXCEPT ![Reviewed] = IF @ = "none" THEN "pass" ELSE "again"]
  /\ To(IF job.engine = "cli" THEN "settle" ELSE "upload")
  /\ UNCHANGED <<sessions, screen, work, judged, rejected, leaseVars, ended>>

\* The turns after a rejection are counted anew for a terminal.
Anew(j) ==
  IF job.engine = "cli" THEN [Progressing(j) EXCEPT !.since = j.since] ELSE j

Reject(s) ==
  /\ In("review") /\ ~stopped
  /\ verdict' = [verdict EXCEPT ![Reviewed] = IF @ = "none" THEN "revise" ELSE "again"]
  /\ rejected' = [rejected EXCEPT ![s] = @ + 1]
  /\ job' = [job EXCEPT !.phase = IF rejected'[s] >= MaxRejections THEN "hopeless" ELSE GoOn,
                        !.marks = NewCompletionMarks(@)]
  /\ judged' = Anew(judged)
  /\ UNCHANGED <<sessions, screen, work, leaseVars, ended>>

ReviewFails ==
  /\ In("review")
  /\ To("hopeless")
  /\ UNCHANGED <<sessions, agentVars, leaseVars, ended>>

--------------------------------------------------------------------------------
(* The end of execute *)

Settle ==
  /\ In("settle")
  /\ \/ Drop
     \/ /\ ~killed
        /\ To(IF Asked /\ (~Completed \/ screen.last = "ask") THEN "ask"
              ELSE IF Completed THEN "collect" ELSE "fail")
        /\ UNCHANGED <<sessions, agentVars, leaseVars, ended>>

\* collectStructuredResult; a command's result is read after its files are uploaded.
Collect ==
  /\ In("collect")
  /\ \E valid \in BOOLEAN :
       To(IF ~valid THEN "fail" ELSE IF job.engine = "command" THEN "submit" ELSE "upload")
  /\ UNCHANGED <<sessions, agentVars, leaseVars, ended>>

\* What cannot be uploaded is named in the summary.
Upload ==
  /\ In("upload")
  /\ \/ Drop
     \/ /\ ~killed
        /\ To(IF job.engine = "command" THEN "collect" ELSE "submit")
        /\ UNCHANGED <<sessions, agentVars, leaseVars, ended>>

Delivered == IF job.engine = "command" THEN 0 ELSE Reviewed

Submit ==
  /\ In("submit")
  /\ \/ ~withdrawn.now /\ End("submitted", Delivered, job.broken \/ Asked)
     \/ To("fail") /\ UNCHANGED <<sessions, agentVars, leaseVars, ended>>

RequestInput ==
  /\ In("ask")
  /\ \/ ~withdrawn.now /\ End("asked", 0, FALSE)
     \/ /\ To(IF job.engine = "cli" THEN "fail" ELSE "judge")
        /\ UNCHANGED <<sessions, agentVars, leaseVars, ended>>

\* The report may be refused or lost; the lease then runs out.
FailTask == In("fail") /\ End("failed", 0, FALSE)

--------------------------------------------------------------------------------
(* executeBuiltin and executeCommand *)

\* The model answers without a tool, works, delivers badly, delivers, or asks.
Think ==
  /\ In("think") /\ ~killed /\ ~stopped /\ work < MaxTurns
  /\ \/ /\ judged' = [judged EXCEPT !.silent = @ + 1]
        /\ To(IF judged.silent + 1 >= MaxSilentTurns THEN "fail" ELSE "think")
     \/ /\ judged' = [judged EXCEPT !.silent = 0]
        /\ \E next \in {"judge", "think", "review", "ask"} : To(next)
  /\ work' = work + 1
  /\ UNCHANGED <<sessions, screen, rejected, verdict, leaseVars, ended>>

ThinkFails ==
  /\ In("think")
  /\ \/ Drop
     \/ ~killed /\ To("fail") /\ UNCHANGED <<sessions, agentVars, leaseVars, ended>>

\* A command that exits with an error has run; one that could not run has failed.
RunCommand ==
  /\ In("command")
  /\ \/ Drop
     \/ ~killed /\ To("fail") /\ UNCHANGED <<sessions, agentVars, leaseVars, ended>>
     \/ ~stopped /\ To("upload") /\ UNCHANGED <<sessions, agentVars, leaseVars, ended>>

--------------------------------------------------------------------------------
(* The next-state relation *)

ExecutionNext ==
  \/ \E id \in RunIds, engine \in Engines : Take(id, engine)
  \/ Withdraw \/ (\E id \in RunIds : CancelCurrentRun(id)) \/ TimeOut
  \/ Prepare \/ StartFresh \/ Resume \/ StartFails \/ SeeSession
  \/ Turn \/ Parse \/ Judge \/ GiveUpAgent
  \/ Pass \/ (\E s \in Signatures : Reject(s)) \/ ReviewFails
  \/ Settle \/ Collect \/ Upload \/ Submit \/ RequestInput \/ FailTask
  \/ Think \/ ThinkFails \/ RunCommand

ExecutionSpec == ExecutionInit /\ [][ExecutionNext]_executionVars

--------------------------------------------------------------------------------
(* Safety *)

\* A delivery is reviewed at most once: the block of an earlier turn, still on the
\* screen, is never taken for the rework that was asked for.
ReviewedOnce == \A t \in Turns : verdict[t] # "again"

\* What an agent submits passed its review; the code lets a delivery through unreviewed
\* only when the terminal broke off after it, or also showed a question before it.
\* A delivery that was rejected is never submitted.
SubmittedPassed ==
  ended.how = "submitted" /\ ended.work > 0 =>
    \/ verdict[ended.work] = "pass"
    \/ ended.odd /\ verdict[ended.work] = "none"

\* A run is dropped without a report only when its lease was taken back.
DroppedWasWithdrawn == ended.how = "dropped" => job.id \in withdrawn.ids

\* The judge's patience: an agent is given up only after MaxStalledTurns findings in a
\* row against it, and it goes on no longer than that on the same finding.
PatienceIsExact ==
  /\ judged.stalled <= judged.streak
  /\ job.phase \in {"turn", "think"} => judged.same < MaxStalledTurns

\* A terminal session that no longer fitted is not reported as the run's own.
RefsAreFresh == ended.ref # 0 /\ ended.how # "none" => ended.ref # sessions.unfit

ExecutionIsHonest ==
  ReviewedOnce /\ SubmittedPassed /\ DroppedWasWithdrawn /\ PatienceIsExact /\ RefsAreFresh
================================================================================
