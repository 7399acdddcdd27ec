-------------------------------- MODULE TaskDesk --------------------------------
(***************************************************************************)
(* The task tools of nbco around one task: a tool reads the task, checks   *)
(* what the caller may do with what it read, changes the task in a         *)
(* transaction of its own (those of TaskBoard), and then records the       *)
(* verdict, closes decision items, tells a worker to stop and announces    *)
(* dependent tasks, in several further steps.  Other calls and the worker      *)
(* act in between, and a call may end after any step.                      *)
(*                                                                         *)
(* The task has a parent nobody waits for, and one dependent that also     *)
(* waits for an already submitted task.  Progress notes, checklists and    *)
(* notices change nothing here; whom a caller may assign to is left to     *)
(* Authority.  Nobody is a superadmin.                                     *)
(***************************************************************************)
EXTENDS Integers, FiniteSets

CONSTANTS
  Manager,      \* who assigned the task
  People,       \* others who work on or review it
  Robots,       \* AI workers
  Rosters,      \* what set_task_participants is asked for
  Desks,        \* tool calls under way at a time
  MaxDeskCalls, MaxDeskRuns  \* bounds

ASSUME DeskAssumption == IsFiniteSet(Desks) /\ {MaxDeskCalls, MaxDeskRuns} \subseteq Nat

VARIABLES
  board,     \* tasks: status, assignee, the active run and whether it is claimed
  roster,    \* task_participants
  circumstances, \* its deadline has passed, its assignee was disabled
  sibling,   \* the dependent's other prerequisite is accepted
  decisions, \* decision_items about the task
  desk,      \* the calls under way
  toolCalls, \* how many were made
  runsMade,  \* worker_runs of the task
  verdicts,  \* reviews committed, by kind
  ledger,    \* task_outcomes, by kind
  announced, \* the event "dependency-ready" of the dependent was stored
  toldToStop, \* what workers were told to stop, except by an update without a change
  slips      \* follow-ups lost, items written late

deskVars ==
  <<board, roster, circumstances, sibling, decisions, desk, toolCalls, runsMade, verdicts,
    ledger, announced, toldToStop, slips>>

ledgers == <<verdicts, ledger, announced, toldToStop, slips>>

Kinds   == {"review", "overdue_task", "orphaned_task"}
Judging == {"accepted", "rejected"}
Owners  == {Manager} \cup People
NoTool  == [pc |-> "idle", tool |-> "none", who |-> "none", arg |-> "none",
            status |-> "none", assignee |-> "none", run |-> 0]

DeskInit ==
  /\ \E u \in People \cup Robots, status \in {"pending", "done"} :
       board = [status |-> status, assignee |-> u, claimed |-> FALSE,
                run |-> IF u \in Robots /\ status = "pending" THEN 1 ELSE 0]
  /\ roster \in Rosters
  /\ \A u \in People : u = board.assignee => roster[u] = "none"
  /\ circumstances \in [late : BOOLEAN, gone : {{}, {board.assignee}}]
  /\ sibling = FALSE
  /\ decisions = [o \in Owners |-> [k \in Kinds |-> "none"]]
  /\ desk = [c \in Desks |-> NoTool]
  /\ toolCalls = 0 /\ runsMade = 1
  /\ verdicts = [v \in Judging |-> 0] /\ ledger = [v \in Judging |-> 0]
  /\ announced = FALSE
  /\ toldToStop = {}
  /\ slips = {}

--------------------------------------------------------------------------------
(* The task *)

IsOpen == board.status \in {"pending", "in_progress", "awaiting_input"}

\* restartTaskWorkerRunTx: the active run ends, an active worker gets another.
Restarted(row) ==
  IF row.assignee \in Robots \ circumstances.gone
  THEN /\ runsMade < MaxDeskRuns
       /\ runsMade' = runsMade + 1
       /\ board' = [row EXCEPT !.run = runsMade + 1, !.claimed = FALSE]
  ELSE /\ board' = [row EXCEPT !.run = 0, !.claimed = FALSE]
       /\ UNCHANGED runsMade

\* updateTaskContent, reviseTaskForInputChangeTx: a worker starts over.
Revise ==
  IF board.assignee \in Robots
  THEN Restarted([board EXCEPT !.status = "pending"])
  ELSE UNCHANGED <<board, runsMade>>

\* cancelActiveWorkerRunsTx
RunsCancelled(status) ==
  /\ board' = [board EXCEPT !.status = status, !.run = 0, !.claimed = FALSE]
  /\ UNCHANGED runsMade

SubmittedStatus ==
  IF board.assignee = Manager /\ \A u \in People : roster[u] # "reviewer"
  THEN "accepted" ELSE "done"

--------------------------------------------------------------------------------
(* Tool calls *)

\* Steps of a call after its transaction.
After(tool) ==
  CASE tool \in {"accept", "sibling"} -> "fire"
    [] tool = "reject" -> "outcome"
    [] tool \in {"update", "cancel", "delete"} -> "stop"
    [] tool = "reassign" -> "close"
    [] OTHER -> "over"

Following(c) ==
  CASE desk[c].pc = "commit" -> After(desk[c].tool)
    [] desk[c].pc = "fire" /\ desk[c].tool = "accept" -> "outcome"
    [] desk[c].pc = "outcome" -> "close"
    [] desk[c].pc = "close" /\ desk[c].tool = "reassign" -> "stop"
    [] desk[c].pc = "stop" /\ desk[c].tool = "cancel" -> "close"
    [] OTHER -> "over"

Returns(c) == desk' = [desk EXCEPT ![c] = NoTool]

Proceeds(c) ==
  IF Following(c) = "over" THEN Returns(c) ELSE desk' = [desk EXCEPT ![c].pc = Following(c)]

Opens(c, tool, who, arg) ==
  /\ desk[c] = NoTool /\ toolCalls < MaxDeskCalls
  /\ toolCalls' = toolCalls + 1
  /\ desk' = [desk EXCEPT ![c] = [pc |-> "check", tool |-> tool, who |-> who, arg |-> arg,
                                  status |-> board.status, assignee |-> board.assignee,
                                  run |-> 0]]
  /\ UNCHANGED <<board, roster, circumstances, sibling, decisions, runsMade, ledgers>>

\* TaskByID
ReadTask(c, tool, who, arg) ==
  /\ board.status # "absent"
  /\ Opens(c, tool, who, arg)

\* TaskAccessForUser, with the task as it was read.
Has(c, role) == desk[c].who \in People /\ roster[desk[c].who] = role

MayContribute(c) == desk[c].who = desk[c].assignee \/ Has(c, "collaborator")

MayReview(c) == desk[c].who = Manager \/ Has(c, "reviewer")

MayManage(c) == desk[c].who = Manager

\* What the tools check before they change the task.
Allowed(c) ==
  CASE desk[c].tool \in {"pending", "in_progress", "done"} ->
         MayContribute(c) /\ desk[c].status \notin {"accepted", "cancelled"}
    [] desk[c].tool \in {"accept", "reject"} -> MayReview(c)
    [] desk[c].tool = "attach" -> MayContribute(c) \/ MayManage(c)
    [] desk[c].tool = "reassign" ->
         /\ MayManage(c) /\ desk[c].status \notin {"accepted", "done"}
         /\ desk[c].arg # desk[c].assignee
    [] OTHER -> MayManage(c)

\* ActiveWorkerRunForTask, by the tools that stop it afterwards.
CheckAccess(c) ==
  /\ desk[c].pc = "check"
  /\ IF Allowed(c)
     THEN desk' = [desk EXCEPT ![c].pc = "commit",
                               ![c].run = IF After(desk[c].tool) \in {"stop", "close"}
                                          THEN board.run ELSE 0]
     ELSE Returns(c)
  /\ UNCHANGED <<board, roster, circumstances, sibling, decisions, toolCalls, runsMade, ledgers>>

--------------------------------------------------------------------------------
(* The transactions *)

Commits(c, tool) ==
  /\ desk[c].pc = "commit" /\ desk[c].tool = tool
  /\ UNCHANGED <<circumstances, decisions, toolCalls, ledger, announced, toldToStop, slips>>

\* A transaction that does not find the task as it expects ends the call.
Continues(c, found) ==
  IF found THEN Proceeds(c) ELSE Returns(c)

NoChange == UNCHANGED <<board, runsMade>>

\* update_my_task_status
SetMyStatus(c, status) ==
  /\ Commits(c, status) /\ status \in {"pending", "in_progress"}
  /\ IF board.status \in {"accepted", "cancelled", "absent", status}
     THEN NoChange ELSE Restarted([board EXCEPT !.status = status])
  /\ Returns(c)
  /\ UNCHANGED <<roster, sibling, verdicts>>

Submits(c) ==
  /\ board.status \in {"pending", "in_progress"}
  /\ desk[c].who = board.assignee \/ Has(c, "collaborator")

SubmitResult(c) ==
  /\ Commits(c, "done")
  /\ IF Submits(c) THEN RunsCancelled(SubmittedStatus) ELSE NoChange
  /\ Returns(c)
  /\ UNCHANGED <<roster, sibling, verdicts>>

Judged(c, found, verdict) ==
  /\ Continues(c, found)
  /\ verdicts' = IF found THEN [verdicts EXCEPT ![verdict] = @ + 1] ELSE verdicts
  /\ UNCHANGED <<roster, sibling>>

Reviewable == board.status = "done"

\* accept_task
AcceptWork(c) ==
  /\ Commits(c, "accept")
  /\ board' = IF Reviewable THEN [board EXCEPT !.status = "accepted"] ELSE board
  /\ UNCHANGED runsMade
  /\ Judged(c, Reviewable, "accepted")

\* reject_task: a worker starts over, a person goes on.
RejectWork(c) ==
  /\ Commits(c, "reject")
  /\ IF Reviewable
     THEN Restarted([board EXCEPT !.status =
            IF board.assignee \in Robots THEN "pending" ELSE "in_progress"])
     ELSE NoChange
  /\ Judged(c, Reviewable, "rejected")

\* update_assigned_task; what it writes may be what the task says already.
UpdateAssigned(c, changes) ==
  /\ Commits(c, "update")
  /\ IF IsOpen /\ changes THEN Revise ELSE NoChange
  /\ IF IsOpen /\ ~changes
     THEN desk' = [desk EXCEPT ![c].pc = "stop", ![c].arg = "same"]
     ELSE Continues(c, IsOpen)
  /\ UNCHANGED <<roster, sibling, verdicts>>

\* attach_to_task; the file may be attached already.
Attach(c, inserted) ==
  /\ Commits(c, "attach")
  /\ IF IsOpen /\ inserted THEN Revise ELSE NoChange
  /\ Returns(c)
  /\ UNCHANGED <<roster, sibling, verdicts>>

\* reassign_task
Reassign(c) ==
  /\ Commits(c, "reassign")
  /\ Continues(c, IsOpen)
  /\ IF IsOpen /\ board.assignee # desk[c].arg
     THEN /\ Restarted([board EXCEPT !.status = "pending", !.assignee = desk[c].arg])
          /\ roster' = [u \in People |-> IF u = desk[c].arg THEN "none" ELSE roster[u]]
     ELSE NoChange /\ UNCHANGED roster
  /\ UNCHANGED <<sibling, verdicts>>

\* cancel_assigned_task, without a replacement.
CancelAssigned(c) ==
  LET found == IsOpen \/ board.status = "done"
  IN /\ Commits(c, "cancel")
     /\ IF found THEN RunsCancelled("cancelled") ELSE NoChange
     /\ Continues(c, found)
     /\ UNCHANGED <<roster, sibling, verdicts>>

\* delete_assigned_task
DeleteAssigned(c) ==
  /\ Commits(c, "delete")
  /\ Continues(c, board.status # "absent")
  /\ RunsCancelled("absent")
  /\ UNCHANGED <<roster, sibling, verdicts>>

\* set_task_participants
SetParticipants(c, asked) ==
  LET normal == [u \in People |-> IF u = board.assignee THEN "none" ELSE asked[u]]
      shared == board.assignee \notin Robots \/ \A u \in People : normal[u] # "collaborator"
  IN /\ Commits(c, "participants")
     /\ roster' = IF (IsOpen \/ board.status = "done") /\ shared THEN normal ELSE roster
     /\ Returns(c)
     /\ UNCHANGED <<board, sibling, runsMade, verdicts>>

\* The other prerequisite is accepted, with the follow-up that matters here.
AcceptSibling(c) ==
  /\ Commits(c, "sibling")
  /\ sibling' = TRUE
  /\ Proceeds(c)
  /\ UNCHANGED <<board, roster, runsMade, verdicts>>

--------------------------------------------------------------------------------
(* Following up *)

Follows(c, pc) ==
  /\ desk[c].pc = pc
  /\ Proceeds(c)
  /\ UNCHANGED <<board, roster, circumstances, sibling, toolCalls, runsMade, verdicts>>

ReadyDependents == sibling /\ board.status = "accepted"

\* Mistake: one of the ways to accept a task looks for no dependents.
FiresSometimes(c) == ReadyDependents /\ desk[c].tool = "accept"

FiresFor(c) == ReadyDependents

\* FireReadyDependents
FireReadyDependents(c) ==
  /\ Follows(c, "fire")
  /\ announced' = (announced \/ FiresFor(c))
  /\ UNCHANGED <<decisions, ledger, toldToStop, slips>>

VerdictOf(tool) == IF tool = "accept" THEN "accepted" ELSE "rejected"

RecordTaskOutcome(c) ==
  /\ Follows(c, "outcome")
  /\ ledger' = [ledger EXCEPT ![VerdictOf(desk[c].tool)] = @ + 1]
  /\ UNCHANGED <<decisions, announced, toldToStop, slips>>

\* Mistake: a finished task leaves the other items of its assigner open.
ClosesOne(tool) == IF tool = "reassign" THEN {"orphaned_task"} ELSE {"review"}

\* closeTaskDecisions, closeTaskDecisionsByKind
Closes(tool) == IF tool = "reassign" THEN {"orphaned_task"} ELSE Kinds

ItemsClosed(items, kinds) ==
  [k \in Kinds |-> IF k \in kinds /\ items[k] = "open" THEN "closed" ELSE items[k]]

\* Only the assigner's items are closed.
CloseDecisions(c) ==
  /\ Follows(c, "close")
  /\ decisions' = [decisions EXCEPT ![Manager] = ItemsClosed(@, Closes(desk[c].tool))]
  /\ UNCHANGED <<ledger, announced, toldToStop, slips>>

\* Mistake: the run to stop is looked up after the change.
ToStopNow(c) == board.run

\* The run that was active before the change.
ToStop(c) == desk[c].run

\* Whether the worker is told at all: an update only when it had read a task in hand.
TellsWorker(c) ==
  /\ desk[c].assignee \in Robots /\ ToStop(c) # 0
  /\ desk[c].tool = "update" => desk[c].status = "in_progress"

\* Workers.Cancel
StopWorker(c) ==
  /\ Follows(c, "stop")
  /\ toldToStop' = IF TellsWorker(c) /\ desk[c].arg # "same"
                   THEN toldToStop \cup {<<desk[c].assignee, ToStop(c)>>} ELSE toldToStop
  /\ UNCHANGED <<decisions, ledger, announced, slips>>

--------------------------------------------------------------------------------
(* The decision queue *)

\* TasksAwaitingReview, OverdueTasks and OrphanedTasks.
Concerns(owner, kind) ==
  CASE kind = "review" ->
         /\ board.status = "done"
         /\ \/ owner = Manager /\ board.assignee # Manager
            \/ owner \in People /\ roster[owner] = "reviewer"
    [] kind = "overdue_task" -> owner = Manager /\ IsOpen /\ circumstances.late
    [] OTHER -> owner = Manager /\ IsOpen /\ board.assignee \in circumstances.gone

NextKind(kind) ==
  CASE kind = "review" -> "overdue_task" [] kind = "overdue_task" -> "orphaned_task"
    [] OTHER -> "dangling"

\* refresh_decision_queue goes through the kinds, orphanTaskPass takes the last.
RefreshQueue(c, tool, owner) ==
  /\ tool \in {"queue", "pass"} /\ (tool = "pass" => owner = Manager)
  /\ desk[c] = NoTool /\ toolCalls < MaxDeskCalls
  /\ toolCalls' = toolCalls + 1
  /\ desk' = [desk EXCEPT ![c] = [NoTool EXCEPT !.pc = "list", !.tool = tool, !.who = owner,
                                   !.arg = IF tool = "queue" THEN "review" ELSE "orphaned_task"]]
  /\ UNCHANGED <<board, roster, circumstances, sibling, decisions, runsMade, ledgers>>

NextItem(c) ==
  IF NextKind(desk[c].arg) # "dangling"
  THEN desk' = [desk EXCEPT ![c].pc = "list", ![c].arg = NextKind(desk[c].arg)]
  ELSE IF desk[c].tool = "queue" THEN desk' = [desk EXCEPT ![c].pc = "dangling"]
  ELSE Returns(c)

ListItems(c) ==
  /\ desk[c].pc = "list"
  /\ IF Concerns(desk[c].who, desk[c].arg)
     THEN desk' = [desk EXCEPT ![c].pc = "put"] ELSE NextItem(c)
  /\ UNCHANGED <<board, roster, circumstances, sibling, decisions, toolCalls, runsMade, ledgers>>

\* UpsertDecisionItem: a closed item stays closed.
UpsertDecisionItem(c) ==
  LET owner == desk[c].who  kind == desk[c].arg
  IN /\ desk[c].pc = "put"
     /\ decisions' = [decisions EXCEPT ![owner][kind] = IF @ = "none" THEN "open" ELSE @]
     /\ slips' = IF Concerns(owner, kind) THEN slips ELSE slips \cup {"stale item"}
     /\ NextItem(c)
     /\ UNCHANGED <<board, roster, circumstances, sibling, toolCalls, runsMade, verdicts, ledger,
                    announced, toldToStop>>

closeDanglingTaskDecisionItems(c) ==
  /\ desk[c].pc = "dangling"
  /\ decisions' = IF board.status = "absent"
                  THEN [decisions EXCEPT ![desk[c].who] = ItemsClosed(@, Kinds)] ELSE decisions
  /\ Returns(c)
  /\ UNCHANGED <<board, roster, circumstances, sibling, toolCalls, runsMade, ledgers>>

--------------------------------------------------------------------------------
(* The worker, and failures *)

WorkerStarts ==
  /\ board.status \in {"pending", "in_progress"} /\ board.run # 0 /\ ~board.claimed
  /\ board.assignee \notin circumstances.gone
  /\ board' = [board EXCEPT !.status = "in_progress", !.claimed = TRUE]
  /\ UNCHANGED <<roster, circumstances, sibling, decisions, desk, toolCalls, runsMade, ledgers>>

\* The worker delivers its result, or asks for more.
WorkerEnds(status) ==
  /\ board.claimed /\ status \in {"done", "awaiting_input"}
  /\ board' = [board EXCEPT !.status = status, !.claimed = FALSE,
                            !.run = IF status = "done" THEN 0 ELSE @]
  /\ UNCHANGED <<roster, circumstances, sibling, decisions, desk, toolCalls, runsMade, ledgers>>

\* A follow-up that fails is skipped with a warning.
FollowUpFails(c) ==
  /\ desk[c].pc \in {"fire", "outcome", "close", "stop"}
  /\ Proceeds(c)
  /\ slips' = slips \cup {"lost follow-up"}
  /\ UNCHANGED <<board, roster, circumstances, sibling, decisions, toolCalls, runsMade, verdicts,
                 ledger, announced, toldToStop>>

\* An error the tool returns, or the process stops.
DeskCallDies(c) ==
  /\ desk[c] # NoTool
  /\ Returns(c)
  /\ slips' = IF desk[c].pc \in {"fire", "outcome", "close", "stop"}
              THEN slips \cup {"lost follow-up"} ELSE slips
  /\ UNCHANGED <<board, roster, circumstances, sibling, decisions, toolCalls, runsMade, verdicts,
                 ledger, announced, toldToStop>>

--------------------------------------------------------------------------------

StartsCall(c) ==
  \/ \E tool \in {"pending", "in_progress", "done", "attach"}, who \in Owners :
       ReadTask(c, tool, who, "none")
  \/ \E tool \in {"accept", "reject"}, who \in Owners : ReadTask(c, tool, who, "none")
  \/ \E tool \in {"update", "cancel", "delete", "participants"} :
       ReadTask(c, tool, Manager, "none")
  \/ \E to \in (Owners \cup Robots) \ circumstances.gone : ReadTask(c, "reassign", Manager, to)
  \/ ~sibling /\ Opens(c, "sibling", Manager, "none")
  \/ \E tool \in {"queue", "pass"}, owner \in Owners : RefreshQueue(c, tool, owner)

CommitsCall(c) ==
  \/ \E status \in {"pending", "in_progress"} : SetMyStatus(c, status)
  \/ SubmitResult(c)
  \/ AcceptWork(c)
  \/ RejectWork(c)
  \/ \E new \in BOOLEAN : UpdateAssigned(c, new) \/ Attach(c, new)
  \/ Reassign(c)
  \/ CancelAssigned(c)
  \/ DeleteAssigned(c)
  \/ \E asked \in Rosters : SetParticipants(c, asked)
  \/ AcceptSibling(c)

DeskNext ==
  \/ \E c \in Desks :
       \/ StartsCall(c)
       \/ CheckAccess(c)
       \/ CommitsCall(c)
       \/ FireReadyDependents(c)
       \/ RecordTaskOutcome(c)
       \/ CloseDecisions(c)
       \/ StopWorker(c)
       \/ ListItems(c)
       \/ UpsertDecisionItem(c)
       \/ closeDanglingTaskDecisionItems(c)
       \/ FollowUpFails(c)
       \/ DeskCallDies(c)
  \/ WorkerStarts
  \/ \E status \in {"done", "awaiting_input"} : WorkerEnds(status)

DeskSpec == DeskInit /\ [][DeskNext]_deskVars

--------------------------------------------------------------------------------

AtRest == \A c \in Desks : desk[c] = NoTool

(* However late a worker is told to stop, it is never a run it still has in hand: *)
(* the change before it ended that run, and a later one has another number.  Only  *)
(* an update that changed nothing stops a worker that had to go on.                *)
StopsAreDue ==
  \A stop \in toldToStop : ~(board.assignee = stop[1] /\ board.run = stop[2])

(* However many reviewers decide at a time, the ledger that later assignments are  *)
(* ranked by has no more rows than there were verdicts of the kind, and it has      *)
(* every verdict when no follow-up was lost.                                        *)
LedgerIsTrue ==
  \A v \in Judging : /\ ledger[v] <= verdicts[v]
                     /\ AtRest /\ "lost follow-up" \notin slips => ledger[v] = verdicts[v]

(* When the last two prerequisites of a task are accepted at the same time, one of  *)
(* the two calls sees both and announces the task, and no call announces it early.      *)
DependentIsAnnounced ==
  /\ announced => sibling
  /\ AtRest /\ "lost follow-up" \notin slips /\ verdicts["accepted"] > 0 /\ sibling
     /\ board.status = "accepted" => announced

Finished ==
  board.status = "cancelled" \/ (board.status = "accepted" /\ verdicts["accepted"] > 0)

(* A task that was accepted by a reviewer or cancelled leaves no decision item of    *)
(* its assigner open, unless a follow-up was lost or a refresh of the queue wrote     *)
(* an item after what it had read changed.                                            *)
FinishedLeavesNoDecision ==
  AtRest /\ slips = {} /\ Finished =>
    \A k \in Kinds : decisions[Manager][k] # "open"

(* What the tools leave behind agrees with what happened to the task. *)
DeskIsTrue ==
  /\ StopsAreDue
  /\ LedgerIsTrue
  /\ DependentIsAnnounced
  /\ FinishedLeavesNoDecision
================================================================================
