------------------------------- MODULE TaskBoard -------------------------------
(***************************************************************************)
(* The business core of nbco: the tables tasks, task_participants,         *)
(* worker_runs and worker_run_attempts of one project, the users of the    *)
(* project, and one action per transaction of package store that changes   *)
(* them.                                                                   *)
(*                                                                         *)
(* A task is a business requirement.  Its row carries a revision that every *)
(* business change raises.  A worker run is one queued execution, bound to *)
(* the revision of the task it was created for (or to no task: a direct    *)
(* run).  An attempt is one lease of a run, identified by a random claim.  *)
(*                                                                         *)
(* Every transaction takes its row locks in the order task, run, attempt,  *)
(* so each is one atomic action here.  What the state machine never reads  *)
(* (titles, progress entries, watchers, files, evidence) is left out.      *)
(***************************************************************************)
EXTENDS Integers, FiniteSets

CONSTANTS
  Humans,        \* users who are people; they stay active
  Workers,       \* users with is_worker = TRUE
  Assigners,     \* the users who call assign_task
  Items,         \* what identifies a deliverable: title, goal, description, acceptance
  Rosters,       \* participant lists callers send: functions from users to roles
  RunIds,        \* ids of worker_runs rows
  Claims,        \* random claim ids
  MaxTasks,      \* bound: number of task ids
  MaxRevision,   \* bound: revisions of one task
  MaxDeps,       \* bound: prerequisites named in one assign_task
  MaxChildren,   \* bound: subtasks of one split
  MaxFailures,   \* workerMaxFailures: failures before a run waits for input
  NoUser, NoItem, NoRun, NoClaim   \* the NULLs of the columns

Users   == Humans \cup Workers
TaskIds == 1 .. MaxTasks
Roles   == {"none", "collaborator", "reviewer"}

ASSUME BoundsAssumption ==
  /\ MaxTasks \in Nat
  /\ MaxRevision \in Nat \ {0}
  /\ MaxDeps \in Nat
  /\ MaxChildren \in Nat
  /\ MaxFailures \in Nat \ {0}

ASSUME UsersAssumption ==
  /\ Humans \cap Workers = {}
  /\ Assigners \subseteq Users
  /\ Rosters \subseteq [Users -> Roles]

ASSUME NullsAssumption ==
  /\ NoUser \notin Users
  /\ NoItem \notin Items
  /\ NoRun \notin RunIds
  /\ NoClaim \notin Claims

VARIABLES
  task,      \* tasks with their task_participants, by id
  run,       \* worker_runs, by id
  attempt,   \* worker_run_attempts, by claim id
  active     \* the workers whose users.status is 'active'

vars == <<task, run, attempt, active>>

--------------------------------------------------------------------------------
(* Rows *)

OpenStatuses    == {"pending", "in_progress", "awaiting_input"}
ClosedStatuses  == {"accepted", "split", "cancelled"}
EndedStatuses   == {"accepted", "cancelled"}
TaskStatuses    == OpenStatuses \cup {"done"} \cup ClosedStatuses
ActiveRunStatuses == {"queued", "claimed", "retry_wait", "awaiting_input"}
RunStatuses     == ActiveRunStatuses \cup {"completed", "cancelled"}
AttemptStatuses == {"claimed", "released", "expired", "retry_wait",
                    "awaiting_input", "completed", "cancelled"}

\* "absent": the id has not been used; "gone": the row was deleted.
Task == [status : TaskStatuses \cup {"absent", "gone"}, revision : Nat,
         assigner : Users \cup {NoUser}, assignee : Users \cup {NoUser},
         parent : TaskIds \cup {0}, deps : SUBSET TaskIds,
         role : [Users -> Roles], item : Items \cup {NoItem}]

\* age is the time since claimed_at: below the delivery timeout (one minute),
\* below the claim timeout (three hours), or beyond it.
Run == [status : RunStatuses \cup {"absent", "gone"}, task : TaskIds \cup {0},
        revision : Nat, worker : Workers \cup {NoUser}, claim : Claims \cup {NoClaim},
        failures : Nat, ready : BOOLEAN, age : {"fresh", "overdue", "stale"}]

Attempt == [status : AttemptStatuses \cup {"absent", "gone"},
            run : RunIds \cup {NoRun}, acked : BOOLEAN]

NoRoles   == [u \in Users |-> "none"]
BlankTask == [status |-> "absent", revision |-> 0, assigner |-> NoUser, assignee |-> NoUser,
              parent |-> 0, deps |-> {}, role |-> NoRoles, item |-> NoItem]
BlankRun  == [status |-> "absent", task |-> 0, revision |-> 0, worker |-> NoUser,
              claim |-> NoClaim, failures |-> 0, ready |-> FALSE, age |-> "fresh"]
BlankAttempt == [status |-> "absent", run |-> NoRun, acked |-> FALSE]

NewTask(assigner, assignee, parent, deps, item) ==
  [status |-> "pending", revision |-> 1, assigner |-> assigner, assignee |-> assignee,
   parent |-> parent, deps |-> deps, role |-> NoRoles, item |-> item]

\* Mistake: the run is bound to the first revision of its task.
FirstRevisionRun(t, revision, w) ==
  [BlankRun EXCEPT !.status = "queued", !.task = t, !.revision = 1, !.worker = w, !.ready = TRUE]

\* A run as createWorkerRunTx inserts it.
NewRun(t, revision, w) ==
  [BlankRun EXCEPT !.status = "queued", !.task = t, !.revision = revision,
                   !.worker = w, !.ready = TRUE]

Init ==
  /\ task = [t \in TaskIds |-> BlankTask]
  /\ run = [r \in RunIds |-> BlankRun]
  /\ attempt = [c \in Claims |-> BlankAttempt]
  /\ active = Workers

Present(t)   == task[t].status \in TaskStatuses
ActiveRun(r) == run[r].status \in ActiveRunStatuses

\* The id the tasks sequence hands out next.
NextTaskId(t) == \A u \in TaskIds : u < t <=> task[u].status # "absent"

MayRevise(t) == task[t].revision < MaxRevision

\* Mistake: the status changes under the same revision.
NotRevised(t, status) == [task[t] EXCEPT !.status = status]

\* Row t with a new status and the next revision.
Revised(t, status) == [task[t] EXCEPT !.status = status, !.revision = @ + 1]

--------------------------------------------------------------------------------
(* Completion and its propagation to the parent *)

\* Mistake: a status name the schema does not know.
UnknownStatus(row) == IF row.assigner = row.assignee THEN "completed" ELSE "done"

\* successfulTaskCompletionStatusSQL
CompletionStatus(row) ==
  IF row.assigner = row.assignee /\ \A u \in Users : row.role[u] # "reviewer"
  THEN "accepted" ELSE "done"

\* Mistake: a submitted child counts as finished before its review.
SubmittedCounts(row) == row.status \in {"accepted", "cancelled", "done"}

\* The children cascadeUp no longer waits for.
Settled(row) == row.status \in {"accepted", "cancelled"}

\* Mistake: only the direct parent is completed.
OneLevelOnly(tab, parent, chain) ==
  chain = {a \in TaskIds : /\ a = parent /\ tab[a].status = "split"
                           /\ \A k \in TaskIds : tab[k].parent = a => Settled(tab[k])}

\* The ancestors cascadeUp completes when it starts at parent in table tab:
\* each is split, has only ended children, and lies directly above the start
\* or above a completed ancestor that was itself accepted.
IsCascade(tab, parent, chain) ==
  \A a \in TaskIds :
    a \in chain <=>
      /\ tab[a].status = "split"
      /\ \/ a = parent
         \/ \E k \in chain : tab[k].parent = a /\ CompletionStatus(tab[k]) = "accepted"
      /\ \A k \in TaskIds : tab[k].parent = a =>
           \/ Settled(tab[k])
           \/ k \in chain /\ CompletionStatus(tab[k]) = "accepted"

Completed(tab, chain) ==
  [t \in TaskIds |-> IF t \in chain
                     THEN [tab[t] EXCEPT !.status = CompletionStatus(tab[t]), !.revision = @ + 1]
                     ELSE tab[t]]

\* cascadeUp as the last write of a transaction that leaves table tab.
CascadeUp(tab, parent) ==
  \E chain \in SUBSET {a \in TaskIds : tab[a].status = "split"} :
    /\ IsCascade(tab, parent, chain)
    /\ \A t \in chain : MayRevise(t)
    /\ task' = Completed(tab, chain)

--------------------------------------------------------------------------------
(* The execution queue of a task *)

\* Mistake: the run keeps the claim of the lease that ended.
ClaimKept(r, status) ==
  [run[r] EXCEPT !.status = status, !.ready = FALSE, !.age = "fresh"]

EndedRun(r, status) ==
  [run[r] EXCEPT !.status = status, !.claim = NoClaim, !.ready = FALSE, !.age = "fresh"]

\* Mistake: the runs are cancelled but their attempts stay live.
AttemptsKept(ended) == attempt

\* The runs in ended are cancelled together with their live attempts.
CancelledAttempts(ended) ==
  [c \in Claims |-> IF attempt[c].run \in ended /\ attempt[c].status = "claimed"
                    THEN [attempt[c] EXCEPT !.status = "cancelled"] ELSE attempt[c]]

\* Mistake: a run waiting for input is not counted as active.
RunsExceptWaiting(T) ==
  {r \in RunIds : run[r].status \in {"queued", "claimed", "retry_wait"} /\ run[r].task \in T}

\* Mistake: a leased run is left to its worker.
RunsExceptClaimed(T) ==
  {r \in RunIds : ActiveRun(r) /\ run[r].status # "claimed" /\ run[r].task \in T}

\* The runs of the tasks in T that cancelActiveWorkerRunsTx cancels.
ActiveRunsOf(T) == {r \in RunIds : ActiveRun(r) /\ run[r].task \in T}

\* cancelActiveWorkerRunsTx
CancelRuns(T) ==
  /\ run' = [r \in RunIds |-> IF r \in ActiveRunsOf(T) THEN EndedRun(r, "cancelled") ELSE run[r]]
  /\ attempt' = CancelledAttempts(ActiveRunsOf(T))

\* cancelActiveWorkerRunsTx for the tasks in T, then enqueueTaskWorkerRunTx for
\* those in wanted, at the revision and assignee they have in table tab.  Only
\* an active worker gets a run.
Requeue(tab, T, wanted) ==
  LET needed == {t \in wanted : tab[t].assignee \in active}
      free   == {r \in RunIds : run[r].status = "absent"}
  IN \E job \in [free -> needed \cup {0}] :
       /\ \A t \in needed : \E r \in free : job[r] = t
       /\ \A r, q \in free : job[r] = job[q] /\ job[r] # 0 => r = q
       /\ run' = [r \in RunIds |->
                    IF r \in free
                    THEN IF job[r] = 0 THEN run[r]
                         ELSE NewRun(job[r], tab[job[r]].revision, tab[job[r]].assignee)
                    ELSE IF r \in ActiveRunsOf(T) THEN EndedRun(r, "cancelled") ELSE run[r]]
       /\ attempt' = CancelledAttempts(ActiveRunsOf(T))

\* restartTaskWorkerRunTx as the end of a transaction that leaves table tab.
Restart(tab, t) ==
  /\ task' = tab
  /\ Requeue(tab, {t}, {t})

--------------------------------------------------------------------------------
(* Participants *)

\* Mistake: the assigner may be listed as a participant.
AssignerListed(row, roster) ==
  [u \in Users |-> IF u = row.assignee THEN "none" ELSE roster[u]]

\* normalizeParticipantInputs: the assigner and the assignee take no other role.
Normal(row, roster) ==
  [u \in Users |-> IF u \in {row.assigner, row.assignee} THEN "none" ELSE roster[u]]

Named(roster) == {u \in Users : roster[u] # "none"}

\* validateTaskParticipantUsersTx
RosterAllowed(row, roster) ==
  Named(roster) # {} =>
    /\ row.assignee \in Humans \cup active
    /\ row.assignee \in Workers => \A u \in Users : roster[u] # "collaborator"
    /\ Named(roster) \cap Workers = {}

\* upsertTaskParticipantsTx
Upserted(row, roster) ==
  [u \in Users |-> IF roster[u] # "none" THEN roster[u] ELSE row.role[u]]

--------------------------------------------------------------------------------
(* Creating work *)

\* createTaskTx followed by upsertTaskParticipantsTx in CreateOrMergeTask.
CreateTask(t, assigner, assignee, deps, item, roster) ==
  LET row    == NewTask(assigner, assignee, 0, deps, item)
      normal == Normal(row, roster)
  IN /\ NextTaskId(t)
     /\ \A d \in deps : Present(d)
     /\ RosterAllowed(row, normal)
     /\ Restart([task EXCEPT ![t] = [row EXCEPT !.role = Upserted(row, normal)]], t)
     /\ UNCHANGED active

\* The open tasks an equal assignment is merged into; the oldest is taken.
Equivalent(assigner, item) ==
  {t \in TaskIds : /\ task[t].status \in OpenStatuses \cup {"done"}
                   /\ task[t].parent = 0
                   /\ task[t].assigner = assigner
                   /\ task[t].item = item}

\* The merge branch of CreateOrMergeTask.  tighter: the assignment raises the
\* priority, shortens the deadline or fills in the kind or the milestone.
MergeTask(t, assignee, deps, tighter, roster) ==
  LET added   == deps \ task[t].deps
      changed == tighter \/ added # {}
      revised == IF changed
                 THEN [Revised(t, task[t].status) EXCEPT !.deps = @ \cup deps]
                 ELSE task[t]
      named   == IF assignee # task[t].assignee /\ roster[assignee] = "none"
                 THEN [roster EXCEPT ![assignee] = "collaborator"] ELSE roster
      normal  == Normal(revised, named)
      tab     == [task EXCEPT ![t] = [revised EXCEPT !.role = Upserted(revised, normal)]]
  IN /\ \A d \in added : d < t /\ Present(d)
     /\ RosterAllowed(revised, normal)
     /\ IF changed THEN MayRevise(t) /\ Restart(tab, t)
                   ELSE task' = tab /\ UNCHANGED <<run, attempt>>
     /\ UNCHANGED active

\* CreateOrMergeTask, behind the tool assign_task: an equal open task absorbs
\* the assignment unless the caller sets allow_parallel.
AssignTask(assigner, assignee, deps, item, roster) ==
  LET same == Equivalent(assigner, item)
  IN \/ \E t \in TaskIds : CreateTask(t, assigner, assignee, deps, item, roster)
     \/ \E t \in same, tighter \in BOOLEAN :
          /\ \A u \in same : t <= u
          /\ MergeTask(t, assignee, deps, tighter, roster)

\* SplitTask: the children take the next ids; their assigner is the parent's
\* assignee, the only user split_my_task accepts.
SplitTask(p, kids, owner) ==
  LET tab == [t \in TaskIds |->
                IF t = p THEN Revised(p, "split")
                ELSE IF t \in kids
                     THEN NewTask(task[p].assignee, owner[t], p, {}, task[p].item)
                     ELSE task[t]]
  IN /\ task[p].status \in OpenStatuses
     /\ MayRevise(p)
     /\ task' = tab
     /\ Requeue(tab, {p}, kids)
     /\ UNCHANGED active

--------------------------------------------------------------------------------
(* Changing open work *)

\* UpdateTaskStatus
UpdateTaskStatus(t, status) ==
  /\ task[t].status \in OpenStatuses \cup {"done"}
  /\ status # task[t].status
  /\ MayRevise(t)
  /\ Restart([task EXCEPT ![t] = Revised(t, status)], t)
  /\ UNCHANGED active

\* ReassignTaskWithProgress: only the new assignee's own role is dropped.
ReassignTask(t, assignee) ==
  /\ task[t].status \in OpenStatuses
  /\ assignee # task[t].assignee
  /\ MayRevise(t)
  /\ Restart([task EXCEPT ![t] = [Revised(t, "pending") EXCEPT
                !.assignee = assignee, !.role[assignee] = "none"]], t)
  /\ UNCHANGED active

\* updateTaskContent and AddAttachmentOnce: a worker starts over, a person goes
\* on.  The text that identifies the deliverable may change with the content.
UpdateContent(t, item) ==
  /\ task[t].status \in OpenStatuses
  /\ MayRevise(t)
  /\ IF task[t].assignee \in Workers
     THEN Restart([task EXCEPT ![t] = [Revised(t, "pending") EXCEPT !.item = item]], t)
     ELSE /\ task' = [task EXCEPT ![t] = [Revised(t, @.status) EXCEPT !.item = item]]
          /\ UNCHANGED <<run, attempt>>
  /\ UNCHANGED active

\* ReplaceTaskParticipants
ReplaceParticipants(t, roster) ==
  /\ task[t].status \in OpenStatuses \cup {"done"}
  /\ RosterAllowed(task[t], Normal(task[t], roster))
  /\ task' = [task EXCEPT ![t].role = Normal(task[t], roster)]
  /\ UNCHANGED <<run, attempt, active>>

--------------------------------------------------------------------------------
(* Submission and review *)

\* SubmitTaskBy, by the assignee or a collaborator.
SubmitTask(t) ==
  LET status == CompletionStatus(task[t])
      tab    == [task EXCEPT ![t] = Revised(t, status)]
  IN /\ task[t].status \in {"pending", "in_progress"}
     /\ MayRevise(t)
     /\ CancelRuns({t})
     /\ IF status = "accepted" THEN CascadeUp(tab, task[t].parent) ELSE task' = tab
     /\ UNCHANGED active

\* AcceptTask
AcceptTask(t) ==
  /\ task[t].status = "done"
  /\ MayRevise(t)
  /\ CascadeUp([task EXCEPT ![t] = Revised(t, "accepted")], task[t].parent)
  /\ UNCHANGED <<run, attempt, active>>

\* RejectTask
RejectTask(t) ==
  /\ task[t].status = "done"
  /\ MayRevise(t)
  /\ Restart([task EXCEPT ![t] =
       Revised(t, IF @.assignee \in Workers THEN "pending" ELSE "in_progress")], t)
  /\ UNCHANGED active

--------------------------------------------------------------------------------
(* Withdrawing work *)

\* The participants of t a replacement s does not have yet, and the person who
\* owned t.
Migrated(t, s) ==
  Normal(task[s], [u \in Users |->
    IF task[s].role[u] # "none" \/ u \in Workers THEN "none"
    ELSE IF task[t].role[u] # "none" THEN task[t].role[u]
    ELSE IF u = task[t].assignee THEN "collaborator" ELSE "none"])

\* Of these, what s takes over: a worker shares its task with no collaborator.
Gained(t, s) ==
  [u \in Users |-> IF task[s].assignee \in Workers /\ Migrated(t, s)[u] = "collaborator"
                   THEN "none" ELSE Migrated(t, s)[u]]

\* Mistake: a replacement that waited for the cancelled task waits for itself.
RewiredToSelf(d, t, s) ==
  IF t \in task[d].deps THEN (task[d].deps \ {t}) \cup ({s} \ {0}) ELSE task[d].deps

\* Prerequisites of d after t was cancelled in favour of s (0: of nothing).
Rewired(d, t, s) ==
  IF t \in task[d].deps
  THEN (task[d].deps \ {t}) \cup ({s} \ {0, d}) ELSE task[d].deps

\* CancelTask
CancelTask(t, s) ==
  LET gained == IF s = 0 THEN NoRoles ELSE Gained(t, s)
      tab    == [d \in TaskIds |->
                   [(IF d = t THEN Revised(t, "cancelled") ELSE task[d]) EXCEPT
                      !.deps = Rewired(d, t, s),
                      !.role = IF d = s THEN Upserted(task[s], gained) ELSE @]]
  IN /\ task[t].status \in OpenStatuses \cup {"done"}
     /\ MayRevise(t)
     /\ s # 0 => /\ s # t
                 /\ Present(s)
                 /\ task[s].status # "cancelled"
                 /\ task[s].parent = task[t].parent
                 /\ Named(Migrated(t, s)) # {} => task[s].assignee \in Humans \cup active
                 /\ \A d \in TaskIds : t \in task[d].deps /\ d # s => s < d
     /\ CancelRuns({t})
     /\ CascadeUp(tab, task[t].parent)
     /\ UNCHANGED active

\* The subtree below t, as DeleteTask's recursive query collects it.
IsSubtree(t, tree) ==
  \A k \in TaskIds : k \in tree <=> (k = t \/ (Present(k) /\ task[k].parent \in tree))

\* DeleteTask: the rows of the tree go, and with them their runs and attempts.
DeleteTask(t) ==
  /\ Present(t)
  /\ \E tree \in SUBSET {k \in TaskIds : Present(k)} :
       LET lost == {r \in RunIds : run[r].task \in tree}
       IN /\ IsSubtree(t, tree)
          /\ task' = [k \in TaskIds |->
                        IF k \in tree THEN [BlankTask EXCEPT !.status = "gone"]
                        ELSE [task[k] EXCEPT !.deps = @ \ tree]]
          /\ run' = [r \in RunIds |->
                       IF r \in lost THEN [BlankRun EXCEPT !.status = "gone"] ELSE run[r]]
          /\ attempt' = [c \in Claims |->
                           IF attempt[c].run \in lost
                           THEN [BlankAttempt EXCEPT !.status = "gone"] ELSE attempt[c]]
  /\ UNCHANGED active

--------------------------------------------------------------------------------
(* Workers and direct runs *)

\* SetUserStatus on a worker: tools disable_user and enable_user.
DisableWorker(w) ==
  /\ w \in active
  /\ active' = active \ {w}
  /\ UNCHANGED <<task, run, attempt>>

EnableWorker(w) ==
  /\ w \in Workers \ active
  /\ active' = active \cup {w}
  /\ UNCHANGED <<task, run, attempt>>

\* RevokeWorker
RevokeWorker(w) ==
  LET held == {t \in TaskIds : task[t].status \in OpenStatuses /\ task[t].assignee = w}
      lost == {r \in RunIds : ActiveRun(r) /\ run[r].worker = w}
  IN /\ \A t \in held : MayRevise(t)
     /\ active' = active \ {w}
     /\ task' = [t \in TaskIds |-> IF t \in held THEN Revised(t, "pending") ELSE task[t]]
     /\ run' = [r \in RunIds |-> IF r \in lost THEN EndedRun(r, "cancelled") ELSE run[r]]
     /\ attempt' = CancelledAttempts({r \in RunIds : run[r].worker = w})

\* CreateWorkerRun: a direct run has no task.
CreateWorkerRun(w) ==
  /\ w \in active
  /\ \E r \in RunIds : /\ run[r].status = "absent"
                       /\ run' = [run EXCEPT ![r] = NewRun(0, 0, w)]
  /\ UNCHANGED <<task, attempt, active>>

\* CancelWorkerRun accepts direct runs only.
CancelWorkerRun(r) ==
  /\ ActiveRun(r)
  /\ run[r].task = 0
  /\ run' = [run EXCEPT ![r] = EndedRun(r, "cancelled")]
  /\ attempt' = CancelledAttempts({r})
  /\ UNCHANGED <<task, active>>

--------------------------------------------------------------------------------
(* Leases *)

\* A claimed run is held until the claim timeout, but only until the delivery
\* timeout as long as its worker has not acknowledged it.
Held(r) ==
  /\ run[r].status = "claimed"
  /\ \/ run[r].age = "fresh"
     \/ run[r].age = "overdue" /\ attempt[run[r].claim].acked

\* Mistake: finished runs are cancelled too.
AllOutdated(w) ==
  {r \in RunIds : /\ run[r].status \notin {"absent", "gone"}
                  /\ run[r].worker = w
                  /\ run[r].task # 0
                  /\ run[r].revision # task[run[r].task].revision}

\* Active runs of w whose task has been revised since: ClaimNextWorkerRun
\* cancels them first.
Outdated(w) ==
  {r \in RunIds : /\ ActiveRun(r)
                  /\ run[r].worker = w
                  /\ run[r].task # 0
                  /\ run[r].revision # task[run[r].task].revision}

\* Mistake: prerequisites are not looked at.
ReadyRegardless(r) ==
  LET t == run[r].task
  IN t # 0 => /\ task[t].assignee = run[r].worker
              /\ task[t].revision = run[r].revision
              /\ task[t].status \in {"pending", "in_progress"}

\* The task condition of the candidate query: still the worker's, unrevised,
\* and every prerequisite that exists accepted.
TaskReady(r) ==
  LET t == run[r].task
  IN t # 0 => /\ task[t].assignee = run[r].worker
              /\ task[t].revision = run[r].revision
              /\ task[t].status \in {"pending", "in_progress"}
              /\ \A d \in task[t].deps : Present(d) => task[d].status = "accepted"

\* What the candidate query may return for worker w.
Offerable(r, w) ==
  /\ run[r].worker = w
  /\ \/ run[r].status \in {"queued", "retry_wait"} /\ run[r].ready
     \/ run[r].status = "claimed" /\ ~Held(r)
  /\ TaskReady(r)

\* Mistake: expired leases are not offered before the queue.
AnyOrder(r, w, candidates) == TRUE

\* ORDER BY (r.status = 'claimed') DESC: expired leases come first.  Priority
\* and age order the others, which is any order here.
FirstInLine(r, w, candidates) ==
  run[r].status = "claimed" \/
    \A q \in candidates : run[q].status = "claimed" => ~Offerable(q, w)

\* ClaimNextWorkerRun: a transaction that finds no candidate rolls back.
ClaimNext(w, r, c) ==
  LET outdated == Outdated(w)
      t        == run[r].task
      dropped  == CancelledAttempts(outdated)
  IN /\ w \in active
     /\ attempt[c].status = "absent"
     /\ Offerable(r, w)
     /\ \A q \in RunIds \ outdated : run[q].worker = w => ~Held(q)
     /\ FirstInLine(r, w, RunIds \ outdated)
     /\ task' = IF t = 0 THEN task ELSE [task EXCEPT ![t].status = "in_progress"]
     /\ run' = [q \in RunIds |->
                  IF q = r THEN [run[r] EXCEPT !.status = "claimed", !.claim = c,
                                               !.ready = FALSE, !.age = "fresh"]
                  ELSE IF q \in outdated THEN EndedRun(q, "cancelled") ELSE run[q]]
     /\ attempt' = [b \in Claims |->
                      IF b = c THEN [status |-> "claimed", run |-> r, acked |-> FALSE]
                      ELSE IF run[r].status = "claimed" /\ b = run[r].claim
                           THEN [attempt[b] EXCEPT !.status = "expired"]
                           ELSE dropped[b]]
     /\ UNCHANGED active

\* The exact lease every worker request must still hold.
Leased(r, c) ==
  /\ run[r].status = "claimed"
  /\ run[r].claim = c
  /\ attempt[c].status = "claimed"
  /\ attempt[c].run = r

EndLease(r, c, row, status) ==
  /\ run' = [run EXCEPT ![r] = row]
  /\ attempt' = [attempt EXCEPT ![c].status = status]

\* ReleaseWorkerRunClaim: the claim response did not reach the worker.
ReleaseClaim(r, c) ==
  /\ Leased(r, c)
  /\ EndLease(r, c, [EndedRun(r, "queued") EXCEPT !.ready = TRUE], "released")
  /\ UNCHANGED <<task, active>>

\* HeartbeatWorkerRun and AddWorkerRunProgress
RenewLease(r, c) ==
  /\ Leased(r, c)
  /\ run' = [run EXCEPT ![r].age = "fresh"]
  /\ attempt' = [attempt EXCEPT ![c].acked = TRUE]
  /\ UNCHANGED <<task, active>>

\* The row condition on tasks in every transaction that ends a lease.
TaskInHand(r) ==
  LET t == run[r].task
  IN t # 0 => /\ task[t].assignee = run[r].worker
              /\ task[t].revision = run[r].revision
              /\ task[t].status = "in_progress"

\* The task table after the task of run r took a new status without a revision.
WithStatus(r, status) ==
  IF run[r].task = 0 THEN task ELSE [task EXCEPT ![run[r].task].status = status]

\* RequestWorkerRunInput
RequestInput(r, c) ==
  /\ Leased(r, c)
  /\ TaskInHand(r)
  /\ EndLease(r, c, EndedRun(r, "awaiting_input"), "awaiting_input")
  /\ task' = WithStatus(r, "awaiting_input")
  /\ UNCHANGED active

\* FailWorkerRun
FailRun(r, c) ==
  LET failures == run[r].failures + 1
      blocked  == failures >= MaxFailures
      status   == IF blocked THEN "awaiting_input" ELSE "retry_wait"
  IN /\ Leased(r, c)
     /\ TaskInHand(r)
     /\ EndLease(r, c, [EndedRun(r, status) EXCEPT !.failures = failures], status)
     /\ task' = WithStatus(r, IF blocked THEN "awaiting_input" ELSE "pending")
     /\ UNCHANGED active

\* completeWorkerRun; a reported failure always goes to review.
CompleteRun(r, c, succeeded) ==
  LET t      == run[r].task
      status == IF succeeded THEN CompletionStatus(task[t]) ELSE "done"
      tab    == [task EXCEPT ![t] = Revised(t, status)]
  IN /\ Leased(r, c)
     /\ TaskInHand(r)
     /\ EndLease(r, c, EndedRun(r, "completed"), "completed")
     /\ IF t = 0 THEN task' = task
        ELSE /\ MayRevise(t)
             /\ IF status = "accepted" THEN CascadeUp(tab, task[t].parent) ELSE task' = tab
     /\ UNCHANGED active

\* Time passes: a lease crosses the delivery timeout, then the claim timeout.
LeaseAges(r) ==
  /\ run[r].status = "claimed"
  /\ run[r].age # "stale"
  /\ run' = [run EXCEPT ![r].age = IF @ = "fresh" THEN "overdue" ELSE "stale"]
  /\ UNCHANGED <<task, attempt, active>>

\* Time passes: available_at of a failed run is reached.
BackoffElapses(r) ==
  /\ run[r].status = "retry_wait"
  /\ ~run[r].ready
  /\ run' = [run EXCEPT ![r].ready = TRUE]
  /\ UNCHANGED <<task, attempt, active>>

--------------------------------------------------------------------------------
AssignSome ==
  \E assigner \in Assigners, assignee \in Users, deps \in SUBSET TaskIds, item \in Items,
     roster \in Rosters :
    /\ Cardinality(deps) <= MaxDeps
    /\ AssignTask(assigner, assignee, deps, item, roster)

NextTaskIds(ids) ==
  /\ \A k \in ids : task[k].status = "absent"
  /\ \A k \in TaskIds : task[k].status = "absent" /\ (\E l \in ids : k < l) => k \in ids

SplitSome ==
  \E p \in TaskIds, kids \in SUBSET TaskIds :
    /\ Cardinality(kids) \in 1 .. MaxChildren
    /\ NextTaskIds(kids)
    /\ \E owner \in [kids -> Users] : SplitTask(p, kids, owner)

EditTask(t) ==
  \/ \E status \in {"pending", "in_progress"} : UpdateTaskStatus(t, status)
  \/ \E u \in Users : ReassignTask(t, u)
  \/ \E item \in Items : UpdateContent(t, item)
  \/ \E roster \in Rosters : ReplaceParticipants(t, roster)

ReviewTask(t) == SubmitTask(t) \/ AcceptTask(t) \/ RejectTask(t)

WithdrawTask(t) == DeleteTask(t) \/ \E s \in TaskIds \cup {0} : CancelTask(t, s)

ManageWorker(w) ==
  DisableWorker(w) \/ EnableWorker(w) \/ RevokeWorker(w) \/ CreateWorkerRun(w)

ExecuteRun(r) ==
  \/ CancelWorkerRun(r)
  \/ \E c \in Claims :
       \/ \E w \in Workers : ClaimNext(w, r, c)
       \/ ReleaseClaim(r, c) \/ RenewLease(r, c) \/ RequestInput(r, c) \/ FailRun(r, c)
       \/ \E succeeded \in BOOLEAN : CompleteRun(r, c, succeeded)
  \/ LeaseAges(r)
  \/ BackoffElapses(r)

Next ==
  \/ AssignSome
  \/ SplitSome
  \/ \E t \in TaskIds : EditTask(t) \/ ReviewTask(t) \/ WithdrawTask(t)
  \/ \E w \in Workers : ManageWorker(w)
  \/ \E r \in RunIds : ExecuteRun(r)

Spec == Init /\ [][Next]_vars

--------------------------------------------------------------------------------
(* What the tables always satisfy *)

\* Every column keeps to the values the schema and the code give it.
TypeOK ==
  /\ task \in [TaskIds -> Task]
  /\ run \in [RunIds -> Run]
  /\ attempt \in [Claims -> Attempt]
  /\ active \subseteq Workers

\* A task never has two executions under way: no writer relies on the unique
\* index of worker_runs to abort it.
OneActiveRunPerTask ==
  \A r, q \in RunIds :
    ActiveRun(r) /\ ActiveRun(q) /\ run[r].task = run[q].task /\ run[r].task # 0 => r = q

\* A worker never holds two leases, not even a stale one next to a new one,
\* which a late heartbeat would revive.
OneClaimPerWorker ==
  \A r, q \in RunIds :
    run[r].status = "claimed" /\ run[q].status = "claimed" /\ run[r].worker = run[q].worker
      => r = q

\* Whoever holds a lease on a task's run works on the task as it stands: same
\* revision, same owner, in progress, prerequisites accepted.
ClaimedRunIsCurrent ==
  \A r \in RunIds :
    run[r].status = "claimed" /\ run[r].task # 0 =>
      /\ TaskInHand(r)
      /\ \A d \in task[run[r].task].deps : task[d].status = "accepted"

\* The two records of a lease agree: a claimed run names a live attempt of its
\* own, and a live attempt belongs to a run that is claimed under it.
LeaseMatchesAttempt ==
  /\ \A r \in RunIds : run[r].status = "claimed" =>
       run[r].claim \in Claims /\ Leased(r, run[r].claim)
  /\ \A c \in Claims : attempt[c].status = "claimed" =>
       attempt[c].run \in RunIds /\ Leased(attempt[c].run, c)

\* At most one execution result is ever recorded for a revision of a task.
OneResultPerRevision ==
  \A r, q \in RunIds :
    /\ run[r].status = "completed" /\ run[q].status = "completed"
    /\ run[r].task = run[q].task /\ run[r].task # 0
    /\ run[r].revision = run[q].revision
    => r = q

\* Creation, merging and rewiring never build a cycle of prerequisites, and no
\* deletion leaves one that no longer exists.
DepsPointBack ==
  \A t \in TaskIds : \A d \in task[t].deps : d < t /\ Present(d)

\* A subtask is only ever unfinished below a parent that is still split.
UnfinishedBelowSplit ==
  \A k \in TaskIds :
    Present(k) /\ task[k].parent # 0 /\ task[k].status \notin EndedStatuses
      => task[task[k].parent].status = "split"

\* The assigner and the assignee hold no participant role beside their own, so
\* no reviewer reviews work he owns; workers never participate.
OwnersNeverParticipate ==
  \A t \in TaskIds : \A u \in Named(task[t].role) :
    u \notin Workers /\ u # task[t].assigner /\ u # task[t].assignee

--------------------------------------------------------------------------------
(* What no transaction does *)

\* While a lease lasts nobody changes the task under it: its status, revision,
\* owner and prerequisites stand, unless a prerequisite's row is rewired away.
LeaseFreezesTask ==
  [][\A r \in RunIds :
       run[r].status = "claimed" /\ run[r].claim = run'[r].claim /\ run[r].task # 0 =>
         LET t == run[r].task
         IN /\ task'[t].status = "in_progress"
            /\ task'[t].revision = task[t].revision
            /\ task'[t].assignee = task[t].assignee
            /\ task'[t].deps \subseteq task[t].deps]_vars

\* A split task whose children have all ended.
Stranded(p) ==
  /\ task[p].status = "split"
  /\ \A k \in TaskIds : Present(k) /\ task[k].parent = p => task[k].status \in EndedStatuses

\* Whichever transaction ends the last open child completes the parent too;
\* only deleting a child leaves the parent split for good.
LastChildCompletesParent ==
  [][\A p \in TaskIds :
       Stranded(p)' => \/ Stranded(p)
                       \/ \E k \in TaskIds : task[k].parent = p /\ task'[k].status = "gone"]_vars

\* A pending or running task of an active worker that no queued, leased or
\* retrying run at its revision will ever execute.
Orphaned(t) ==
  /\ task[t].status \in {"pending", "in_progress"}
  /\ task[t].assignee \in active
  /\ ~\E r \in RunIds : /\ run[r].status \in {"queued", "claimed", "retry_wait"}
                         /\ run[r].task = t
                         /\ run[r].worker = task[t].assignee
                         /\ run[r].revision = task[t].revision

\* No transaction on tasks or runs loses the execution of a worker's task; the
\* only way to an orphan is to enable a worker again.
OrphanedOnlyByEnabling ==
  [][\A t \in TaskIds : Orphaned(t)' => Orphaned(t) \/ task[t].assignee \in active' \ active]_vars

\* Acceptance, cancellation and the end of a run or an attempt are final: after
\* them the row only ever disappears with its task.
FinishedStaysFinished ==
  [][/\ \A t \in TaskIds : task[t].status \in EndedStatuses \cup {"gone"} =>
          task'[t].status \in {task[t].status, "gone"}
     /\ \A r \in RunIds : run[r].status \in {"completed", "cancelled", "gone"} =>
          run'[r].status \in {run[r].status, "gone"}
     /\ \A c \in Claims : attempt[c].status \notin {"absent", "claimed"} =>
          attempt'[c].status \in {attempt[c].status, "gone"}]_vars

--------------------------------------------------------------------------------
(* The queue as its users see it *)

JobState(r) ==
  CASE run[r].status = "absent"                    -> "unused"
    [] run[r].status \in {"queued", "retry_wait"} -> "waiting"
    [] run[r].status = "claimed"                   -> "leased"
    [] run[r].status = "awaiting_input"            -> "paused"
    [] run[r].status = "completed"                 -> "done"
    [] run[r].status = "cancelled"                 -> "dropped"
    [] run[r].status = "gone"                      -> "gone"

Work == INSTANCE LeasedWork WITH
          Jobs    <- RunIds,
          Leases  <- Claims,
          NoLease <- NoClaim,
          job     <- [r \in RunIds |-> JobState(r)],
          holder  <- [r \in RunIds |-> run[r].claim],
          used    <- {c \in Claims : attempt[c].status # "absent"}

\* Through every edit, review, revocation, time-out and retry the run tables
\* implement the queue of LeasedWork: leases are fresh and exclusive, only the
\* holder settles a run, and a settled or withdrawn run is never leased again.
ImplementsLeasedWork == Work!Spec

--------------------------------------------------------------------------------
(* What the documentation says and the code does not do *)

\* A task never waits for a prerequisite that was cancelled: the cancelled
\* prerequisite is removed.
NoCancelledPrerequisite ==
  \A t \in TaskIds : \A d \in task[t].deps : task[d].status # "cancelled"

\* Once all the subtasks it still has passed, a split task is up for review.
NoStrandedParent ==
  \A p \in TaskIds : task[p].status = "split" =>
    LET kids == {k \in TaskIds : Present(k) /\ task[k].parent = p}
    IN kids # {} => \E k \in kids : task[k].status # "accepted"

\* A worker executes its task alone, without collaborators.
WorkersWorkAlone ==
  \A t \in TaskIds : task[t].assignee \in Workers =>
    \A u \in Users : task[t].role[u] # "collaborator"
================================================================================
