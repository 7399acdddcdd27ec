---------------------------- MODULE TaskBoardProofs ----------------------------
(***************************************************************************)
(* Theorems about TaskBoard, for every number of users, tasks, runs and    *)
(* claims: its types, that it implements LeasedWork, and its safety        *)
(* properties.                                                             *)
(*                                                                         *)
(* The inductive invariant BoardInv joins the invariants of the four runs  *)
(* with what they need of each other: a run's task exists and is no older  *)
(* than the run, a result is older than its task, an active run belongs to *)
(* a worker, an unused row is blank.                                       *)
(*                                                                         *)
(* A transaction is described by frames.  TaskStep says what it may do to  *)
(* the rows of tasks, QueueStep what it may do to runs and attempts,       *)
(* Freezes what it leaves alone under a lease.  Each transaction is shown  *)
(* to keep to its frames, and each invariant to survive them.              *)
(***************************************************************************)
EXTENDS TaskBoard, FiniteSetTheorems, TLAPS

--------------------------------------------------------------------------------
(* What the helpers return *)

LEMMA BlankRows ==
  /\ BlankTask \in Task
  /\ [BlankTask EXCEPT !.status = "gone"] \in Task
  /\ BlankRun \in Run
  /\ [BlankRun EXCEPT !.status = "gone"] \in Run
  /\ BlankAttempt \in Attempt
  /\ [BlankAttempt EXCEPT !.status = "gone"] \in Attempt
BY DEF BlankTask, Task, BlankRun, Run, BlankAttempt, Attempt, NoRoles, Roles

LEMMA NewRows ==
  ASSUME NEW a \in Users, NEW u \in Users, NEW p \in TaskIds \cup {0}, NEW D \in SUBSET TaskIds,
         NEW i \in Items \cup {NoItem}
  PROVE  NewTask(a, u, p, D, i) \in Task
BY DEF NewTask, Task, NoRoles, Roles, TaskStatuses, OpenStatuses

LEMMA NewRunType ==
  ASSUME NEW t \in TaskIds \cup {0}, NEW n \in Nat, NEW w \in Workers
  PROVE  NewRun(t, n, w) \in Run
BY BlankRows DEF NewRun, BlankRun, Run, RunStatuses, ActiveRunStatuses

LEMMA NextRevisionType ==
  ASSUME NEW row \in Task, NEW s \in TaskStatuses
  PROVE  [row EXCEPT !.status = s, !.revision = @ + 1] \in Task
<1>1. row.revision + 1 \in Nat
  BY DEF Task
<1> QED BY <1>1 DEF Task

LEMMA RevisedType ==
  ASSUME TypeOK, NEW t \in TaskIds, NEW s \in TaskStatuses
  PROVE  Revised(t, s) \in Task
BY NextRevisionType DEF Revised, TypeOK

LEMMA EndedRunType ==
  ASSUME TypeOK, NEW r \in RunIds, NEW s \in RunStatuses
  PROVE  EndedRun(r, s) \in Run
<1>1. run[r] \in Run
  BY DEF TypeOK
<1> QED BY <1>1 DEF EndedRun, Run

LEMMA CancelledAttemptsType ==
  ASSUME TypeOK, NEW S
  PROVE  CancelledAttempts(S) \in [Claims -> Attempt]
BY DEF TypeOK, CancelledAttempts, Attempt, AttemptStatuses

LEMMA CompletionStatusType ==
  ASSUME NEW row
  PROVE  CompletionStatus(row) \in {"accepted", "done"}
BY DEF CompletionStatus

LEMMA CascadeUpType ==
  ASSUME NEW tab \in [TaskIds -> Task], NEW p, CascadeUp(tab, p)
  PROVE  task' \in [TaskIds -> Task]
<1>1. PICK chain : task' = Completed(tab, chain)
  BY DEF CascadeUp
<1>2. ASSUME NEW t \in TaskIds
      PROVE  [tab[t] EXCEPT !.status = CompletionStatus(tab[t]), !.revision = @ + 1] \in Task
  <2>1. CompletionStatus(tab[t]) \in TaskStatuses
    BY CompletionStatusType DEF TaskStatuses, ClosedStatuses
  <2> QED BY <2>1, NextRevisionType
<1> QED BY <1>1, <1>2 DEF Completed

LEMMA CancelRunsType ==
  ASSUME TypeOK, NEW T, CancelRuns(T)
  PROVE  run' \in [RunIds -> Run] /\ attempt' \in [Claims -> Attempt]
<1>1. \A r \in RunIds : EndedRun(r, "cancelled") \in Run
  BY EndedRunType DEF RunStatuses
<1> QED BY <1>1, CancelledAttemptsType DEF CancelRuns, TypeOK

LEMMA RequeueType ==
  ASSUME TypeOK, NEW tab \in [TaskIds -> Task], NEW T, NEW wanted \in SUBSET TaskIds,
         Requeue(tab, T, wanted)
  PROVE  run' \in [RunIds -> Run] /\ attempt' \in [Claims -> Attempt]
<1> DEFINE needed == {t \in wanted : tab[t].assignee \in active}
           free   == {r \in RunIds : run[r].status = "absent"}
<1>1. PICK job \in [free -> needed \cup {0}] :
        /\ run' = [r \in RunIds |->
                    IF r \in free
                    THEN IF job[r] = 0 THEN run[r]
                         ELSE NewRun(job[r], tab[job[r]].revision, tab[job[r]].assignee)
                    ELSE IF r \in ActiveRunsOf(T) THEN EndedRun(r, "cancelled") ELSE run[r]]
        /\ attempt' = CancelledAttempts(ActiveRunsOf(T))
  BY DEF Requeue
<1>2. \A r \in RunIds : EndedRun(r, "cancelled") \in Run
  BY EndedRunType DEF RunStatuses
<1>3. \A t \in needed : NewRun(t, tab[t].revision, tab[t].assignee) \in Run
  <2> TAKE t \in needed
  <2>1. tab[t].revision \in Nat /\ tab[t].assignee \in Workers
    BY DEF Task, TypeOK
  <2> QED BY <2>1, NewRunType
<1>4. \A r \in free : job[r] # 0 => job[r] \in needed
  OBVIOUS
<1> QED BY <1>1, <1>2, <1>3, <1>4, CancelledAttemptsType DEF TypeOK

LEMMA RestartType ==
  ASSUME TypeOK, NEW tab \in [TaskIds -> Task], NEW t \in TaskIds, Restart(tab, t)
  PROVE  /\ task' \in [TaskIds -> Task]
         /\ run' \in [RunIds -> Run]
         /\ attempt' \in [Claims -> Attempt]
<1>1. task' = tab /\ Requeue(tab, {t}, {t})
  BY DEF Restart
<1>2. {t} \in SUBSET TaskIds
  OBVIOUS
<1> QED BY <1>1, <1>2, RequeueType

LEMMA RosterTypes ==
  ASSUME NEW row \in Task, NEW roster \in [Users -> Roles]
  PROVE  /\ Normal(row, roster) \in [Users -> Roles]
         /\ Upserted(row, roster) \in [Users -> Roles]
BY DEF Normal, Upserted, Task, Roles

--------------------------------------------------------------------------------
(* Every action keeps the types *)

Typed == /\ task' \in [TaskIds -> Task]
         /\ run' \in [RunIds -> Run]
         /\ attempt' \in [Claims -> Attempt]

LEMMA AssignType ==
  ASSUME TypeOK, AssignSome
  PROVE  Typed /\ active' = active
<1>1. PICK a \in Users, u \in Users, D \in SUBSET TaskIds, i \in Items,
           roster \in [Users -> Roles] : AssignTask(a, u, D, i, roster)
  BY UsersAssumption DEF AssignSome
<1>2. CASE \E t \in TaskIds : CreateTask(t, a, u, D, i, roster)
  <2> DEFINE row == NewTask(a, u, 0, D, i)
             new == [row EXCEPT !.role = Upserted(row, Normal(row, roster))]
  <2>1. PICK t \in TaskIds : /\ Restart([task EXCEPT ![t] = new], t)
                             /\ active' = active
    BY <1>2 DEF CreateTask
  <2>2. row \in Task
    BY NewRows
  <2>3. Upserted(row, Normal(row, roster)) \in [Users -> Roles]
    BY <2>2, RosterTypes
  <2>4. new \in Task
    BY <2>2, <2>3 DEF Task
  <2>5. [task EXCEPT ![t] = new] \in [TaskIds -> Task]
    BY <2>4 DEF TypeOK
  <2> QED BY <2>1, <2>5, RestartType DEF Typed
<1>3. CASE \E t \in Equivalent(a, i), tighter \in BOOLEAN : MergeTask(t, u, D, tighter, roster)
  <2>1. PICK t \in Equivalent(a, i), tighter \in BOOLEAN : MergeTask(t, u, D, tighter, roster)
    BY <1>3
  <2> DEFINE changed == tighter \/ D \ task[t].deps # {}
             revised == IF changed
                        THEN [Revised(t, task[t].status) EXCEPT !.deps = @ \cup D]
                        ELSE task[t]
             named   == IF u # task[t].assignee /\ roster[u] = "none"
                        THEN [roster EXCEPT ![u] = "collaborator"] ELSE roster
             normal  == Normal(revised, named)
             new     == [revised EXCEPT !.role = Upserted(revised, normal)]
             tab     == [task EXCEPT ![t] = new]
  <2>2. t \in TaskIds /\ task[t].status \in TaskStatuses
    BY DEF Equivalent, TaskStatuses
  <2>3. task[t] \in Task
    BY <2>2 DEF TypeOK
  <2>4. revised \in Task
    <3>1. Revised(t, task[t].status) \in Task
      BY <2>2, RevisedType
    <3>2. [Revised(t, task[t].status) EXCEPT !.deps = @ \cup D] \in Task
      BY <3>1 DEF Task
    <3> QED BY <2>3, <3>2
  <2>5. named \in [Users -> Roles]
    BY DEF Roles
  <2>6. Upserted(revised, normal) \in [Users -> Roles]
    BY <2>4, <2>5, RosterTypes
  <2>7. new \in Task
    BY <2>4, <2>6, ZenonT(60) DEF Task
  <2>8. tab \in [TaskIds -> Task]
    BY <2>7 DEF TypeOK
  <2>9. /\ Restart(tab, t) \/ (task' = tab /\ run' = run /\ attempt' = attempt)
        /\ active' = active
    BY <2>1 DEF MergeTask
  <2> HIDE DEF tab
  <2> QED BY <2>2, <2>8, <2>9, RestartType DEF Typed, TypeOK
<1> QED BY <1>1, <1>2, <1>3 DEF AssignTask

LEMMA SplitType ==
  ASSUME TypeOK, SplitSome
  PROVE  Typed /\ active' = active
<1>1. PICK p \in TaskIds, kids \in SUBSET TaskIds :
        \E owner \in [kids -> Users] : SplitTask(p, kids, owner)
  BY DEF SplitSome
<1>1a. PICK owner \in [kids -> Users] : SplitTask(p, kids, owner)
  BY <1>1
<1> DEFINE tab == [t \in TaskIds |->
                     IF t = p THEN Revised(p, "split")
                     ELSE IF t \in kids
                          THEN NewTask(task[p].assignee, owner[t], p, {}, task[p].item)
                          ELSE task[t]]
<1>2. task' = tab /\ Requeue(tab, {p}, kids) /\ active' = active
  BY <1>1a DEF SplitTask
<1>3. task[p] \in Task
  BY DEF TypeOK
<1>4. Revised(p, "split") \in Task
  BY RevisedType DEF TaskStatuses, ClosedStatuses
<1>5. ASSUME NEW t \in kids
      PROVE  NewTask(task[p].assignee, owner[t], p, {}, task[p].item) \in Task
  <2>1. owner[t] \in Users /\ task[p].assignee \in Users \cup {NoUser}
    BY <1>3 DEF Task
  <2> QED BY <1>3, <2>1 DEF NewTask, Task, NoRoles, Roles, TaskStatuses, OpenStatuses
<1>6. tab \in [TaskIds -> Task]
  BY <1>4, <1>5 DEF TypeOK
<1> HIDE DEF tab
<1> QED BY <1>2, <1>6, RequeueType DEF Typed

LEMMA EditType ==
  ASSUME TypeOK, NEW t \in TaskIds, EditTask(t)
  PROVE  Typed /\ active' = active
<1>1. task[t] \in Task
  BY DEF TypeOK
<1>2. ASSUME NEW s \in {"pending", "in_progress"}, UpdateTaskStatus(t, s)
      PROVE  Typed /\ active' = active
  <2>1. Revised(t, s) \in Task
    BY <1>2, RevisedType DEF TaskStatuses, OpenStatuses
  <2>2. [task EXCEPT ![t] = Revised(t, s)] \in [TaskIds -> Task]
    BY <2>1 DEF TypeOK
  <2> QED BY <1>2, <2>2, RestartType DEF UpdateTaskStatus, Typed, TypeOK
<1>3. ASSUME NEW u \in Users, ReassignTask(t, u)
      PROVE  Typed /\ active' = active
  <2> DEFINE new == [Revised(t, "pending") EXCEPT !.assignee = u, !.role[u] = "none"]
  <2>1. Revised(t, "pending") \in Task
    BY RevisedType DEF TaskStatuses, OpenStatuses
  <2>2. new \in Task
    BY <2>1 DEF Task, Roles
  <2>3. [task EXCEPT ![t] = new] \in [TaskIds -> Task]
    BY <2>2 DEF TypeOK
  <2>4. Restart([task EXCEPT ![t] = new], t) /\ active' = active
    BY <1>3 DEF ReassignTask
  <2> QED BY <2>3, <2>4, RestartType DEF Typed
<1>4. ASSUME NEW i \in Items, UpdateContent(t, i)
      PROVE  Typed /\ active' = active
  <2>1. ASSUME NEW s \in TaskStatuses
        PROVE  [task EXCEPT ![t] = [Revised(t, s) EXCEPT !.item = i]] \in [TaskIds -> Task]
    <3>1. Revised(t, s) \in Task
      BY RevisedType
    <3>2. [Revised(t, s) EXCEPT !.item = i] \in Task
      BY <3>1 DEF Task
    <3> QED BY <3>2 DEF TypeOK
  <2>2. task[t].status \in TaskStatuses /\ "pending" \in TaskStatuses
    BY <1>4 DEF UpdateContent, TaskStatuses, OpenStatuses
  <2>3. \/ Restart([task EXCEPT ![t] = [Revised(t, "pending") EXCEPT !.item = i]], t)
        \/ /\ task' = [task EXCEPT ![t] = [Revised(t, task[t].status) EXCEPT !.item = i]]
           /\ run' = run /\ attempt' = attempt
    BY <1>4 DEF UpdateContent
  <2> QED BY <1>4, <2>1, <2>2, <2>3, RestartType DEF UpdateContent, Typed, TypeOK
<1>5. ASSUME NEW roster \in [Users -> Roles], ReplaceParticipants(t, roster)
      PROVE  Typed /\ active' = active
  <2>1. Normal(task[t], roster) \in [Users -> Roles]
    BY <1>1, RosterTypes
  <2>2. [task[t] EXCEPT !.role = Normal(task[t], roster)] \in Task
    BY <1>1, <2>1 DEF Task
  <2> QED BY <1>5, <2>2 DEF ReplaceParticipants, Typed, TypeOK
<1> QED BY <1>2, <1>3, <1>4, <1>5, UsersAssumption DEF EditTask

LEMMA ReviewType ==
  ASSUME TypeOK, NEW t \in TaskIds, ReviewTask(t)
  PROVE  Typed /\ active' = active
<1>1. ASSUME NEW s \in TaskStatuses
      PROVE  [task EXCEPT ![t] = Revised(t, s)] \in [TaskIds -> Task]
  BY RevisedType DEF TypeOK
<1>2. {"done", "accepted", "pending", "in_progress"} \subseteq TaskStatuses
  BY DEF TaskStatuses, OpenStatuses, ClosedStatuses
<1>3. CASE SubmitTask(t)
  <2> DEFINE status == CompletionStatus(task[t])
             tab    == [task EXCEPT ![t] = Revised(t, status)]
  <2>1. tab \in [TaskIds -> Task]
    BY <1>1, <1>2, CompletionStatusType
  <2>2. /\ CascadeUp(tab, task[t].parent) \/ task' = tab
        /\ CancelRuns({t})
        /\ active' = active
    BY <1>3 DEF SubmitTask
  <2> HIDE DEF tab
  <2> QED BY <2>1, <2>2, CascadeUpType, CancelRunsType DEF Typed
<1>4. CASE AcceptTask(t)
  <2> DEFINE tab == [task EXCEPT ![t] = Revised(t, "accepted")]
  <2>1. tab \in [TaskIds -> Task]
    BY <1>1, <1>2
  <2>2. CascadeUp(tab, task[t].parent) /\ UNCHANGED <<run, attempt, active>>
    BY <1>4 DEF AcceptTask
  <2> HIDE DEF tab
  <2> QED BY <2>1, <2>2, CascadeUpType DEF Typed, TypeOK
<1>5. CASE RejectTask(t)
  <2>1. PICK s \in TaskStatuses : /\ Restart([task EXCEPT ![t] = Revised(t, s)], t)
                                  /\ active' = active
    BY <1>5, <1>2 DEF RejectTask, TypeOK
  <2> QED BY <2>1, <1>1, RestartType DEF Typed
<1> QED BY <1>3, <1>4, <1>5 DEF ReviewTask

\* The table CancelTask leaves to cascadeUp.
AfterCancel(t, s) ==
  [d \in TaskIds |->
     [(IF d = t THEN Revised(t, "cancelled") ELSE task[d]) EXCEPT
        !.deps = Rewired(d, t, s),
        !.role = IF d = s THEN Upserted(task[s], IF s = 0 THEN NoRoles ELSE Gained(t, s)) ELSE @]]

LEMMA AfterCancelType ==
  ASSUME TypeOK, NEW t \in TaskIds, NEW s \in TaskIds \cup {0}
  PROVE  AfterCancel(t, s) \in [TaskIds -> Task]
<1> DEFINE gained == IF s = 0 THEN NoRoles ELSE Gained(t, s)
           base(d) == IF d = t THEN Revised(t, "cancelled") ELSE task[d]
           new(d) == [base(d) EXCEPT !.deps = Rewired(d, t, s),
                                     !.role = IF d = s THEN Upserted(task[s], gained) ELSE @]
<1>1. ASSUME NEW d \in TaskIds
      PROVE  new(d) \in Task
  <2>1. base(d) \in Task
    BY RevisedType DEF TaskStatuses, ClosedStatuses, TypeOK
  <2>2. Rewired(d, t, s) \in SUBSET TaskIds
    <3>1. task[d] \in Task
      BY DEF TypeOK
    <3> QED BY <3>1 DEF Rewired, Task
  <2>3. d = s => Upserted(task[s], gained) \in [Users -> Roles]
    <3> SUFFICES ASSUME d = s
                 PROVE  Upserted(task[s], gained) \in [Users -> Roles]
      OBVIOUS
    <3>1. task[t] \in Task /\ task[s] \in Task /\ s # 0
      BY DEF TypeOK, TaskIds
    <3>2. [u \in Users |->
            IF task[s].role[u] # "none" \/ u \in Workers THEN "none"
            ELSE IF task[t].role[u] # "none" THEN task[t].role[u]
            ELSE IF u = task[t].assignee THEN "collaborator" ELSE "none"]
          \in [Users -> Roles]
      BY <3>1 DEF Task, Roles
    <3>3. Migrated(t, s) \in [Users -> Roles]
      BY <3>1, <3>2, RosterTypes DEF Migrated
    <3>4. gained \in [Users -> Roles]
      BY <3>1, <3>3 DEF Gained, Roles
    <3> HIDE DEF gained
    <3> QED BY <3>1, <3>4, RosterTypes
  <2> HIDE DEF base, gained
  <2> QED BY <2>1, <2>2, <2>3 DEF Task
<1>2. AfterCancel(t, s) = [d \in TaskIds |-> new(d)]
  BY DEF AfterCancel
<1> HIDE DEF new
<1> QED BY <1>1, <1>2

LEMMA WithdrawType ==
  ASSUME TypeOK, NEW t \in TaskIds, WithdrawTask(t)
  PROVE  Typed /\ active' = active
<1>1. ASSUME NEW s \in TaskIds \cup {0}, CancelTask(t, s)
      PROVE  Typed /\ active' = active
  <2>1. /\ CancelRuns({t})
        /\ CascadeUp(AfterCancel(t, s), task[t].parent)
        /\ active' = active
    BY <1>1 DEF CancelTask, AfterCancel
  <2> QED BY <2>1, AfterCancelType, CascadeUpType, CancelRunsType DEF Typed
<1>2. CASE DeleteTask(t)
  <2>1. PICK tree :
          LET lost == {r \in RunIds : run[r].task \in tree}
          IN /\ task' = [k \in TaskIds |->
                          IF k \in tree THEN [BlankTask EXCEPT !.status = "gone"]
                          ELSE [task[k] EXCEPT !.deps = @ \ tree]]
             /\ run' = [r \in RunIds |->
                         IF r \in lost THEN [BlankRun EXCEPT !.status = "gone"] ELSE run[r]]
             /\ attempt' = [c \in Claims |->
                             IF attempt[c].run \in lost
                             THEN [BlankAttempt EXCEPT !.status = "gone"] ELSE attempt[c]]
    BY <1>2 DEF DeleteTask
  <2>2. \A k \in TaskIds : [task[k] EXCEPT !.deps = @ \ tree] \in Task
    <3> TAKE k \in TaskIds
    <3>1. task[k] \in Task
      BY DEF TypeOK
    <3> QED BY <3>1 DEF Task
  <2>3. task' \in [TaskIds -> Task]
    BY <2>1, <2>2, BlankRows
  <2>4. run' \in [RunIds -> Run] /\ attempt' \in [Claims -> Attempt]
    BY <2>1, BlankRows DEF TypeOK
  <2> QED BY <1>2, <2>3, <2>4 DEF DeleteTask, Typed
<1> QED BY <1>1, <1>2 DEF WithdrawTask

LEMMA ManageType ==
  ASSUME TypeOK, NEW w \in Workers, ManageWorker(w)
  PROVE  Typed /\ active' \subseteq Workers
<1>1. CASE DisableWorker(w) \/ EnableWorker(w)
  BY <1>1 DEF DisableWorker, EnableWorker, TypeOK, Typed
<1>2. CASE RevokeWorker(w)
  <2>1. \A t \in TaskIds : Revised(t, "pending") \in Task
    BY RevisedType DEF TaskStatuses, OpenStatuses
  <2>2. \A r \in RunIds : EndedRun(r, "cancelled") \in Run
    BY EndedRunType DEF RunStatuses
  <2> QED BY <1>2, <2>1, <2>2, CancelledAttemptsType DEF RevokeWorker, TypeOK, Typed
<1>3. CASE CreateWorkerRun(w)
  <2>1. NewRun(0, 0, w) \in Run
    BY NewRunType
  <2> QED BY <1>3, <2>1 DEF CreateWorkerRun, TypeOK, Typed
<1> QED BY <1>1, <1>2, <1>3 DEF ManageWorker

\* The statuses an execution can give its task.
LEMMA WithStatusType ==
  ASSUME TypeOK, NEW r \in RunIds, NEW s \in TaskStatuses
  PROVE  WithStatus(r, s) \in [TaskIds -> Task]
<1>1. run[r].task \in TaskIds \cup {0}
  BY DEF TypeOK, Run
<1>2. \A t \in TaskIds : [task[t] EXCEPT !.status = s] \in Task
  <2> TAKE t \in TaskIds
  <2>1. task[t] \in Task
    BY DEF TypeOK
  <2> QED BY <2>1 DEF Task
<1> QED BY <1>1, <1>2 DEF WithStatus, TypeOK

LEMMA EndLeaseType ==
  ASSUME TypeOK, NEW r \in RunIds, NEW c \in Claims, NEW row \in Run,
         NEW s \in AttemptStatuses, EndLease(r, c, row, s)
  PROVE  run' \in [RunIds -> Run] /\ attempt' \in [Claims -> Attempt]
<1>1. [attempt[c] EXCEPT !.status = s] \in Attempt
  BY DEF TypeOK, Attempt
<1> QED BY <1>1 DEF EndLease, TypeOK

LEMMA ClaimType ==
  ASSUME TypeOK, NEW w \in Workers, NEW r \in RunIds, NEW c \in Claims, ClaimNext(w, r, c)
  PROVE  Typed /\ active' = active
<1>1. run[r] \in Run
  BY DEF TypeOK
<1>2. task' \in [TaskIds -> Task]
  <2>1. task' = task \/ task' = WithStatus(r, "in_progress")
    BY DEF ClaimNext, WithStatus
  <2> QED BY <2>1, WithStatusType DEF TaskStatuses, OpenStatuses, TypeOK
<1>3. run' \in [RunIds -> Run]
  <2>1. [run[r] EXCEPT !.status = "claimed", !.claim = c, !.ready = FALSE, !.age = "fresh"] \in Run
    BY <1>1 DEF Run, RunStatuses, ActiveRunStatuses
  <2>2. \A q \in RunIds : EndedRun(q, "cancelled") \in Run
    BY EndedRunType DEF RunStatuses
  <2> QED BY <2>1, <2>2 DEF ClaimNext, TypeOK
<1>4. attempt' \in [Claims -> Attempt]
  <2>1. [status |-> "claimed", run |-> r, acked |-> FALSE] \in Attempt
    BY DEF Attempt, AttemptStatuses
  <2>2. \A b \in Claims : [attempt[b] EXCEPT !.status = "expired"] \in Attempt
    BY DEF TypeOK, Attempt, AttemptStatuses
  <2>3. CancelledAttempts(Outdated(w)) \in [Claims -> Attempt]
    BY CancelledAttemptsType
  <2> QED BY <2>1, <2>2, <2>3 DEF ClaimNext
<1> QED BY <1>2, <1>3, <1>4 DEF ClaimNext, Typed

LEMMA FinalizeType ==
  ASSUME TypeOK, NEW r \in RunIds, NEW c \in Claims,
         \/ ReleaseClaim(r, c) \/ RequestInput(r, c) \/ FailRun(r, c)
         \/ \E succeeded \in BOOLEAN : CompleteRun(r, c, succeeded)
  PROVE  Typed /\ active' = active
<1>1. run[r] \in Run
  BY DEF TypeOK
<1>2. /\ {"pending", "awaiting_input", "done", "accepted"} \subseteq TaskStatuses
      /\ {"queued", "retry_wait", "awaiting_input", "completed"} \subseteq RunStatuses
      /\ {"released", "retry_wait", "awaiting_input", "completed"} \subseteq AttemptStatuses
  BY DEF TaskStatuses, OpenStatuses, ClosedStatuses, RunStatuses, ActiveRunStatuses, AttemptStatuses
<1>3. \A s \in RunStatuses : EndedRun(r, s) \in Run
  BY EndedRunType
<1>4. CASE ReleaseClaim(r, c)
  <2>1. [EndedRun(r, "queued") EXCEPT !.ready = TRUE] \in Run
    BY <1>2, <1>3 DEF Run
  <2>2. EndLease(r, c, [EndedRun(r, "queued") EXCEPT !.ready = TRUE], "released")
    BY <1>4 DEF ReleaseClaim
  <2> QED BY <1>2, <1>4, <2>1, <2>2, EndLeaseType DEF ReleaseClaim, Typed, TypeOK
<1>5. CASE RequestInput(r, c)
  BY <1>2, <1>3, <1>5, EndLeaseType, WithStatusType DEF RequestInput, Typed
<1>6. CASE FailRun(r, c)
  <2>1. run[r].failures + 1 \in Nat
    BY <1>1 DEF Run
  <2>2. ASSUME NEW s \in RunStatuses
        PROVE  [EndedRun(r, s) EXCEPT !.failures = run[r].failures + 1] \in Run
    BY <1>3, <2>1 DEF Run
  <2>3. PICK s \in {"awaiting_input", "retry_wait"}, b \in {"awaiting_input", "pending"} :
          /\ EndLease(r, c, [EndedRun(r, s) EXCEPT !.failures = run[r].failures + 1], s)
          /\ task' = WithStatus(r, b)
          /\ active' = active
    BY <1>6 DEF FailRun
  <2> QED BY <1>2, <2>2, <2>3, EndLeaseType, WithStatusType DEF Typed
<1>7. ASSUME NEW succeeded \in BOOLEAN, CompleteRun(r, c, succeeded)
      PROVE  Typed /\ active' = active
  <2> DEFINE t      == run[r].task
             status == IF succeeded THEN CompletionStatus(task[t]) ELSE "done"
             tab    == [task EXCEPT ![t] = Revised(t, status)]
  <2>1. /\ EndLease(r, c, EndedRun(r, "completed"), "completed")
        /\ active' = active
        /\ \/ task' = task
           \/ t # 0 /\ CascadeUp(tab, task[t].parent)
           \/ t # 0 /\ task' = tab
    BY <1>7 DEF CompleteRun
  <2>2. ASSUME t # 0
        PROVE  tab \in [TaskIds -> Task]
    <3>1. t \in TaskIds
      BY <1>1, <2>2 DEF Run
    <3>2. status \in TaskStatuses
      BY <1>2, CompletionStatusType
    <3>3. Revised(t, status) \in Task
      BY <3>1, <3>2, RevisedType
    <3> QED BY <3>3 DEF TypeOK
  <2>3. task' \in [TaskIds -> Task]
    <3> HIDE DEF tab, t
    <3> QED BY <2>1, <2>2, CascadeUpType DEF TypeOK
  <2> QED BY <1>2, <1>3, <2>1, <2>3, EndLeaseType DEF Typed
<1> QED BY <1>4, <1>5, <1>6, <1>7

LEMMA ExecuteType ==
  ASSUME TypeOK, NEW r \in RunIds, ExecuteRun(r)
  PROVE  Typed /\ active' = active
<1>1. run[r] \in Run
  BY DEF TypeOK
<1>2. CASE CancelWorkerRun(r)
  <2>1. EndedRun(r, "cancelled") \in Run
    BY EndedRunType DEF RunStatuses
  <2> QED BY <1>2, <2>1, CancelledAttemptsType DEF CancelWorkerRun, TypeOK, Typed
<1>3. CASE LeaseAges(r) \/ BackoffElapses(r)
  <2>1. PICK row \in Run : /\ run' = [run EXCEPT ![r] = row]
                           /\ UNCHANGED <<task, attempt, active>>
    <3>1. CASE LeaseAges(r)
      <4>1. [run[r] EXCEPT !.age = IF @ = "fresh" THEN "overdue" ELSE "stale"] \in Run
        BY <1>1 DEF Run
      <4> QED BY <3>1, <4>1 DEF LeaseAges
    <3>2. CASE BackoffElapses(r)
      <4>1. [run[r] EXCEPT !.ready = TRUE] \in Run
        BY <1>1 DEF Run
      <4> QED BY <3>2, <4>1 DEF BackoffElapses
    <3> QED BY <1>3, <3>1, <3>2
  <2> QED BY <2>1 DEF TypeOK, Typed
<1>4. ASSUME NEW c \in Claims, RenewLease(r, c)
      PROVE  Typed /\ active' = active
  <2>1. [run[r] EXCEPT !.age = "fresh"] \in Run
    BY <1>1 DEF Run
  <2>2. [attempt[c] EXCEPT !.acked = TRUE] \in Attempt
    BY DEF TypeOK, Attempt
  <2> QED BY <1>4, <2>1, <2>2 DEF RenewLease, TypeOK, Typed
<1> QED BY <1>2, <1>3, <1>4, ClaimType, FinalizeType DEF ExecuteRun

\* Every transaction of the store leaves each column with one of its values.
THEOREM TypeCorrect == Spec => []TypeOK
<1>1. Init => TypeOK
  BY BlankRows DEF Init, TypeOK
<1>2. TypeOK /\ [Next]_vars => TypeOK'
  <2> SUFFICES ASSUME TypeOK, [Next]_vars
               PROVE  TypeOK'
    OBVIOUS
  <2>1. CASE UNCHANGED vars
    BY <2>1 DEF vars, TypeOK
  <2>2. CASE AssignSome \/ SplitSome
    BY <2>2, AssignType, SplitType DEF Typed, TypeOK
  <2>3. ASSUME NEW t \in TaskIds, EditTask(t) \/ ReviewTask(t) \/ WithdrawTask(t)
        PROVE  TypeOK'
    BY <2>3, EditType, ReviewType, WithdrawType DEF Typed, TypeOK
  <2>4. ASSUME NEW w \in Workers, ManageWorker(w)
        PROVE  TypeOK'
    BY <2>4, ManageType DEF Typed, TypeOK
  <2>5. ASSUME NEW r \in RunIds, ExecuteRun(r)
        PROVE  TypeOK'
    BY <2>5, ExecuteType DEF Typed, TypeOK
  <2> QED BY <2>1, <2>2, <2>3, <2>4, <2>5 DEF Next
<1> QED BY <1>1, <1>2, PTL DEF Spec

--------------------------------------------------------------------------------
(* TaskBoard implements LeasedWork: every transaction leases, settles, withdraws or  *)
(* deletes runs as LeasedWork allows, or does not concern the queue at all.          *)

\* A claim that stands in a run was handed out, and an unused id is a blank row.
ClaimsUsed ==
  /\ \A r \in RunIds : run[r].claim = NoClaim \/ attempt[run[r].claim].status # "absent"
  /\ \A r \in RunIds : run[r].status = "absent" => run[r] = BlankRun
  /\ \A c \in Claims : attempt[c].status = "absent" => attempt[c] = BlankAttempt

--------------------------------------------------------------------------------
(* Steps that hand out no lease *)

Kept(r) == run'[r].status = run[r].status /\ run'[r].claim = run[r].claim

Queued(r) == run[r].status = "absent" /\ run'[r].status = "queued" /\ run'[r].claim = NoClaim

Returned(r) ==
  /\ run[r].status = "claimed"
  /\ run'[r].status \in {"queued", "retry_wait", "awaiting_input", "completed"}
  /\ run'[r].claim = NoClaim

Cancelled(r) == ActiveRun(r) /\ run'[r].status = "cancelled" /\ run'[r].claim = NoClaim

Erased(r) == run[r].status # "absent" /\ run'[r].status = "gone" /\ run'[r].claim = NoClaim

NoNewLease ==
  /\ \A r \in RunIds : Kept(r) \/ Queued(r) \/ Returned(r) \/ Cancelled(r) \/ Erased(r)
  /\ \A r \in RunIds : run'[r].status = "absent" => run'[r] = run[r]
  /\ \A c \in Claims : attempt'[c].status = "absent" <=> attempt[c].status = "absent"
  /\ \A c \in Claims : attempt'[c].status = "absent" => attempt'[c] = attempt[c]

\* The state of each run before and after a step, as its status names it.
LEMMA JobStates ==
  ASSUME TypeOK, Typed, NEW r \in RunIds
  PROVE  /\ run[r].status \in RunStatuses \cup {"absent", "gone"}
         /\ run'[r].status \in RunStatuses \cup {"absent", "gone"}
         /\ run[r].status = run'[r].status => JobState(r)' = JobState(r)
<1>1. run[r] \in Run /\ run'[r] \in Run
  BY DEF TypeOK, Typed
<1>2. /\ run[r].status \in RunStatuses \cup {"absent", "gone"}
      /\ run'[r].status \in RunStatuses \cup {"absent", "gone"}
  BY <1>1 DEF Run
<1>3. ASSUME run[r].status = run'[r].status PROVE JobState(r)' = JobState(r)
  BY <1>2, <1>3 DEF JobState, RunStatuses, ActiveRunStatuses
<1> QED BY <1>2, <1>3

\* The abstract step of a run that gets no lease.
LEMMA QuietRun ==
  ASSUME TypeOK, Typed, NEW r \in RunIds,
         Kept(r) \/ Queued(r) \/ Returned(r) \/ Cancelled(r) \/ Erased(r)
  PROVE  \/ Work!Stays(r) \/ Work!Enqueued(r)
         \/ Work!Settled(r) \/ Work!Withdrawn(r) \/ Work!Deleted(r)
<1>1. CASE Kept(r)
  <2>1. JobState(r)' = JobState(r)
    BY <1>1, JobStates DEF Kept
  <2> HIDE DEF JobState
  <2> QED BY <1>1, <2>1 DEF Kept, Work!Stays
<1>2. CASE Queued(r)
  BY <1>2 DEF Queued, Work!Enqueued, JobState
<1>3. CASE Returned(r)
  BY <1>3 DEF Returned, Work!Settled, JobState
<1>4. CASE Cancelled(r)
  BY <1>4 DEF Cancelled, Work!Withdrawn, JobState, ActiveRun, ActiveRunStatuses
<1>5. CASE Erased(r)
  BY <1>5, JobStates DEF Erased, Work!Deleted, JobState, RunStatuses, ActiveRunStatuses
<1> QED BY <1>1, <1>2, <1>3, <1>4, <1>5

\* The mapped variables take their values in LeasedWork.
LEMMA MappedTypes ==
  ASSUME TypeOK, Typed
  PROVE  /\ [r \in RunIds |-> JobState(r)]' \in [RunIds -> Work!States]
         /\ [r \in RunIds |-> run[r].claim]' \in [RunIds -> Claims \cup {NoClaim}]
<1>1. ASSUME NEW r \in RunIds
      PROVE  JobState(r)' \in Work!States /\ run'[r].claim \in Claims \cup {NoClaim}
  <2>1. run'[r] \in Run
    BY DEF Typed
  <2>2. run'[r].status \in RunStatuses \cup {"absent", "gone"}
    BY JobStates
  <2> QED BY <2>1, <2>2 DEF Run, JobState, Work!States, RunStatuses, ActiveRunStatuses
<1> HIDE DEF JobState
<1> QED BY <1>1

LEMMA QuietStep ==
  ASSUME TypeOK, Typed, ClaimsUsed, NoNewLease
  PROVE  Work!Next /\ ClaimsUsed'
<1>1. ASSUME NEW r \in RunIds PROVE ~Work!Granted(r)
  <2>1. run'[r].claim = run[r].claim \/ run'[r].claim = NoClaim
    BY DEF NoNewLease, Kept, Queued, Returned, Cancelled, Erased
  <2>2. run'[r].claim \notin Claims \/ attempt[run'[r].claim].status # "absent"
    BY <2>1, NullsAssumption DEF ClaimsUsed
  <2> QED BY <2>2 DEF Work!Granted
<1>2. ASSUME NEW r \in RunIds
      PROVE  \/ Work!Stays(r) \/ Work!Enqueued(r)
             \/ Work!Settled(r) \/ Work!Withdrawn(r) \/ Work!Deleted(r)
  BY QuietRun DEF NoNewLease
<1>3. {c \in Claims : attempt[c].status # "absent"}'
        = {c \in Claims : attempt[c].status # "absent"}
  BY DEF NoNewLease
<1>4. {r \in RunIds : Work!Granted(r)} = {}
  BY <1>1
<1>5. ClaimsUsed'
  <2>1. ASSUME NEW r \in RunIds
        PROVE  run'[r].claim = NoClaim \/ attempt'[run'[r].claim].status # "absent"
    <3>1. run'[r].claim \in Claims \cup {NoClaim}
      BY DEF Typed, Run
    <3>2. run'[r].claim = run[r].claim \/ run'[r].claim = NoClaim
      BY DEF NoNewLease, Kept, Queued, Returned, Cancelled, Erased
    <3> QED BY <3>1, <3>2 DEF ClaimsUsed, NoNewLease
  <2> QED BY <2>1 DEF ClaimsUsed, NoNewLease
<1>6. Work!Next
  <2> HIDE DEF JobState
  <2> QED BY <1>1, <1>2, <1>3, <1>4, MappedTypes DEF Work!Next
<1> QED BY <1>5, <1>6

--------------------------------------------------------------------------------
(* The one step that hands out a lease *)

LEMMA ClaimStep ==
  ASSUME TypeOK, ClaimsUsed, NEW w \in Workers, NEW r \in RunIds, NEW c \in Claims,
         ClaimNext(w, r, c)
  PROVE  Work!Next /\ ClaimsUsed'
<1>1. Typed
  BY ClaimType
<1>2. /\ attempt[c].status = "absent"
      /\ run[r].status \in {"queued", "retry_wait", "claimed"}
  BY DEF ClaimNext, Offerable
<1>3. run'[r].status = "claimed" /\ run'[r].claim = c
  <2>1. run[r] \in Run
    BY DEF TypeOK
  <2> QED BY <2>1 DEF ClaimNext, Run
<1>4. ASSUME NEW q \in RunIds, q # r PROVE Kept(q) \/ Cancelled(q)
  <2>1. CASE q \in Outdated(w)
    <3>1. run'[q] = EndedRun(q, "cancelled") /\ run[q] \in Run
      BY <1>4, <2>1 DEF ClaimNext, TypeOK
    <3> QED BY <2>1, <3>1 DEF Outdated, EndedRun, Cancelled, Run
  <2>2. CASE q \notin Outdated(w)
    BY <1>4, <2>2 DEF ClaimNext, Kept
  <2> QED BY <2>1, <2>2
<1>5. \A b \in Claims : attempt'[b].status = "absent" <=> attempt[b].status = "absent" /\ b # c
  <2> TAKE b \in Claims
  <2>1. attempt[b] \in Attempt
    BY DEF TypeOK
  <2>2. \/ attempt'[b] = attempt[b] /\ b # c
        \/ attempt'[b] = [attempt[b] EXCEPT !.status = "expired"] /\ b = run[r].claim /\ b # c
        \/ /\ attempt'[b] = [attempt[b] EXCEPT !.status = "cancelled"]
           /\ attempt[b].status = "claimed" /\ b # c
        \/ attempt'[b].status = "claimed" /\ b = c
    BY DEF ClaimNext, CancelledAttempts
  <2>3. b = run[r].claim => attempt[b].status # "absent"
    BY NullsAssumption DEF ClaimsUsed
  <2> QED BY <1>2, <2>1, <2>2, <2>3 DEF Attempt
<1>6. Work!Granted(r)
  BY <1>2, <1>3 DEF Work!Granted, JobState
<1>7. ASSUME NEW q \in RunIds, q # r
      PROVE  /\ ~Work!Granted(q)
             /\ Work!Stays(q) \/ Work!Withdrawn(q)
  <2>1. ~Work!Granted(q)
    <3>1. run'[q].claim = run[q].claim \/ run'[q].claim = NoClaim
      BY <1>4, <1>7 DEF Kept, Cancelled
    <3>2. run'[q].claim \notin Claims \/ attempt[run'[q].claim].status # "absent"
      BY <3>1, NullsAssumption DEF ClaimsUsed
    <3> QED BY <3>2 DEF Work!Granted
  <2>2. CASE Kept(q)
    <3>1. JobState(q)' = JobState(q)
      BY <1>1, <2>2, JobStates DEF Kept
    <3> HIDE DEF JobState
    <3> QED BY <2>1, <2>2, <3>1 DEF Kept, Work!Stays
  <2>3. CASE Cancelled(q)
    BY <2>1, <2>3 DEF Cancelled, Work!Withdrawn, JobState, ActiveRun, ActiveRunStatuses
  <2> QED BY <1>4, <1>7, <2>1, <2>2, <2>3
<1>8. Work!Next
  <2>1. {b \in Claims : attempt[b].status # "absent"}'
          = {b \in Claims : attempt[b].status # "absent"} \cup {c}
    BY <1>5
  <2>2. {q \in RunIds : Work!Granted(q)} = {r}
    BY <1>6, <1>7
  <2>3. [q \in RunIds |-> run[q].claim]'[r] = c
    BY <1>3
  <2> HIDE DEF JobState
  <2> QED BY <1>1, <1>6, <1>7, <2>1, <2>2, <2>3, MappedTypes DEF Work!Next
<1>9. ClaimsUsed'
  <2>1. ASSUME NEW q \in RunIds
        PROVE  /\ run'[q].claim = NoClaim \/ attempt'[run'[q].claim].status # "absent"
               /\ run'[q].status # "absent" \/ run'[q] = BlankRun
    <3>1. CASE q = r
      BY <1>3, <1>5, <3>1
    <3>2. CASE q # r
      <4>1. run'[q].claim \in Claims \cup {NoClaim}
        BY <1>1 DEF Typed, Run
      <4>2. run'[q].status = "absent" => run'[q] = run[q]
        BY <1>4, <3>2 DEF ClaimNext, Cancelled, Kept, EndedRun, Outdated, ActiveRun, ActiveRunStatuses
      <4>3. run'[q].claim = run[q].claim \/ run'[q].claim = NoClaim
        BY <1>4, <3>2 DEF Kept, Cancelled
      <4>4. run'[q].claim = NoClaim \/ attempt[run'[q].claim].status # "absent"
        BY <4>3 DEF ClaimsUsed
      <4>5. run'[q].status = run[q].status \/ run'[q].status = "cancelled"
        BY <1>4, <3>2 DEF Kept, Cancelled
      <4> QED BY <1>5, <4>1, <4>2, <4>4, <4>5 DEF ClaimsUsed
    <3> QED BY <3>1, <3>2
  <2>2. ASSUME NEW b \in Claims, attempt'[b].status = "absent"
        PROVE  attempt'[b] = BlankAttempt
    <3>1. attempt[b].status = "absent" /\ b # c
      BY <1>5, <2>2
    <3>2. b # run[r].claim
      BY <3>1, NullsAssumption DEF ClaimsUsed
    <3>3. attempt'[b] = attempt[b]
      BY <3>1, <3>2 DEF ClaimNext, CancelledAttempts
    <3> QED BY <3>1, <3>3 DEF ClaimsUsed
  <2> QED BY <2>1, <2>2 DEF ClaimsUsed
<1> QED BY <1>8, <1>9

--------------------------------------------------------------------------------
(* Every other transaction *)

LEMMA UntouchedQueue ==
  ASSUME run' = run, attempt' = attempt
  PROVE  NoNewLease
BY DEF NoNewLease, Kept

\* Cancelling a set of runs leaves every other run and every unused claim alone.
LEMMA CancelledQueue ==
  ASSUME TypeOK, NEW S \in SUBSET RunIds, \A r \in S : ActiveRun(r), NEW A,
         run' = [r \in RunIds |-> IF r \in S THEN EndedRun(r, "cancelled") ELSE run[r]],
         attempt' = CancelledAttempts(A)
  PROVE  NoNewLease
<1>1. ASSUME NEW r \in RunIds
      PROVE  (Kept(r) \/ Cancelled(r)) /\ (run'[r].status = "absent" => run'[r] = run[r])
  <2>1. run[r] \in Run
    BY DEF TypeOK
  <2> QED BY <2>1 DEF Kept, Cancelled, EndedRun, Run
<1>2. ASSUME NEW c \in Claims
      PROVE  /\ attempt'[c].status = "absent" <=> attempt[c].status = "absent"
             /\ attempt'[c].status = "absent" => attempt'[c] = attempt[c]
  <2>1. attempt[c] \in Attempt
    BY DEF TypeOK
  <2> QED BY <2>1 DEF CancelledAttempts, Attempt
<1> QED BY <1>1, <1>2 DEF NoNewLease

LEMMA RequeuedQueue ==
  ASSUME TypeOK, NEW tab, NEW T, NEW wanted, Requeue(tab, T, wanted)
  PROVE  NoNewLease
<1> DEFINE needed == {t \in wanted : tab[t].assignee \in active}
           free   == {r \in RunIds : run[r].status = "absent"}
<1>1. PICK job \in [free -> needed \cup {0}] :
        /\ run' = [r \in RunIds |->
                    IF r \in free
                    THEN IF job[r] = 0 THEN run[r]
                         ELSE NewRun(job[r], tab[job[r]].revision, tab[job[r]].assignee)
                    ELSE IF r \in ActiveRunsOf(T) THEN EndedRun(r, "cancelled") ELSE run[r]]
        /\ attempt' = CancelledAttempts(ActiveRunsOf(T))
  BY DEF Requeue
<1>2. ASSUME NEW r \in RunIds
      PROVE  /\ Kept(r) \/ Queued(r) \/ Cancelled(r)
             /\ run'[r].status = "absent" => run'[r] = run[r]
  <2>1. run[r] \in Run
    BY DEF TypeOK
  <2>2. CASE run'[r] = run[r]
    BY <2>2 DEF Kept
  <2>3. CASE r \in free /\ job[r] # 0
    <3>1. run'[r] = NewRun(job[r], tab[job[r]].revision, tab[job[r]].assignee)
      BY <1>1, <2>3
    <3> QED BY <2>3, <3>1 DEF Queued, NewRun, BlankRun
  <2>4. CASE r \in ActiveRunsOf(T) /\ r \notin free
    <3>1. run'[r] = EndedRun(r, "cancelled")
      BY <1>1, <2>4
    <3> QED BY <2>1, <2>4, <3>1 DEF Cancelled, EndedRun, ActiveRunsOf, Run
  <2> QED BY <1>1, <2>2, <2>3, <2>4
<1>3. ASSUME NEW c \in Claims
      PROVE  /\ attempt'[c].status = "absent" <=> attempt[c].status = "absent"
             /\ attempt'[c].status = "absent" => attempt'[c] = attempt[c]
  <2>1. attempt[c] \in Attempt
    BY DEF TypeOK
  <2> QED BY <1>1, <2>1 DEF CancelledAttempts, Attempt
<1> QED BY <1>2, <1>3 DEF NoNewLease

LEMMA CancelRunsQueue ==
  ASSUME TypeOK, NEW T, CancelRuns(T)
  PROVE  NoNewLease
BY CancelledQueue DEF CancelRuns, ActiveRunsOf

LEMMA EndedLeaseQueue ==
  ASSUME TypeOK, NEW r \in RunIds, NEW c \in Claims, Leased(r, c), NEW row, NEW status,
         row.status \in {"queued", "retry_wait", "awaiting_input", "completed"},
         row.claim = NoClaim, status # "absent", EndLease(r, c, row, status)
  PROVE  NoNewLease
<1>1. ASSUME NEW q \in RunIds
      PROVE  (Kept(q) \/ Returned(q)) /\ (run'[q].status = "absent" => run'[q] = run[q])
  BY DEF EndLease, Leased, Kept, Returned, TypeOK
<1>2. ASSUME NEW b \in Claims
      PROVE  /\ attempt'[b].status = "absent" <=> attempt[b].status = "absent"
             /\ attempt'[b].status = "absent" => attempt'[b] = attempt[b]
  <2>1. attempt[b] \in Attempt
    BY DEF TypeOK
  <2> QED BY <2>1 DEF EndLease, Leased, Attempt, TypeOK
<1> QED BY <1>1, <1>2 DEF NoNewLease

LEMMA CreationQueue ==
  ASSUME TypeOK, AssignSome \/ SplitSome
  PROVE  NoNewLease
<1>1. CASE AssignSome
  <2>1. PICK a, u, D, i, roster : AssignTask(a, u, D, i, roster)
    BY <1>1 DEF AssignSome
  <2>2. ASSUME NEW t, CreateTask(t, a, u, D, i, roster)
        PROVE  NoNewLease
    BY <2>2, RequeuedQueue DEF CreateTask, Restart
  <2>3. ASSUME NEW t, NEW tighter, MergeTask(t, u, D, tighter, roster)
        PROVE  NoNewLease
    BY <2>3, RequeuedQueue, UntouchedQueue DEF MergeTask, Restart
  <2> QED BY <2>1, <2>2, <2>3 DEF AssignTask
<1>2. CASE SplitSome
  <2>1. PICK p, kids : \E owner \in [kids -> Users] : SplitTask(p, kids, owner)
    BY <1>2 DEF SplitSome
  <2> QED BY <2>1, RequeuedQueue DEF SplitTask
<1> QED BY <1>1, <1>2

LEMMA EditQueue ==
  ASSUME TypeOK, NEW t \in TaskIds, EditTask(t) \/ ReviewTask(t)
  PROVE  NoNewLease
<1>1. CASE EditTask(t)
  BY <1>1, RequeuedQueue, UntouchedQueue
     DEF EditTask, UpdateTaskStatus, ReassignTask, UpdateContent, ReplaceParticipants, Restart
<1>2. CASE ReviewTask(t)
  BY <1>2, RequeuedQueue, UntouchedQueue, CancelRunsQueue
     DEF ReviewTask, SubmitTask, AcceptTask, RejectTask, Restart
<1> QED BY <1>1, <1>2

LEMMA WithdrawQueue ==
  ASSUME TypeOK, ClaimsUsed, NEW t \in TaskIds, WithdrawTask(t)
  PROVE  NoNewLease
<1>1. CASE \E s \in TaskIds \cup {0} : CancelTask(t, s)
  BY <1>1, CancelRunsQueue DEF CancelTask
<1>2. CASE DeleteTask(t)
  <2>1. PICK tree \in SUBSET TaskIds :
          LET lost == {r \in RunIds : run[r].task \in tree}
          IN /\ run' = [r \in RunIds |->
                         IF r \in lost THEN [BlankRun EXCEPT !.status = "gone"] ELSE run[r]]
             /\ attempt' = [c \in Claims |->
                             IF attempt[c].run \in lost
                             THEN [BlankAttempt EXCEPT !.status = "gone"] ELSE attempt[c]]
    BY <1>2 DEF DeleteTask
  <2>2. 0 \notin tree
    BY DEF TaskIds
  <2>3. ASSUME NEW r \in RunIds
        PROVE  /\ Kept(r) \/ Erased(r)
               /\ run'[r].status = "absent" => run'[r] = run[r]
    <3>1. run[r].task \in tree => run[r].status # "absent"
      BY <2>2 DEF ClaimsUsed, BlankRun
    <3> QED BY <2>1, <3>1 DEF Kept, Erased, BlankRun
  <2>4. ASSUME NEW c \in Claims
        PROVE  /\ attempt'[c].status = "absent" <=> attempt[c].status = "absent"
               /\ attempt'[c].status = "absent" => attempt'[c] = attempt[c]
    <3>1. attempt[c].run \in RunIds => attempt[c].status # "absent"
      BY NullsAssumption DEF ClaimsUsed, BlankAttempt
    <3> QED BY <2>1, <3>1 DEF BlankAttempt
  <2> QED BY <2>3, <2>4 DEF NoNewLease
<1> QED BY <1>1, <1>2 DEF WithdrawTask

LEMMA ManageQueue ==
  ASSUME TypeOK, NEW w \in Workers, ManageWorker(w)
  PROVE  NoNewLease
<1>1. CASE DisableWorker(w) \/ EnableWorker(w)
  BY <1>1, UntouchedQueue DEF DisableWorker, EnableWorker
<1>2. CASE RevokeWorker(w)
  <2> DEFINE lost == {r \in RunIds : ActiveRun(r) /\ run[r].worker = w}
  <2>1. /\ run' = [r \in RunIds |-> IF r \in lost THEN EndedRun(r, "cancelled") ELSE run[r]]
        /\ attempt' = CancelledAttempts({r \in RunIds : run[r].worker = w})
    BY <1>2 DEF RevokeWorker
  <2>2. lost \in SUBSET RunIds /\ \A r \in lost : ActiveRun(r)
    OBVIOUS
  <2> HIDE DEF lost
  <2> QED BY <2>1, <2>2, CancelledQueue
<1>3. CASE CreateWorkerRun(w)
  <2>1. PICK r \in RunIds : /\ run[r].status = "absent"
                            /\ run' = [run EXCEPT ![r] = NewRun(0, 0, w)]
                            /\ attempt' = attempt
    BY <1>3 DEF CreateWorkerRun
  <2>2. ASSUME NEW q \in RunIds
        PROVE  (Kept(q) \/ Queued(q)) /\ (run'[q].status = "absent" => run'[q] = run[q])
    BY <2>1 DEF Kept, Queued, NewRun, BlankRun, TypeOK
  <2> QED BY <2>1, <2>2 DEF NoNewLease
<1> QED BY <1>1, <1>2, <1>3 DEF ManageWorker

LEMMA ExecuteQueue ==
  ASSUME TypeOK, NEW r \in RunIds, ExecuteRun(r)
  PROVE  NoNewLease \/ \E w \in Workers, c \in Claims : ClaimNext(w, r, c)
<1>1. run[r] \in Run
  BY DEF TypeOK
<1>2. CASE CancelWorkerRun(r)
  <2>1. run' = [q \in RunIds |-> IF q \in {r} THEN EndedRun(q, "cancelled") ELSE run[q]]
    BY <1>2 DEF CancelWorkerRun, TypeOK
  <2>2. ActiveRun(r) /\ attempt' = CancelledAttempts({r})
    BY <1>2 DEF CancelWorkerRun
  <2> QED BY <2>1, <2>2, CancelledQueue
<1>3. CASE LeaseAges(r) \/ BackoffElapses(r)
  <2>1. ASSUME NEW q \in RunIds
        PROVE  Kept(q) /\ (run'[q].status = "absent" => run'[q] = run[q])
    BY <1>1, <1>3 DEF LeaseAges, BackoffElapses, Kept, TypeOK, Run
  <2>2. attempt' = attempt
    BY <1>3 DEF LeaseAges, BackoffElapses
  <2> QED BY <2>1, <2>2 DEF NoNewLease
<1>4. ASSUME NEW c \in Claims, RenewLease(r, c)
      PROVE  NoNewLease
  <2>1. ASSUME NEW q \in RunIds
        PROVE  Kept(q) /\ (run'[q].status = "absent" => run'[q] = run[q])
    BY <1>1, <1>4 DEF RenewLease, Leased, Kept, TypeOK, Run
  <2>2. ASSUME NEW b \in Claims
        PROVE  /\ attempt'[b].status = "absent" <=> attempt[b].status = "absent"
               /\ attempt'[b].status = "absent" => attempt'[b] = attempt[b]
    <3>1. attempt[b] \in Attempt
      BY DEF TypeOK
    <3> QED BY <1>4, <3>1 DEF RenewLease, Leased, TypeOK, Attempt
  <2> QED BY <2>1, <2>2 DEF NoNewLease
<1>5. ASSUME NEW c \in Claims, NEW status \in {"queued", "retry_wait", "awaiting_input", "completed"}
      PROVE  EndedRun(r, status).status = status /\ EndedRun(r, status).claim = NoClaim
  BY <1>1 DEF EndedRun, Run
<1>6. ASSUME NEW c \in Claims, ReleaseClaim(r, c)
      PROVE  NoNewLease
  <2> DEFINE row == [EndedRun(r, "queued") EXCEPT !.ready = TRUE]
  <2>1. row.status = "queued" /\ row.claim = NoClaim
    BY <1>1 DEF EndedRun, Run
  <2>2. Leased(r, c) /\ EndLease(r, c, row, "released")
    BY <1>6 DEF ReleaseClaim
  <2> HIDE DEF row
  <2> QED BY <2>1, <2>2, EndedLeaseQueue
<1>7. ASSUME NEW c \in Claims, FailRun(r, c)
      PROVE  NoNewLease
  <2>1. PICK s \in {"awaiting_input", "retry_wait"} :
          /\ Leased(r, c)
          /\ EndLease(r, c, [EndedRun(r, s) EXCEPT !.failures = run[r].failures + 1], s)
    BY <1>7 DEF FailRun
  <2> DEFINE row == [EndedRun(r, s) EXCEPT !.failures = run[r].failures + 1]
  <2>2. row.status = s /\ row.claim = NoClaim
    BY <1>1 DEF EndedRun, Run
  <2> HIDE DEF row
  <2>3. EndLease(r, c, row, s)
    BY <2>1 DEF row
  <2> QED BY <2>1, <2>2, <2>3, EndedLeaseQueue
<1>8. ASSUME NEW c \in Claims, RequestInput(r, c) \/ \E succeeded \in BOOLEAN : CompleteRun(r, c, succeeded)
      PROVE  NoNewLease
  <2>1. PICK s \in {"awaiting_input", "completed"} :
          Leased(r, c) /\ EndLease(r, c, EndedRun(r, s), s)
    BY <1>8 DEF RequestInput, CompleteRun
  <2> QED BY <1>5, <2>1, EndedLeaseQueue
<1> QED BY <1>2, <1>3, <1>4, <1>6, <1>7, <1>8 DEF ExecuteRun

--------------------------------------------------------------------------------
LEMMA BoardStep ==
  ASSUME TypeOK, ClaimsUsed, Next
  PROVE  Work!Next /\ ClaimsUsed'
<1>1. Typed
  <2>1. CASE AssignSome \/ SplitSome
    BY <2>1, AssignType, SplitType
  <2>2. CASE \E t \in TaskIds : EditTask(t) \/ ReviewTask(t) \/ WithdrawTask(t)
    BY <2>2, EditType, ReviewType, WithdrawType
  <2>3. CASE \E w \in Workers : ManageWorker(w)
    BY <2>3, ManageType
  <2>4. CASE \E r \in RunIds : ExecuteRun(r)
    BY <2>4, ExecuteType
  <2> QED BY <2>1, <2>2, <2>3, <2>4 DEF Next
<1>2. NoNewLease \/ \E r \in RunIds, w \in Workers, c \in Claims : ClaimNext(w, r, c)
  <2>1. CASE AssignSome \/ SplitSome
    BY <2>1, CreationQueue
  <2>2. CASE \E t \in TaskIds : EditTask(t) \/ ReviewTask(t) \/ WithdrawTask(t)
    BY <2>2, EditQueue, WithdrawQueue
  <2>3. CASE \E w \in Workers : ManageWorker(w)
    BY <2>3, ManageQueue
  <2>4. CASE \E r \in RunIds : ExecuteRun(r)
    BY <2>4, ExecuteQueue
  <2> QED BY <2>1, <2>2, <2>3, <2>4 DEF Next
<1>3. CASE NoNewLease
  BY <1>1, <1>3, QuietStep
<1>4. CASE \E r \in RunIds, w \in Workers, c \in Claims : ClaimNext(w, r, c)
  BY <1>4, ClaimStep
<1> QED BY <1>2, <1>3, <1>4

LEMMA ClaimsUsedHolds == Spec => []ClaimsUsed
<1>1. Init => ClaimsUsed
  BY DEF Init, ClaimsUsed, BlankRun
<1>2. TypeOK /\ ClaimsUsed /\ [Next]_vars => ClaimsUsed'
  <2>1. ASSUME TypeOK, ClaimsUsed, UNCHANGED vars PROVE ClaimsUsed'
    BY <2>1 DEF vars, ClaimsUsed
  <2> QED BY <2>1, BoardStep
<1> QED BY <1>1, <1>2, TypeCorrect, PTL DEF Spec

\* The run tables implement the queue of LeasedWork: each lease they hand out
\* is fresh and exclusive, only the holder of a lease settles a run, and a
\* settled, withdrawn or deleted run is never leased again.
THEOREM BoardImplementsQueue == Spec => ImplementsLeasedWork
<1>1. Init => Work!Init
  BY DEF Init, Work!Init, JobState, BlankRun, BlankAttempt
<1>2. TypeOK /\ ClaimsUsed /\ [Next]_vars => [Work!Next]_(Work!vars)
  <2>1. ASSUME UNCHANGED vars PROVE UNCHANGED Work!vars
    BY <2>1 DEF vars, Work!vars, JobState
  <2> QED BY <2>1, BoardStep
<1> QED BY <1>1, <1>2, TypeCorrect, ClaimsUsedHolds, PTL DEF Spec, ImplementsLeasedWork, Work!Spec

--------------------------------------------------------------------------------
(* The safety properties *)

\* A run points at a task that exists and has a revision no older than the run's.
RunsHaveTasks ==
  \A r \in RunIds : run[r].task # 0 =>
    /\ Present(run[r].task)
    /\ run[r].revision <= task[run[r].task].revision

\* Recording a result raised the revision it was recorded for.
ResultsAreOld ==
  \A r \in RunIds : run[r].status = "completed" /\ run[r].task # 0 =>
    run[r].revision < task[run[r].task].revision

RunsHaveWorkers == \A r \in RunIds : ActiveRun(r) => run[r].worker \in Workers

\* An id without a row has no parent and waits for nothing.
NoRowNoLinks == \A t \in TaskIds : ~Present(t) => task[t].parent = 0 /\ task[t].deps = {}

TableInv ==
  NoRowNoLinks /\ DepsPointBack /\ UnfinishedBelowSplit /\ OwnersNeverParticipate

QueueInv ==
  /\ RunsHaveTasks /\ RunsHaveWorkers /\ ResultsAreOld
  /\ OneActiveRunPerTask /\ OneResultPerRevision
  /\ LeaseMatchesAttempt /\ OneClaimPerWorker

BoardInv == TypeOK /\ ClaimsUsed /\ TableInv /\ QueueInv /\ ClaimedRunIsCurrent

--------------------------------------------------------------------------------
(* What a transaction does to the table of tasks *)

IsRow(row) == row.status \in TaskStatuses

DepsBack(tab, t) == \A d \in tab[t].deps : d < t /\ Present(d)

RolesApart(row) ==
  \A u \in Named(row.role) : u \notin Workers /\ u # row.assigner /\ u # row.assignee

\* Row t changed from what it is now to what it is in tab.
Edited(t, tab) ==
  /\ Present(t)
  /\ IsRow(tab[t])
  /\ tab[t].revision >= task[t].revision
  /\ tab[t].parent = task[t].parent
  /\ tab[t].assigner = task[t].assigner
  /\ task[t].status \in EndedStatuses => tab[t].status = task[t].status
  /\ task[t].status = "split" => tab[t].status = "split"
  /\ DepsBack(tab, t)
  /\ RolesApart(tab[t])

Created(t, tab) ==
  /\ task[t].status = "absent"
  /\ tab[t].status = "pending"
  /\ tab[t].parent # 0 => tab[tab[t].parent].status = "split"
  /\ DepsBack(tab, t)
  /\ RolesApart(tab[t])

\* Row p is split into children.
NewlySplit(p, tab) ==
  /\ tab[p].status = "split"
  /\ task[p].status # "split"

NewlyEnded(t, tab) ==
  /\ tab[t].status \in EndedStatuses
  /\ task[t].status \notin EndedStatuses

TableStep(tab) ==
  /\ tab \in [TaskIds -> Task]
  /\ \A t \in TaskIds : tab[t] = task[t] \/ Edited(t, tab) \/ Created(t, tab)
  /\ \A p \in TaskIds : NewlySplit(p, tab) =>
       \E k \in TaskIds : tab[k].parent = p /\ tab[k].status = "pending"

\* The transaction leaves tab, or ends a task in tab and goes on with cascadeUp
\* at its parent.
TaskStep(tab) ==
  /\ TableStep(tab)
  /\ \/ task' = tab /\ \A t \in TaskIds : ~NewlyEnded(t, tab)
     \/ \E p : /\ CascadeUp(tab, p)
               /\ \A t \in TaskIds : NewlyEnded(t, tab) => tab[t].parent = p

\* The row of t in tab after cascadeUp: a split ancestor was completed.
Topped(t, tab) ==
  /\ tab[t].status = "split"
  /\ task'[t] = [tab[t] EXCEPT !.status = CompletionStatus(tab[t]), !.revision = @ + 1]

\* What the frame says of each row, in the terms the invariants use.
Grown(t) ==
  /\ Present(t) => /\ Present(t)'
                   /\ task'[t].revision >= task[t].revision
                   /\ task'[t].parent = task[t].parent
  /\ task[t].status \in EndedStatuses \cup {"gone"} => task'[t].status = task[t].status
  /\ ~Present(t)' => task'[t] = task[t]

LEMMA CascadeShape ==
  ASSUME NEW tab \in [TaskIds -> Task], NEW p, CascadeUp(tab, p)
  PROVE  \E chain \in SUBSET TaskIds :
           /\ IsCascade(tab, p, chain)
           /\ \A t \in TaskIds : IF t \in chain THEN Topped(t, tab) ELSE task'[t] = tab[t]
<1>1. PICK chain \in SUBSET {a \in TaskIds : tab[a].status = "split"} :
        IsCascade(tab, p, chain) /\ task' = Completed(tab, chain)
  BY DEF CascadeUp
<1>2. \A t \in TaskIds : IF t \in chain THEN Topped(t, tab) ELSE task'[t] = tab[t]
  BY <1>1 DEF Completed, Topped
<1> QED BY <1>1, <1>2

LEMMA ToppedRow ==
  ASSUME NEW tab \in [TaskIds -> Task], NEW t \in TaskIds, Topped(t, tab)
  PROVE  /\ tab[t].status = "split"
         /\ task'[t].status = CompletionStatus(tab[t])
         /\ task'[t].status \in {"accepted", "done"}
         /\ task'[t].revision = tab[t].revision + 1
         /\ task'[t].parent = tab[t].parent
         /\ task'[t].assigner = tab[t].assigner
         /\ task'[t].assignee = tab[t].assignee
         /\ task'[t].deps = tab[t].deps
         /\ task'[t].role = tab[t].role
<1>1. tab[t] \in Task
  OBVIOUS
<1> QED BY <1>1, CompletionStatusType DEF Topped, Task

\* Each row of the table after the step.
LEMMA TaskStepRow ==
  ASSUME NEW tab, TaskStep(tab), NEW t \in TaskIds
  PROVE  /\ tab[t] \in Task
         /\ tab[t] = task[t] \/ Edited(t, tab) \/ Created(t, tab)
         /\ task'[t] = tab[t] \/ Topped(t, tab)
<1>1. tab \in [TaskIds -> Task]
  BY DEF TaskStep, TableStep
<1>2. CASE task' = tab
  BY <1>1, <1>2 DEF TaskStep, TableStep
<1>3. ASSUME NEW p, CascadeUp(tab, p) PROVE task'[t] = tab[t] \/ Topped(t, tab)
  BY <1>1, <1>3, CascadeShape
<1> QED BY <1>1, <1>2, <1>3 DEF TaskStep, TableStep

LEMMA TaskStepGrows ==
  ASSUME TypeOK, NEW tab, TaskStep(tab), NEW t \in TaskIds
  PROVE  Grown(t)
<1>1. /\ tab[t] \in Task
      /\ tab[t] = task[t] \/ Edited(t, tab) \/ Created(t, tab)
      /\ task'[t] = tab[t] \/ Topped(t, tab)
  BY TaskStepRow
<1>2. tab \in [TaskIds -> Task] /\ task[t] \in Task
  BY DEF TypeOK, TaskStep, TableStep
<1>3. tab[t].revision \in Nat /\ task[t].revision \in Nat
  BY <1>1, <1>2 DEF Task
<1>4. CASE task'[t] = tab[t]
  BY <1>1, <1>3, <1>4 DEF Grown, Edited, Created, IsRow, Present, TaskStatuses, OpenStatuses,
                          ClosedStatuses, EndedStatuses
<1>5. CASE Topped(t, tab)
  <2>1. /\ tab[t].status = "split"
        /\ task'[t].status \in {"accepted", "done"}
        /\ task'[t].revision = tab[t].revision + 1
        /\ task'[t].parent = tab[t].parent
    BY <1>2, <1>5, ToppedRow
  <2>2. tab[t] = task[t] \/ Edited(t, tab)
    BY <1>1, <2>1 DEF Created
  <2> QED BY <1>3, <2>1, <2>2 DEF Grown, Edited, IsRow, Present, TaskStatuses, OpenStatuses,
                                  ClosedStatuses, EndedStatuses
<1> QED BY <1>1, <1>4, <1>5

LEMMA TableInvariants ==
  ASSUME TypeOK, TableInv, NEW tab, TaskStep(tab)
  PROVE  TableInv'
<1>1. ASSUME NEW t \in TaskIds
      PROVE  /\ Grown(t)
             /\ tab[t] \in Task
             /\ tab[t] = task[t] \/ Edited(t, tab) \/ Created(t, tab)
             /\ task'[t] = tab[t] \/ Topped(t, tab)
  BY TaskStepGrows, TaskStepRow
<1>2. tab \in [TaskIds -> Task]
  BY DEF TaskStep, TableStep
<1>3. ASSUME NEW t \in TaskIds
      PROVE  /\ task'[t].parent = tab[t].parent
             /\ task'[t].assigner = tab[t].assigner
             /\ task'[t].assignee = tab[t].assignee
             /\ task'[t].deps = tab[t].deps
             /\ task'[t].role = tab[t].role
  BY <1>1, <1>2, ToppedRow
<1>4. NoRowNoLinks'
  BY <1>1 DEF NoRowNoLinks, Grown, TableInv, Present
<1>5. DepsPointBack'
  <2>1. ASSUME NEW t \in TaskIds, NEW d \in tab[t].deps PROVE d < t /\ Present(d)'
    <3>1. d \in TaskIds /\ task[t] \in Task
      BY <1>1 DEF Task, TypeOK
    <3>2. d < t /\ Present(d)
      BY <1>1 DEF Edited, Created, DepsBack, DepsPointBack, TableInv
    <3> QED BY <1>1, <3>1, <3>2 DEF Grown
  <2> QED BY <1>3, <2>1 DEF DepsPointBack
<1>6. OwnersNeverParticipate'
  <2>1. ASSUME NEW t \in TaskIds PROVE RolesApart(tab[t])
    BY <1>1 DEF Edited, Created, RolesApart, OwnersNeverParticipate, TableInv
  <2>2. \A t \in TaskIds : Named(task'[t].role) = Named(tab[t].role)
    BY <1>3 DEF Named
  <2> QED BY <1>3, <2>1, <2>2 DEF OwnersNeverParticipate, RolesApart
<1>7. UnfinishedBelowSplit'
  <2> SUFFICES ASSUME NEW k \in TaskIds, Present(k)', task'[k].parent # 0,
                      task'[k].status \notin EndedStatuses
               PROVE  task'[task'[k].parent].status = "split"
    BY DEF UnfinishedBelowSplit
  <2> DEFINE p == tab[k].parent
  <2>1. p \in TaskIds /\ task'[k].parent = p
    BY <1>1, <1>3 DEF Task
  <2>2. tab[k].status \notin EndedStatuses /\ IsRow(tab[k])
    BY <1>1, <1>2, ToppedRow DEF EndedStatuses, Present, IsRow, TaskStatuses, ClosedStatuses
  <2>3. tab[p].status = "split"
    <3>1. CASE Created(k, tab)
      BY <2>1, <3>1 DEF Created, TaskIds
    <3>2. CASE tab[k] = task[k] \/ Edited(k, tab)
      <4>1. /\ Present(k) /\ task[k].parent = p
            /\ task[k].status \notin EndedStatuses
        BY <2>2, <3>2 DEF Edited, IsRow, Present
      <4>2. task[p].status = "split"
        BY <2>1, <4>1 DEF UnfinishedBelowSplit, TableInv, TaskIds
      <4> QED BY <1>1, <2>1, <4>2 DEF Edited, Created
    <3> QED BY <1>1, <3>1, <3>2
  <2>4. CASE task' = tab
    BY <2>1, <2>3, <2>4
  <2>5. ASSUME NEW q, CascadeUp(tab, q) PROVE task'[p].status = "split"
    <3>1. PICK chain \in SUBSET TaskIds :
            /\ IsCascade(tab, q, chain)
            /\ \A t \in TaskIds : IF t \in chain THEN Topped(t, tab) ELSE task'[t] = tab[t]
      BY <1>2, <2>5, CascadeShape
    <3>2. p \notin chain
      <4> SUFFICES ASSUME p \in chain PROVE FALSE
        OBVIOUS
      <4>1. Settled(tab[k]) \/ (k \in chain /\ CompletionStatus(tab[k]) = "accepted")
        BY <2>1, <3>1 DEF IsCascade
      <4>2. k \in chain /\ task'[k].status = "accepted"
        BY <1>2, <2>2, <3>1, <4>1, ToppedRow DEF Settled, EndedStatuses
      <4> QED BY <4>2 DEF EndedStatuses
    <3> QED BY <2>1, <2>3, <3>1, <3>2
  <2> QED BY <2>1, <2>4, <2>5 DEF TaskStep
<1> QED BY <1>4, <1>5, <1>6, <1>7 DEF TableInv

\* Deleting a subtree leaves no row that points into it.
LEMMA DeletedRows ==
  ASSUME TypeOK, NEW t \in TaskIds, DeleteTask(t)
  PROVE  \E tree \in SUBSET TaskIds :
           /\ IsSubtree(t, tree)
           /\ \A k \in tree : Present(k) /\ task'[k] = [BlankTask EXCEPT !.status = "gone"]
           /\ \A k \in TaskIds \ tree :
                /\ task'[k].deps = task[k].deps \ tree
                /\ task'[k].status = task[k].status
                /\ task'[k].revision = task[k].revision
                /\ task'[k].assigner = task[k].assigner
                /\ task'[k].assignee = task[k].assignee
                /\ task'[k].parent = task[k].parent
                /\ task'[k].role = task[k].role
           /\ run' = [r \in RunIds |->
                        IF run[r].task \in tree THEN [BlankRun EXCEPT !.status = "gone"]
                        ELSE run[r]]
           /\ attempt' = [c \in Claims |->
                            IF attempt[c].run \in RunIds /\ run[attempt[c].run].task \in tree
                            THEN [BlankAttempt EXCEPT !.status = "gone"] ELSE attempt[c]]
           /\ active' = active
<1>1. PICK tree \in SUBSET {k \in TaskIds : Present(k)} :
        LET lost == {r \in RunIds : run[r].task \in tree}
        IN /\ IsSubtree(t, tree)
           /\ task' = [k \in TaskIds |->
                         IF k \in tree THEN [BlankTask EXCEPT !.status = "gone"]
                         ELSE [task[k] EXCEPT !.deps = @ \ tree]]
           /\ run' = [r \in RunIds |->
                        IF r \in lost THEN [BlankRun EXCEPT !.status = "gone"] ELSE run[r]]
           /\ attempt' = [c \in Claims |->
                            IF attempt[c].run \in lost
                            THEN [BlankAttempt EXCEPT !.status = "gone"] ELSE attempt[c]]
  BY DEF DeleteTask
<1>2. ASSUME NEW k \in TaskIds \ tree
      PROVE  /\ task'[k].deps = task[k].deps \ tree
             /\ task'[k].status = task[k].status
             /\ task'[k].revision = task[k].revision
             /\ task'[k].assigner = task[k].assigner
             /\ task'[k].assignee = task[k].assignee
             /\ task'[k].parent = task[k].parent
             /\ task'[k].role = task[k].role
  <2>1. task[k] \in Task /\ task'[k] = [task[k] EXCEPT !.deps = @ \ tree]
    BY <1>1 DEF TypeOK
  <2> QED BY <2>1 DEF Task
<1> QED BY <1>1, <1>2 DEF DeleteTask

LEMMA DeleteInvariants ==
  ASSUME TypeOK, TableInv, NEW t \in TaskIds, DeleteTask(t)
  PROVE  TableInv'
<1>1. PICK tree \in SUBSET TaskIds :
        /\ IsSubtree(t, tree)
        /\ \A k \in tree : Present(k) /\ task'[k] = [BlankTask EXCEPT !.status = "gone"]
        /\ \A k \in TaskIds \ tree :
             /\ task'[k].deps = task[k].deps \ tree
             /\ task'[k].status = task[k].status
             /\ task'[k].assigner = task[k].assigner
             /\ task'[k].assignee = task[k].assignee
             /\ task'[k].parent = task[k].parent
             /\ task'[k].role = task[k].role
  BY DeletedRows
<1>2. ASSUME NEW k \in tree
      PROVE  /\ ~Present(k)' /\ task'[k].parent = 0 /\ task'[k].deps = {}
             /\ Named(task'[k].role) = {}
  BY <1>1 DEF BlankTask, NoRoles, Named, Present, TaskStatuses, OpenStatuses, ClosedStatuses
<1>3. \A k \in TaskIds \ tree : Present(k)' <=> Present(k)
  BY <1>1 DEF Present
<1>4. NoRowNoLinks'
  BY <1>1, <1>2, <1>3 DEF NoRowNoLinks, TableInv
<1>5. DepsPointBack'
  <2>1. ASSUME NEW k \in TaskIds \ tree, NEW d \in task'[k].deps PROVE d < k /\ Present(d)'
    <3>1. d \in TaskIds \ tree /\ d \in task[k].deps
      BY <1>1, <2>1 DEF TypeOK, Task
    <3> QED BY <1>3, <3>1 DEF DepsPointBack, TableInv
  <2> QED BY <1>2, <2>1 DEF DepsPointBack
<1>6. UnfinishedBelowSplit'
  <2>1. ASSUME NEW k \in TaskIds \ tree, Present(k)', task'[k].parent # 0,
               task'[k].status \notin EndedStatuses
        PROVE  task'[task'[k].parent].status = "split"
    <3>1. Present(k) /\ task[k].parent \in TaskIds /\ task'[k].parent = task[k].parent
      BY <1>1, <1>3, <2>1 DEF TypeOK, Task
    <3>2. task[k].parent \notin tree
      BY <1>1, <2>1, <3>1 DEF IsSubtree
    <3>3. task[task[k].parent].status = "split"
      BY <1>1, <2>1, <3>1 DEF UnfinishedBelowSplit, TableInv
    <3> QED BY <1>1, <3>1, <3>2, <3>3
  <2> QED BY <1>2, <2>1 DEF UnfinishedBelowSplit
<1>7. OwnersNeverParticipate'
  <2>1. \A k \in TaskIds \ tree : Named(task'[k].role) = Named(task[k].role)
    BY <1>1 DEF Named
  <2> QED BY <1>1, <1>2, <2>1 DEF OwnersNeverParticipate, TableInv
<1> QED BY <1>4, <1>5, <1>6, <1>7 DEF TableInv

\* A split task all of whose children have ended was one before, unless a child
\* was deleted: cascadeUp starts above the child that ended and stops nowhere
\* below it.
LEMMA CascadeReaches ==
  ASSUME TypeOK, TableInv, NEW tab, TaskStep(tab), NEW p \in TaskIds, Stranded(p)'
  PROVE  Stranded(p)
<1>1. TableInv' /\ tab \in [TaskIds -> Task]
  BY TableInvariants DEF TaskStep, TableStep
<1>2. ASSUME NEW t \in TaskIds
      PROVE  /\ Grown(t)
             /\ tab[t] \in Task
             /\ tab[t] = task[t] \/ Edited(t, tab) \/ Created(t, tab)
             /\ task'[t] = tab[t] \/ Topped(t, tab)
             /\ task'[t].parent = tab[t].parent
             /\ Topped(t, tab) => task'[t].status \in {"accepted", "done"}
                                  /\ task'[t].status = CompletionStatus(tab[t])
  BY <1>1, TaskStepGrows, TaskStepRow, ToppedRow
<1>3. task'[p].status = "split" /\ tab[p].status = "split"
  BY <1>2 DEF Stranded
\* No child that the step has left is unfinished.
<1>4. ASSUME NEW k \in TaskIds, tab[k].parent = p
      PROVE  task'[k].status \in EndedStatuses
  <2>1. task'[k].parent = p /\ p # 0
    BY <1>2, <1>4 DEF TaskIds
  <2>2. Present(k)'
    BY <1>1, <2>1 DEF NoRowNoLinks, TableInv
  <2> QED BY <2>1, <2>2 DEF Stranded
<1>5. task[p].status = "split"
  <2>1. ASSUME NewlySplit(p, tab) PROVE FALSE
    <3>1. PICK k \in TaskIds : tab[k].parent = p /\ tab[k].status = "pending"
      BY <2>1 DEF TaskStep, TableStep
    <3>2. task'[k].status = "pending"
      BY <1>2, <3>1 DEF Topped
    <3> QED BY <1>4, <3>1, <3>2 DEF EndedStatuses
  <2> QED BY <1>3, <2>1 DEF NewlySplit
<1>6. SUFFICES ASSUME NEW k \in TaskIds, Present(k), task[k].parent = p,
                      task[k].status \notin EndedStatuses
               PROVE  FALSE
  BY <1>5 DEF Stranded
<1>7. tab[k].parent = p /\ task'[k].status \in EndedStatuses
  BY <1>2, <1>4, <1>6 DEF Grown
<1>8. CASE task' = tab /\ \A t \in TaskIds : ~NewlyEnded(t, tab)
  BY <1>6, <1>7, <1>8 DEF NewlyEnded
<1>9. ASSUME NEW q, CascadeUp(tab, q),
             \A t \in TaskIds : NewlyEnded(t, tab) => tab[t].parent = q
      PROVE  FALSE
  <2>1. PICK chain \in SUBSET TaskIds :
          /\ IsCascade(tab, q, chain)
          /\ \A t \in TaskIds : IF t \in chain THEN Topped(t, tab) ELSE task'[t] = tab[t]
    BY <1>1, <1>9, CascadeShape
  <2>2. \A x \in TaskIds : tab[x].parent = p =>
          Settled(tab[x]) \/ (x \in chain /\ CompletionStatus(tab[x]) = "accepted")
    BY <1>2, <1>4, <2>1 DEF Settled, EndedStatuses
  <2>3. p = q \/ \E x \in chain : tab[x].parent = p /\ CompletionStatus(tab[x]) = "accepted"
    <3>1. CASE k \in chain
      BY <1>2, <1>7, <2>1, <3>1 DEF EndedStatuses
    <3>2. CASE k \notin chain
      BY <1>6, <1>7, <1>9, <2>1, <3>2 DEF NewlyEnded
    <3> QED BY <3>1, <3>2
  <2>4. p \in chain
    BY <1>3, <2>1, <2>2, <2>3 DEF IsCascade
  <2> QED BY <1>2, <1>3, <2>1, <2>4
<1> QED BY <1>8, <1>9 DEF TaskStep

--------------------------------------------------------------------------------
(* What a transaction does to the runs and their attempts *)

SameJob(r) ==
  /\ run'[r].task = run[r].task
  /\ run'[r].revision = run[r].revision
  /\ run'[r].worker = run[r].worker

SameRun(r) == SameJob(r) /\ run'[r].status = run[r].status /\ run'[r].claim = run[r].claim

\* A new run is bound to the revision its task has now.
Started(r) ==
  /\ run[r].status = "absent" /\ run'[r].status = "queued" /\ run'[r].claim = NoClaim
  /\ run'[r].worker \in active
  /\ run'[r].task # 0 => /\ Present(run[r].task)'
                         /\ run'[r].revision = task'[run'[r].task].revision

\* A result is recorded for the current revision, and raises it.
GivenBack(r) ==
  /\ SameJob(r) /\ Returned(r)
  /\ run'[r].status = "completed" /\ run[r].task # 0 =>
       /\ run[r].revision = task[run[r].task].revision
       /\ run[r].revision < task'[run[r].task].revision

Dropped(r) == SameJob(r) /\ Cancelled(r)

Removed(r) == Erased(r) /\ run[r].task # 0 /\ run'[r].task = 0

\* The new run of a task is its only active one.
NewAlone ==
  \A r, q \in RunIds :
    Started(r) /\ run'[r].task # 0 /\ run'[q].task = run'[r].task /\ ActiveRun(q)' => q = r

\* An attempt is live for as long as its run is left alone.
AttemptsFollow ==
  \A c \in Claims :
    IF attempt[c].status = "claimed"
    THEN IF SameRun(attempt[c].run)
         THEN attempt'[c].status = "claimed" /\ attempt'[c].run = attempt[c].run
         ELSE attempt'[c].status # "claimed"
    ELSE attempt'[c].status \in {attempt[c].status, "gone"}

QueueStep ==
  /\ \A r \in RunIds : SameRun(r) \/ Started(r) \/ GivenBack(r) \/ Dropped(r) \/ Removed(r)
  /\ \A r, q \in RunIds : GivenBack(r) /\ GivenBack(q) => r = q
  /\ NewAlone
  /\ AttemptsFollow

\* The tasks of the runs that stay exist and only grow older.
TasksStay ==
  \A r \in RunIds : run[r].task # 0 /\ ~Removed(r) =>
    Present(run[r].task)' /\ task'[run[r].task].revision >= task[run[r].task].revision

\* The row of t as far as a worker on it is concerned.
Frozen(t) ==
  /\ task'[t].status = task[t].status
  /\ task'[t].revision = task[t].revision
  /\ task'[t].assignee = task[t].assignee
  /\ task'[t].deps \subseteq task[t].deps

\* Under a lease that lasts the task stands, and its prerequisites as well.
Freezes ==
  \A r \in RunIds : run[r].status = "claimed" /\ SameRun(r) /\ run[r].task # 0 =>
    /\ Frozen(run[r].task)
    /\ \A d \in task'[run[r].task].deps : task[d].status = "accepted" => task'[d].status = "accepted"

LEMMA RunTypes ==
  ASSUME TypeOK, NEW r \in RunIds
  PROVE  /\ run[r].task \in TaskIds \cup {0} /\ run[r].revision \in Nat
         /\ run[r].worker \in Workers \cup {NoUser} /\ run[r].claim \in Claims \cup {NoClaim}
         /\ run[r].status \in RunStatuses \cup {"absent", "gone"} /\ run[r] \in Run
         /\ \A t \in TaskIds : task[t].revision \in Nat
BY DEF TypeOK, Run, Task

LEMMA LeaseParts ==
  ASSUME LeaseMatchesAttempt
  PROVE  /\ \A r \in RunIds : run[r].status = "claimed" =>
              /\ run[r].claim \in Claims
              /\ attempt[run[r].claim].status = "claimed"
              /\ attempt[run[r].claim].run = r
         /\ \A c \in Claims : attempt[c].status = "claimed" =>
              /\ attempt[c].run \in RunIds
              /\ run[attempt[c].run].status = "claimed"
              /\ run[attempt[c].run].claim = c
BY DEF LeaseMatchesAttempt, Leased

\* The queue invariants that survive every step but the grant of a lease as well.
LEMMA JobsHold ==
  ASSUME TypeOK, Typed, QueueInv, TasksStay,
         \A r \in RunIds :
           \/ SameJob(r) /\ run'[r].status = run[r].status
           \/ SameJob(r) /\ run'[r].status = "claimed" /\ ActiveRun(r)
           \/ Started(r) \/ GivenBack(r) \/ Dropped(r) \/ Removed(r),
         \A r, q \in RunIds : GivenBack(r) /\ GivenBack(q) => r = q,
         NewAlone
  PROVE  /\ RunsHaveTasks' /\ RunsHaveWorkers' /\ ResultsAreOld'
         /\ OneActiveRunPerTask' /\ OneResultPerRevision'
<1> DEFINE Stays(r) == SameJob(r) /\ run'[r].status = run[r].status
           Leases(r) == SameJob(r) /\ run'[r].status = "claimed" /\ ActiveRun(r)
<1>1. \A r \in RunIds : Stays(r) \/ Leases(r) \/ Started(r) \/ GivenBack(r) \/ Dropped(r) \/ Removed(r)
  OBVIOUS
<1>2. ASSUME NEW r \in RunIds, run'[r].task # 0, ~Started(r)
      PROVE  /\ SameJob(r) /\ ~Removed(r) /\ run[r].task = run'[r].task
             /\ run[r].task \in TaskIds
             /\ Present(run[r].task)'
             /\ run'[r].revision <= task[run[r].task].revision
             /\ task'[run[r].task].revision >= task[run[r].task].revision
             /\ task'[run[r].task].revision \in Nat
             /\ task[run[r].task].revision \in Nat
             /\ run[r].revision \in Nat
             /\ run'[r].task = run[r].task
  <2>1. SameJob(r) /\ ~Removed(r)
    BY <1>1, <1>2 DEF GivenBack, Dropped, Removed
  <2>2. run[r].task \in TaskIds /\ run[r].revision \in Nat /\ task[run[r].task].revision \in Nat
    BY <1>2, <2>1, RunTypes DEF SameJob
  <2>3. task'[run[r].task].revision \in Nat
    BY <2>2 DEF Typed, Task
  <2> QED BY <1>2, <2>1, <2>2, <2>3 DEF SameJob, TasksStay, RunsHaveTasks, QueueInv
<1>3. ASSUME NEW r \in RunIds, Started(r), run'[r].task # 0
      PROVE  Present(run[r].task)' /\ run'[r].revision = task'[run'[r].task].revision
             /\ run'[r].revision \in Nat
  BY <1>3 DEF Started, Typed, Run
<1>4. RunsHaveTasks'
  <2>1. ASSUME NEW r \in RunIds, run'[r].task # 0
        PROVE  Present(run[r].task)' /\ run'[r].revision <= task'[run'[r].task].revision
    <3>1. CASE Started(r)
      BY <1>3, <2>1, <3>1
    <3>2. CASE ~Started(r)
      BY <1>2, <2>1, <3>2 DEF SameJob
    <3> QED BY <3>1, <3>2
  <2> QED BY <2>1 DEF RunsHaveTasks
<1>5. RunsHaveWorkers'
  <2>1. ASSUME NEW r \in RunIds, ActiveRun(r)' PROVE run'[r].worker \in Workers
    <3>1. CASE Started(r)
      BY <3>1 DEF Started, TypeOK
    <3>2. CASE ~Started(r)
      <4>1. ActiveRun(r) /\ SameJob(r)
        BY <1>1, <2>1, <3>2 DEF GivenBack, Returned, Dropped, Cancelled, Removed, Erased, ActiveRun,
                                ActiveRunStatuses
      <4> QED BY <4>1 DEF SameJob, RunsHaveWorkers, QueueInv
    <3> QED BY <3>1, <3>2
  <2> QED BY <2>1 DEF RunsHaveWorkers
<1>6. ResultsAreOld'
  <2>1. ASSUME NEW r \in RunIds, run'[r].status = "completed", run'[r].task # 0
        PROVE  run'[r].revision < task'[run'[r].task].revision
    <3>1. ~Started(r)
      BY <2>1 DEF Started
    <3>2. CASE GivenBack(r)
      BY <2>1, <3>2 DEF GivenBack, SameJob
    <3>3. CASE run[r].status = "completed"
      <4>1. run[r].revision < task[run[r].task].revision
        BY <1>2, <2>1, <3>1, <3>3 DEF ResultsAreOld, QueueInv
      <4> QED BY <1>2, <2>1, <3>1, <4>1 DEF SameJob
    <3> QED BY <1>1, <2>1, <3>1, <3>2, <3>3 DEF Dropped, Cancelled, Removed, Erased
  <2> QED BY <2>1 DEF ResultsAreOld
<1>7. OneActiveRunPerTask'
  <2>1. ASSUME NEW r \in RunIds, NEW q \in RunIds, ActiveRun(r)', ActiveRun(q)',
               run'[r].task = run'[q].task, run'[r].task # 0
        PROVE  r = q
    <3>1. CASE Started(r) \/ Started(q)
      BY <2>1, <3>1 DEF NewAlone
    <3>2. CASE ~Started(r) /\ ~Started(q)
      <4>1. /\ ActiveRun(r) /\ ActiveRun(q)
            /\ run[r].task = run'[r].task /\ run[q].task = run'[q].task
        BY <1>1, <2>1, <3>2 DEF SameJob, GivenBack, Returned, Dropped, Cancelled, Removed, Erased,
                                ActiveRun, ActiveRunStatuses
      <4> QED BY <2>1, <4>1 DEF OneActiveRunPerTask, QueueInv
    <3> QED BY <3>1, <3>2
  <2> QED BY <2>1 DEF OneActiveRunPerTask
<1>8. OneResultPerRevision'
  <2>1. ASSUME NEW r \in RunIds, run'[r].status = "completed", run'[r].task # 0
        PROVE  /\ run[r].task = run'[r].task /\ run[r].revision = run'[r].revision
               /\ run[r].status = "completed" \/ GivenBack(r)
    <3>1. ~Started(r)
      BY <2>1 DEF Started
    <3> QED BY <1>1, <2>1, <3>1 DEF SameJob, GivenBack, Dropped, Cancelled, Removed, Erased
  <2>2. ASSUME NEW r \in RunIds, NEW q \in RunIds, run[r].status = "completed", GivenBack(q),
               run'[q].status = "completed", run[q].task = run[r].task, run[r].task # 0
        PROVE  run[r].revision # run[q].revision
    <3>1. run[q].revision = task[run[q].task].revision
      BY <2>2 DEF GivenBack
    <3>2. run[r].revision < task[run[r].task].revision
      BY <2>2 DEF ResultsAreOld, QueueInv
    <3> QED BY <2>2, <3>1, <3>2, RunTypes
  <2>3. ASSUME NEW r \in RunIds, NEW q \in RunIds,
               run'[r].status = "completed", run'[q].status = "completed",
               run'[r].task = run'[q].task, run'[r].task # 0,
               run'[r].revision = run'[q].revision
        PROVE  r = q
    <3>1. /\ run[r].task = run[q].task /\ run[r].task # 0
          /\ run[r].revision = run[q].revision
          /\ run[r].status = "completed" \/ GivenBack(r)
          /\ run[q].status = "completed" \/ GivenBack(q)
      BY <2>1, <2>3
    <3>2. CASE run[r].status = "completed" /\ run[q].status = "completed"
      BY <3>1, <3>2 DEF OneResultPerRevision, QueueInv
    <3> QED BY <2>2, <2>3, <3>1, <3>2
  <2> QED BY <2>3 DEF OneResultPerRevision
<1> QED BY <1>4, <1>5, <1>6, <1>7, <1>8

LEMMA QueueInvariants ==
  ASSUME TypeOK, Typed, QueueInv, TasksStay, QueueStep
  PROVE  QueueInv'
<1>1. \A r \in RunIds : SameRun(r) \/ Started(r) \/ GivenBack(r) \/ Dropped(r) \/ Removed(r)
  BY DEF QueueStep
<1>2. /\ RunsHaveTasks' /\ RunsHaveWorkers' /\ ResultsAreOld'
      /\ OneActiveRunPerTask' /\ OneResultPerRevision'
  <2>1. \A r \in RunIds : SameRun(r) => SameJob(r) /\ run'[r].status = run[r].status
    BY DEF SameRun
  <2> QED BY <1>1, <2>1, JobsHold DEF QueueStep
\* A run is leased after the step only under a lease it had before.
<1>3. ASSUME NEW r \in RunIds, run'[r].status = "claimed"
      PROVE  /\ SameRun(r) /\ run[r].status = "claimed"
             /\ run'[r].claim = run[r].claim /\ run'[r].worker = run[r].worker
  BY <1>1, <1>3 DEF SameRun, SameJob, Started, GivenBack, Returned, Dropped, Cancelled, Removed, Erased
<1>4. LeaseMatchesAttempt'
  <2>1. ASSUME NEW r \in RunIds, run'[r].status = "claimed"
        PROVE  run'[r].claim \in Claims /\ Leased(r, run[r].claim)'
    <3>1. /\ run[r].claim \in Claims
          /\ attempt[run[r].claim].status = "claimed"
          /\ attempt[run[r].claim].run = r
      BY <1>3, <2>1, LeaseParts DEF QueueInv
    <3>2. attempt'[run[r].claim].status = "claimed" /\ attempt'[run[r].claim].run = r
      BY <1>3, <2>1, <3>1 DEF QueueStep, AttemptsFollow
    <3> QED BY <1>3, <2>1, <3>1, <3>2 DEF Leased
  <2>2. ASSUME NEW c \in Claims, attempt'[c].status = "claimed"
        PROVE  attempt'[c].run \in RunIds /\ Leased(attempt[c].run, c)'
    <3>1. /\ attempt[c].status = "claimed" /\ SameRun(attempt[c].run)
          /\ attempt'[c].run = attempt[c].run
      BY <2>2 DEF QueueStep, AttemptsFollow
    <3>2. /\ attempt[c].run \in RunIds
          /\ run[attempt[c].run].status = "claimed"
          /\ run[attempt[c].run].claim = c
      BY <3>1, LeaseParts DEF QueueInv
    <3> QED BY <2>2, <3>1, <3>2 DEF SameRun, Leased
  <2> QED BY <2>1, <2>2 DEF LeaseMatchesAttempt
<1>5. OneClaimPerWorker'
  BY <1>3 DEF OneClaimPerWorker, QueueInv
<1> QED BY <1>2, <1>4, <1>5 DEF QueueInv

LEMMA CurrentHolds ==
  ASSUME TypeOK, ClaimedRunIsCurrent, QueueStep, Freezes
  PROVE  ClaimedRunIsCurrent'
<1> SUFFICES ASSUME NEW r \in RunIds, run'[r].status = "claimed", run'[r].task # 0
             PROVE  /\ TaskInHand(r)'
                    /\ \A d \in task'[run'[r].task].deps : task'[d].status = "accepted"
  BY DEF ClaimedRunIsCurrent
<1>1. SameRun(r) /\ run[r].status = "claimed" /\ run[r].task # 0
  BY DEF QueueStep, SameRun, SameJob, Started, GivenBack, Returned, Dropped, Cancelled, Removed, Erased
<1>2. /\ Frozen(run[r].task)
      /\ \A d \in task'[run[r].task].deps :
           task[d].status = "accepted" => task'[d].status = "accepted"
  BY <1>1 DEF Freezes
<1>3. TaskInHand(r) /\ \A d \in task[run[r].task].deps : task[d].status = "accepted"
  BY <1>1 DEF ClaimedRunIsCurrent
<1> QED BY <1>1, <1>2, <1>3 DEF TaskInHand, SameRun, SameJob, Frozen

--------------------------------------------------------------------------------
(* Transactions that cancel the runs of tasks and queue new ones *)

\* Run r will execute t, or is executing it.
Executes(r, t) ==
  /\ run[r].status \in {"queued", "claimed", "retry_wait"}
  /\ run[r].task = t
  /\ run[r].worker = task[t].assignee
  /\ run[r].revision = task[t].revision

\* No task loses its execution, except that its worker was just enabled.
NoneOrphaned == \A t \in TaskIds : Orphaned(t)' => Orphaned(t) \/ task[t].assignee \in active' \ active

\* The runs of the tasks in T are cancelled, those in W get new ones.
Sweep(T, W) ==
  /\ QueueStep
  /\ \A r \in RunIds : run[r].status # "absent" /\ r \notin ActiveRunsOf(T) => run'[r] = run[r]
  /\ \A r \in ActiveRunsOf(T) : run'[r].status = "cancelled"
  /\ \A t \in W : task'[t].assignee \in active => \E r \in RunIds : Executes(r, t)'
  /\ active' = active

LEMMA CancelledRun ==
  ASSUME TypeOK, NEW r \in RunIds, ActiveRun(r), run'[r] = EndedRun(r, "cancelled")
  PROVE  Dropped(r) /\ ~SameRun(r)
<1>1. run[r] \in Run
  BY RunTypes
<1> QED BY <1>1 DEF Dropped, SameRun, SameJob, Cancelled, EndedRun, Run, ActiveRun, ActiveRunStatuses

LEMMA CancelledFollow ==
  ASSUME TypeOK, LeaseMatchesAttempt, NEW S, attempt' = CancelledAttempts(S),
         \A r \in RunIds : run[r].status = "claimed" => (SameRun(r) <=> r \notin S)
  PROVE  AttemptsFollow
<1> SUFFICES ASSUME NEW c \in Claims
             PROVE  IF attempt[c].status = "claimed"
                    THEN IF SameRun(attempt[c].run)
                         THEN attempt'[c].status = "claimed" /\ attempt'[c].run = attempt[c].run
                         ELSE attempt'[c].status # "claimed"
                    ELSE attempt'[c].status \in {attempt[c].status, "gone"}
  BY DEF AttemptsFollow
<1>1. attempt[c] \in Attempt
  BY DEF TypeOK
<1>2. attempt'[c] = IF attempt[c].run \in S /\ attempt[c].status = "claimed"
                    THEN [attempt[c] EXCEPT !.status = "cancelled"] ELSE attempt[c]
  BY DEF CancelledAttempts
<1>3. attempt[c].status = "claimed" =>
        attempt[c].run \in RunIds /\ run[attempt[c].run].status = "claimed"
  BY LeaseParts
<1> QED BY <1>1, <1>2, <1>3 DEF Attempt

LEMMA UntouchedSweep ==
  ASSUME TypeOK, QueueInv, UNCHANGED <<run, attempt, active>>
  PROVE  Sweep({}, {})
<1>1. \A r \in RunIds : SameRun(r) /\ ~Started(r) /\ ~GivenBack(r)
  BY DEF SameRun, SameJob, Started, GivenBack, Returned
<1>2. AttemptsFollow
  <2>1. \A c \in Claims : attempt[c].status = "claimed" => SameRun(attempt[c].run)
    BY <1>1, LeaseParts DEF QueueInv
  <2> QED BY <2>1 DEF AttemptsFollow
<1>3. ActiveRunsOf({}) = {}
  BY DEF ActiveRunsOf
<1> QED BY <1>1, <1>2, <1>3 DEF Sweep, QueueStep, NewAlone

LEMMA CancelSweep ==
  ASSUME TypeOK, QueueInv, NEW T, CancelRuns(T), active' = active
  PROVE  Sweep(T, {})
<1>1. ASSUME NEW r \in RunIds, r \in ActiveRunsOf(T)
      PROVE  Dropped(r) /\ ~SameRun(r) /\ ~Started(r) /\ ~GivenBack(r) /\ run'[r].status = "cancelled"
  <2>1. run'[r] = EndedRun(r, "cancelled") /\ ActiveRun(r)
    BY <1>1 DEF CancelRuns, ActiveRunsOf
  <2>2. Dropped(r) /\ ~SameRun(r)
    BY <2>1, CancelledRun
  <2> QED BY <2>2 DEF Dropped, Cancelled, Started, GivenBack, Returned
<1>2. ASSUME NEW r \in RunIds, r \notin ActiveRunsOf(T)
      PROVE  run'[r] = run[r] /\ SameRun(r) /\ ~Started(r) /\ ~GivenBack(r)
  BY <1>2 DEF CancelRuns, SameRun, SameJob, Started, GivenBack, Returned
<1>3. AttemptsFollow
  <2>1. \A r \in RunIds : SameRun(r) <=> r \notin ActiveRunsOf(T)
    BY <1>1, <1>2
  <2> QED BY <2>1, CancelledFollow DEF CancelRuns, QueueInv
<1>4. ActiveRunsOf(T) \subseteq RunIds
  BY DEF ActiveRunsOf
<1> QED BY <1>1, <1>2, <1>3, <1>4 DEF Sweep, QueueStep, NewAlone

LEMMA RequeueSweep ==
  ASSUME TypeOK, Typed, QueueInv, ClaimsUsed, NEW T, NEW W \in SUBSET TaskIds,
         Requeue(task', T, W), active' = active,
         \A t \in W : Present(t)' /\ (t \in T \/ ~Present(t))
  PROVE  Sweep(T, W)
<1> DEFINE needed == {t \in W : task'[t].assignee \in active}
           free   == {r \in RunIds : run[r].status = "absent"}
<1>1. PICK job \in [free -> needed \cup {0}] :
        /\ \A t \in needed : \E r \in free : job[r] = t
        /\ \A r, q \in free : job[r] = job[q] /\ job[r] # 0 => r = q
        /\ run' = [r \in RunIds |->
                     IF r \in free
                     THEN IF job[r] = 0 THEN run[r]
                          ELSE NewRun(job[r], task'[job[r]].revision, task'[job[r]].assignee)
                     ELSE IF r \in ActiveRunsOf(T) THEN EndedRun(r, "cancelled") ELSE run[r]]
        /\ attempt' = CancelledAttempts(ActiveRunsOf(T))
  BY DEF Requeue
<1>2. ASSUME NEW r \in RunIds, r \in ActiveRunsOf(T)
      PROVE  Dropped(r) /\ ~SameRun(r) /\ ~Started(r) /\ ~GivenBack(r) /\ run'[r].status = "cancelled"
             /\ r \notin free
  <2>1. run'[r] = EndedRun(r, "cancelled") /\ ActiveRun(r) /\ r \notin free
    BY <1>1, <1>2 DEF ActiveRunsOf, ActiveRun, ActiveRunStatuses
  <2>2. Dropped(r) /\ ~SameRun(r)
    BY <2>1, CancelledRun, SMTT(30)
  <2> QED BY <2>1, <2>2 DEF Dropped, Cancelled, Started, GivenBack, Returned
<1>3. ASSUME NEW r \in RunIds, r \notin ActiveRunsOf(T), r \notin free
      PROVE  run'[r] = run[r] /\ SameRun(r) /\ ~Started(r) /\ ~GivenBack(r)
  BY <1>1, <1>3, SMTT(30) DEF SameRun, SameJob, Started, GivenBack, Returned
<1>4. ASSUME NEW r \in free, job[r] = 0
      PROVE  run'[r] = run[r] /\ SameRun(r) /\ ~Started(r) /\ ~GivenBack(r)
  BY <1>1, <1>4 DEF SameRun, SameJob, Started, GivenBack, Returned
<1>5. ASSUME NEW r \in free, job[r] # 0
      PROVE  /\ job[r] \in needed
             /\ run'[r].status = "queued" /\ run'[r].task = job[r]
             /\ run'[r].revision = task'[job[r]].revision
             /\ run'[r].worker = task'[job[r]].assignee
             /\ Started(r) /\ ~GivenBack(r)
  <2>1. job[r] \in needed
    BY <1>5
  <2>2. run'[r] = NewRun(job[r], task'[job[r]].revision, task'[job[r]].assignee)
    BY <1>1, <1>5
  <2>3. /\ run'[r].status = "queued" /\ run'[r].task = job[r] /\ run'[r].claim = NoClaim
        /\ run'[r].revision = task'[job[r]].revision
        /\ run'[r].worker = task'[job[r]].assignee
    BY <2>2 DEF NewRun, BlankRun
  <2>4. Present(job[r])' /\ task'[job[r]].assignee \in active
    BY <2>1
  <2> QED BY <2>1, <2>3, <2>4 DEF Started, GivenBack, Returned, Present
<1>6. ActiveRunsOf(T) \subseteq RunIds /\ free \subseteq RunIds
  BY DEF ActiveRunsOf
<1>7. NewAlone
  <2> SUFFICES ASSUME NEW r \in RunIds, NEW q \in RunIds, Started(r), run'[r].task # 0,
                      run'[q].task = run'[r].task, ActiveRun(q)'
               PROVE  q = r
    BY DEF NewAlone
  <2>1. r \in free /\ job[r] # 0 /\ run'[r].task = job[r] /\ job[r] \in W
    BY <1>2, <1>3, <1>4, <1>5
  <2>2. CASE q \in free
    <3>1. job[q] # 0
      BY <1>4, <2>2 DEF ActiveRun, ActiveRunStatuses
    <3>2. job[q] = job[r]
      BY <1>5, <2>1, <2>2, <3>1
    <3>3. \A x, y \in free : job[x] = job[y] /\ job[x] # 0 => x = y
      BY <1>1
    <3> HIDE DEF free
    <3> QED BY <2>1, <2>2, <3>2, <3>3
  <2>3. CASE q \notin free
    <3>1. q \notin ActiveRunsOf(T)
      BY <1>2 DEF ActiveRun, ActiveRunStatuses
    <3>2. run'[q] = run[q]
      BY <1>3, <2>3, <3>1
    <3>3. ActiveRun(q) /\ run[q].task = job[r]
      BY <2>1, <3>2 DEF ActiveRun
    <3>4. job[r] \notin T
      BY <3>1, <3>3 DEF ActiveRunsOf
    <3>5. Present(job[r])
      BY <2>1, <3>3 DEF QueueInv, RunsHaveTasks
    <3> QED BY <2>1, <3>4, <3>5
  <2> QED BY <2>2, <2>3
<1>8. AttemptsFollow
  <2>1. \A r \in RunIds : run[r].status = "claimed" => (SameRun(r) <=> r \notin ActiveRunsOf(T))
    BY <1>2, <1>3
  <2> QED BY <1>1, <2>1, CancelledFollow DEF QueueInv
<1>9. ASSUME NEW t \in W, task'[t].assignee \in active
      PROVE  \E r \in RunIds : Executes(r, t)'
  <2>1. PICK r \in free : job[r] = t
    BY <1>1, <1>9
  <2>2. t # 0
    BY DEF TaskIds
  <2> QED BY <1>5, <2>1, <2>2 DEF Executes
<1>10. \A r \in RunIds : SameRun(r) \/ Started(r) \/ Dropped(r)
  BY <1>2, <1>3, <1>4, <1>5
<1>11. \A r \in RunIds : ~GivenBack(r)
  BY <1>2, <1>3, <1>4, <1>5
<1>12. \A r \in RunIds : run[r].status # "absent" /\ r \notin ActiveRunsOf(T) => run'[r] = run[r]
  BY <1>3
<1> HIDE DEF free
<1> QED BY <1>2, <1>6, <1>7, <1>8, <1>9, <1>10, <1>11, <1>12 DEF Sweep, QueueStep

\* What a worker on the task would notice, or a task waiting for its worker.
SameWork(t) ==
  /\ task'[t].status = task[t].status
  /\ task'[t].revision = task[t].revision
  /\ task'[t].assignee = task[t].assignee

\* Why a sweep of T and W takes the work on t from nobody.
Spared(t, T, W) ==
  IF t \in T
  THEN t \in W \/ task'[t].status \notin {"pending", "in_progress"}
  ELSE \/ Frozen(t)
       \/ t \in W /\ ~Present(t)
       \/ task[t].status # "in_progress" /\ task'[t].status \notin {"pending", "in_progress"}
       \/ task[t].assignee \notin Workers /\ task'[t].assignee = task[t].assignee
       \/ SameWork(t) /\ \E d \in task[t].deps : task[d].status # "accepted"

LEMMA SweepSpares ==
  ASSUME TypeOK, QueueInv, ClaimedRunIsCurrent, NEW T, NEW W, Sweep(T, W),
         \A t \in TaskIds : Spared(t, T, W),
         \A t \in TaskIds : task[t].status = "accepted" => task'[t].status = "accepted"
  PROVE  Freezes /\ NoneOrphaned
<1>1. Freezes
  <2> SUFFICES ASSUME NEW r \in RunIds, run[r].status = "claimed", SameRun(r), run[r].task # 0
               PROVE  /\ Frozen(run[r].task)
                      /\ \A d \in task'[run[r].task].deps :
                           task[d].status = "accepted" => task'[d].status = "accepted"
    BY DEF Freezes
  <2> DEFINE t == run[r].task
  <2>1. t \in TaskIds /\ ActiveRun(r) /\ task[t] \in Task
    BY RunTypes DEF ActiveRun, ActiveRunStatuses, TypeOK
  <2>2. r \notin ActiveRunsOf(T)
    BY DEF Sweep, SameRun
  <2>3. t \notin T
    BY <2>1, <2>2 DEF ActiveRunsOf
  <2>4. /\ task[t].assignee = run[r].worker /\ task[t].status = "in_progress"
        /\ \A d \in task[t].deps : task[d].status = "accepted"
    BY <2>1 DEF ClaimedRunIsCurrent, TaskInHand
  <2>5. run[r].worker \in Workers /\ Present(t)
    BY <2>1 DEF QueueInv, RunsHaveWorkers, RunsHaveTasks
  <2>6. Frozen(t)
    BY <2>1, <2>3, <2>4, <2>5 DEF Spared
  <2>7. \A d \in task'[t].deps : d \in TaskIds
    BY <2>1, <2>6 DEF Frozen, Task
  <2> QED BY <2>6, <2>7
<1>2. NoneOrphaned
  <2> SUFFICES ASSUME NEW t \in TaskIds, Orphaned(t)', ~Orphaned(t)
               PROVE  FALSE
    BY DEF NoneOrphaned
  <2>1. /\ task'[t].status \in {"pending", "in_progress"}
        /\ task'[t].assignee \in active /\ task'[t].assignee \in Workers
        /\ ~\E r \in RunIds : Executes(r, t)'
    BY DEF Orphaned, Executes, Sweep, TypeOK
  <2>2. t \notin W
    BY <2>1 DEF Sweep
  <2>3. SameWork(t)
    BY <2>1, <2>2 DEF Spared, Frozen, SameWork
  <2>4. PICK r \in RunIds : Executes(r, t)
    BY <2>1, <2>3 DEF Orphaned, Executes, SameWork
  <2>5. r \notin ActiveRunsOf(T)
    <3>1. t \notin T
      BY <2>1, <2>2 DEF Spared
    <3> QED BY <2>4, <3>1 DEF ActiveRunsOf, Executes
  <2>6. run'[r] = run[r]
    BY <2>4, <2>5 DEF Sweep, Executes
  <2>7. Executes(r, t)'
    BY <2>3, <2>4, <2>6 DEF Executes, SameWork
  <2> QED BY <2>1, <2>7
<1> QED BY <1>1, <1>2

--------------------------------------------------------------------------------
(* Transactions that change one task *)

KeepsFrames ==
  (\E tab : TaskStep(tab)) /\ QueueStep /\ Freezes /\ NoneOrphaned

LEMMA SweptStep ==
  ASSUME BoardInv, NEW tab, TaskStep(tab), NEW T, NEW W, Sweep(T, W),
         \A t \in TaskIds : Spared(t, T, W)
  PROVE  KeepsFrames
<1>1. \A t \in TaskIds : task[t].status = "accepted" => task'[t].status = "accepted"
  BY TaskStepGrows DEF BoardInv, Grown, EndedStatuses
<1> QED BY <1>1, SweepSpares DEF BoardInv, KeepsFrames, Sweep

LEMMA RevisedRow ==
  ASSUME TypeOK, NEW t \in TaskIds, NEW s \in TaskStatuses
  PROVE  LET row == Revised(t, s)
         IN /\ row \in Task
            /\ row.status = s
            /\ row.revision = task[t].revision + 1 /\ row.revision > task[t].revision
            /\ row.parent = task[t].parent
            /\ row.assigner = task[t].assigner
            /\ row.assignee = task[t].assignee
            /\ row.deps = task[t].deps
            /\ row.role = task[t].role
<1> DEFINE row == Revised(t, s)
<1>1. task[t] \in Task /\ task[t].revision \in Nat
  BY DEF TypeOK, Task
<1>2. row \in Task
  BY RevisedType
<1>3. row = [task[t] EXCEPT !.status = s, !.revision = @ + 1]
  BY DEF Revised
<1> HIDE DEF row
<1>4. /\ row.status = s
      /\ row.revision = task[t].revision + 1
      /\ row.parent = task[t].parent
      /\ row.assigner = task[t].assigner
      /\ row.assignee = task[t].assignee
      /\ row.deps = task[t].deps
      /\ row.role = task[t].role
  BY <1>1, <1>3 DEF Task
<1> QED BY <1>1, <1>2, <1>4 DEF row

\* The other rows when one row, and perhaps its ancestors, changed.
Elsewhere(t) ==
  \A u \in TaskIds \ {t} :
    \/ Frozen(u)
    \/ task[u].status # "in_progress" /\ task'[u].status \notin {"pending", "in_progress"}

LEMMA OneRowStep ==
  ASSUME TypeOK, NEW t \in TaskIds, NEW row \in Task, row.status # "split",
         NEW tab, tab = [task EXCEPT ![t] = row],
         Edited(t, tab) \/ Created(t, tab),
         \/ task' = tab /\ (row.status \in EndedStatuses => task[t].status \in EndedStatuses)
         \/ CascadeUp(tab, row.parent)
  PROVE  TaskStep(tab) /\ Elsewhere(t) /\ task'[t] = row
<1>1. tab \in [TaskIds -> Task] /\ tab[t] = row /\ \A u \in TaskIds \ {t} : tab[u] = task[u]
  BY DEF TypeOK
<1>2. TableStep(tab)
  BY <1>1 DEF TableStep, NewlySplit
<1>3. TaskStep(tab)
  BY <1>1, <1>2 DEF TaskStep, NewlyEnded
<1>4. \A u \in TaskIds : task'[u] = tab[u] \/ Topped(u, tab)
  BY <1>3, TaskStepRow
<1>5. Elsewhere(t)
  <2>1. ASSUME NEW u \in TaskIds \ {t}, Topped(u, tab)
        PROVE  task[u].status = "split" /\ task'[u].status \in {"accepted", "done"}
    BY <1>1, <2>1, ToppedRow, ZenonT(60)
  <2> QED BY <1>1, <1>4, <2>1 DEF Elsewhere, Frozen
<1>6. task'[t] = row
  BY <1>1, <1>4 DEF Topped
<1> QED BY <1>3, <1>5, <1>6

\* An open task keeps its place, its prerequisites and its participants.
LEMMA RevisedEdited ==
  ASSUME TypeOK, TableInv, NEW t \in TaskIds, Present(t), task[t].status \notin ClosedStatuses,
         NEW tab, tab[t] \in Task, IsRow(tab[t]),
         tab[t].revision >= task[t].revision,
         tab[t].parent = task[t].parent,
         tab[t].assigner = task[t].assigner,
         \A d \in tab[t].deps : d \in task[t].deps \/ (d < t /\ Present(d)),
         RolesApart(tab[t])
  PROVE  Edited(t, tab)
<1>1. DepsBack(tab, t)
  BY DEF DepsBack, DepsPointBack, TableInv
<1> QED BY <1>1 DEF Edited, ClosedStatuses, EndedStatuses

LEMMA OldRoles ==
  ASSUME TableInv, NEW t \in TaskIds
  PROVE  RolesApart(task[t])
BY DEF TableInv, OwnersNeverParticipate, RolesApart

LEMMA SameRoles ==
  ASSUME NEW row, NEW old, RolesApart(old), row.role = old.role,
         row.assigner = old.assigner, row.assignee = old.assignee
  PROVE  RolesApart(row)
BY DEF RolesApart, Named

\* restartTaskWorkerRunTx on one changed row.
LEMMA RestartStep ==
  ASSUME BoardInv, Typed, NEW t \in TaskIds, NEW row \in Task,
         row.status \notin ClosedStatuses, IsRow(row),
         NEW tab, tab = [task EXCEPT ![t] = row], Edited(t, tab) \/ Created(t, tab),
         Restart(tab, t), active' = active
  PROVE  KeepsFrames
<1>1. task' = tab /\ Requeue(task', {t}, {t})
  BY DEF Restart
<1>2. TaskStep(tab) /\ Elsewhere(t) /\ task'[t] = row
  BY <1>1, OneRowStep DEF BoardInv, ClosedStatuses, EndedStatuses
<1>3. Present(t)'
  BY <1>2 DEF Present, IsRow
<1>4. Sweep({t}, {t})
  BY <1>1, <1>3, RequeueSweep DEF BoardInv
<1>5. \A u \in TaskIds : Spared(u, {t}, {t})
  BY <1>2 DEF Elsewhere, Spared
<1> QED BY <1>2, <1>4, <1>5, SweptStep

LEMMA MergedRoles ==
  ASSUME NEW row \in Task, NEW roster \in [Users -> Roles], RosterAllowed(row, Normal(row, roster))
  PROVE  /\ RolesApart([row EXCEPT !.role = Normal(row, roster)])
         /\ RolesApart(row) => RolesApart([row EXCEPT !.role = Upserted(row, Normal(row, roster))])
<1> DEFINE normal == Normal(row, roster)
<1>1. \A u \in Users : u \in {row.assigner, row.assignee} => normal[u] = "none"
  BY DEF Normal
<1>2. \A u \in Named(normal) : u \in Users /\ u \notin Workers
  BY DEF RosterAllowed, Named
<1>3. /\ [row EXCEPT !.role = normal].role = normal
      /\ [row EXCEPT !.role = normal].assigner = row.assigner
      /\ [row EXCEPT !.role = normal].assignee = row.assignee
  BY DEF Task
<1>4. /\ [row EXCEPT !.role = Upserted(row, normal)].role = Upserted(row, normal)
      /\ [row EXCEPT !.role = Upserted(row, normal)].assigner = row.assigner
      /\ [row EXCEPT !.role = Upserted(row, normal)].assignee = row.assignee
  BY DEF Task
<1>5. \A u \in Named(Upserted(row, normal)) : u \in Named(normal) \/ u \in Named(row.role)
  BY DEF Named, Upserted
<1> HIDE DEF normal
<1>6. \A u \in Named(normal) : u # row.assigner /\ u # row.assignee
  BY <1>1, <1>2 DEF Named
<1>7. RolesApart([row EXCEPT !.role = normal])
  BY <1>2, <1>3, <1>6 DEF RolesApart
<1>8. RolesApart(row) => RolesApart([row EXCEPT !.role = Upserted(row, normal)])
  BY <1>2, <1>4, <1>5, <1>6 DEF RolesApart
<1> QED BY <1>7, <1>8 DEF normal

LEMMA AssignFrames ==
  ASSUME BoardInv, AssignSome
  PROVE  KeepsFrames
<1>1. PICK a \in Users, u \in Users, D \in SUBSET TaskIds, i \in Items,
           roster \in [Users -> Roles] : AssignTask(a, u, D, i, roster)
  BY UsersAssumption DEF AssignSome
<1>2. Typed /\ TypeOK /\ TableInv
  BY AssignType DEF BoardInv
<1>3. CASE \E t \in TaskIds : CreateTask(t, a, u, D, i, roster)
  <2> DEFINE row == NewTask(a, u, 0, D, i)
             normal == Normal(row, roster)
             new == [row EXCEPT !.role = Upserted(row, normal)]
  <2>1. PICK t \in TaskIds :
          /\ NextTaskId(t)
          /\ \A d \in D : Present(d)
          /\ RosterAllowed(row, normal)
          /\ Restart([task EXCEPT ![t] = new], t)
          /\ active' = active
    BY <1>3 DEF CreateTask
  <2> DEFINE tab == [task EXCEPT ![t] = new]
  <2>2. row \in Task
    BY NewRows
  <2>3. Upserted(row, normal) \in [Users -> Roles]
    BY <2>2, RosterTypes
  <2>4. RolesApart(row)
    BY DEF RolesApart, NewTask, NoRoles, Named
  <2>5. RolesApart(new)
    BY <2>1, <2>2, <2>4, MergedRoles
  <2>6. new \in Task /\ new.status = "pending" /\ new.deps = D /\ new.parent = 0
    <3>1. row.status = "pending" /\ row.deps = D /\ row.parent = 0
      BY DEF NewTask
    <3> HIDE DEF row, normal
    <3> QED BY <2>2, <2>3, <3>1 DEF Task
  <2> HIDE DEF new
  <2>7. tab[t] = new
    BY <1>2 DEF TypeOK
  <2>8. task[t].status = "absent"
    BY <2>1 DEF NextTaskId, TaskIds
  <2>9. DepsBack(tab, t)
    <3>1. \A d \in D : task[d].status # "absent"
      BY <2>1 DEF Present, TaskStatuses, OpenStatuses, ClosedStatuses
    <3> QED BY <2>1, <2>6, <2>7, <3>1 DEF NextTaskId, DepsBack
  <2>10. Created(t, tab)
    BY <2>5, <2>6, <2>7, <2>8, <2>9 DEF Created
  <2> HIDE DEF tab
  <2> QED BY <1>2, <2>1, <2>6, <2>10, RestartStep
          DEF tab, IsRow, TaskStatuses, OpenStatuses, ClosedStatuses
<1>4. CASE \E t \in Equivalent(a, i), tighter \in BOOLEAN : MergeTask(t, u, D, tighter, roster)
  <2>1. PICK t \in Equivalent(a, i), tighter \in BOOLEAN : MergeTask(t, u, D, tighter, roster)
    BY <1>4
  <2> DEFINE changed == tighter \/ D \ task[t].deps # {}
             revised == IF changed
                        THEN [Revised(t, task[t].status) EXCEPT !.deps = @ \cup D]
                        ELSE task[t]
             named   == IF u # task[t].assignee /\ roster[u] = "none"
                        THEN [roster EXCEPT ![u] = "collaborator"] ELSE roster
             normal  == Normal(revised, named)
             new     == [revised EXCEPT !.role = Upserted(revised, normal)]
             tab     == [task EXCEPT ![t] = new]
  <2>2. t \in TaskIds /\ task[t].status \in OpenStatuses \cup {"done"}
    BY DEF Equivalent
  <2>3. /\ \A d \in D \ task[t].deps : d < t /\ Present(d)
        /\ RosterAllowed(revised, normal)
        /\ IF changed THEN Restart(tab, t) ELSE task' = tab /\ UNCHANGED <<run, attempt>>
        /\ active' = active
    BY <2>1 DEF MergeTask
  <2>4. task[t] \in Task /\ task[t].status \in TaskStatuses
    BY <1>2, <2>2 DEF TypeOK, TaskStatuses
  <2>5. /\ revised \in Task
        /\ revised.status = task[t].status
        /\ revised.revision >= task[t].revision
        /\ revised.parent = task[t].parent
        /\ revised.assigner = task[t].assigner
        /\ revised.assignee = task[t].assignee
        /\ revised.role = task[t].role
        /\ \A d \in revised.deps : d \in task[t].deps \/ (d < t /\ Present(d))
        /\ ~changed => revised = task[t]
    <3>1. CASE changed
      <4> DEFINE base == Revised(t, task[t].status)
      <4>1. /\ base \in Task
            /\ base.status = task[t].status
            /\ base.revision = task[t].revision + 1 /\ base.revision > task[t].revision
            /\ base.parent = task[t].parent
            /\ base.assigner = task[t].assigner
            /\ base.assignee = task[t].assignee
            /\ base.deps = task[t].deps
            /\ base.role = task[t].role
        BY <1>2, <2>2, <2>4, RevisedRow
      <4>2. revised = [base EXCEPT !.deps = @ \cup D]
        BY <3>1
      <4>3. task[t].revision \in Nat
        BY <2>4 DEF Task
      <4> HIDE DEF base, revised, changed
      <4> QED BY <2>3, <3>1, <4>1, <4>2, <4>3 DEF Task
    <3>2. CASE ~changed
      BY <2>4, <3>2 DEF Task
    <3> QED BY <3>1, <3>2
  <2>6. named \in [Users -> Roles]
    BY DEF Roles
  <2> HIDE DEF revised, named, changed
  <2>7. Upserted(revised, normal) \in [Users -> Roles]
    BY <2>5, <2>6, RosterTypes
  <2>8. RolesApart(new)
    <3>1. RolesApart(revised)
      BY <1>2, <2>2, <2>5, OldRoles, SameRoles
    <3> QED BY <2>3, <2>5, <2>6, <3>1, MergedRoles
  <2>9. /\ new \in Task
        /\ new.status = task[t].status
        /\ new.revision >= task[t].revision
        /\ new.parent = task[t].parent
        /\ new.assigner = task[t].assigner
        /\ new.assignee = task[t].assignee
        /\ new.deps = revised.deps
        /\ ~changed => new.revision = task[t].revision /\ new.deps = task[t].deps
    BY <2>5, <2>7 DEF Task
  <2> HIDE DEF new
  <2>10. tab[t] = new
    BY <1>2, <2>2 DEF TypeOK
  <2> HIDE DEF tab
  <2>11. Edited(t, tab)
    <3>1. /\ Present(t) /\ task[t].status \notin ClosedStatuses /\ IsRow(new)
      BY <2>2, <2>4, <2>9 DEF Present, IsRow, OpenStatuses, ClosedStatuses
    <3> QED BY <1>2, <2>2, <2>5, <2>8, <2>9, <2>10, <3>1, RevisedEdited
  <2>12. new.status \notin ClosedStatuses /\ IsRow(new) /\ new.status # "split"
         /\ new.status \notin EndedStatuses
    BY <2>2, <2>4, <2>9 DEF IsRow, OpenStatuses, ClosedStatuses, EndedStatuses
  <2>13. CASE changed
    BY <1>2, <2>2, <2>3, <2>9, <2>11, <2>12, <2>13, RestartStep DEF tab
  <2>14. CASE ~changed
    <3>1. TaskStep(tab) /\ Elsewhere(t) /\ task'[t] = new
      BY <1>2, <2>2, <2>3, <2>9, <2>11, <2>12, <2>14, OneRowStep DEF tab
    <3>2. Sweep({}, {})
      BY <1>2, <2>3, <2>14, UntouchedSweep DEF BoardInv
    <3>3. Frozen(t)
      BY <2>9, <2>14, <3>1 DEF Frozen
    <3>4. \A x \in TaskIds : Spared(x, {}, {})
      BY <3>1, <3>3 DEF Elsewhere, Spared
    <3> QED BY <3>1, <3>2, <3>4, SweptStep
  <2> QED BY <2>13, <2>14
<1> QED BY <1>1, <1>3, <1>4 DEF AssignTask

\* The frames of a change that revises an open task and starts its run again.
LEMMA RevisedRestart ==
  ASSUME BoardInv, Typed, NEW t \in TaskIds, task[t].status \in OpenStatuses \cup {"done"},
         NEW row \in Task, row.status \in OpenStatuses \cup {"done"},
         row.revision >= task[t].revision,
         row.parent = task[t].parent, row.assigner = task[t].assigner,
         row.deps = task[t].deps, RolesApart(row),
         NEW tab, tab = [task EXCEPT ![t] = row], Restart(tab, t), active' = active
  PROVE  KeepsFrames
<1>1. /\ Present(t) /\ task[t].status \notin ClosedStatuses
      /\ row.status \notin ClosedStatuses /\ IsRow(row)
  BY DEF Present, IsRow, TaskStatuses, OpenStatuses, ClosedStatuses
<1>2. tab[t] = row /\ TypeOK /\ TableInv
  BY DEF BoardInv, TypeOK
<1>3. Edited(t, tab)
  BY <1>1, <1>2, RevisedEdited
<1> QED BY <1>1, <1>3, RestartStep

LEMMA EditFrames ==
  ASSUME BoardInv, NEW t \in TaskIds, EditTask(t)
  PROVE  KeepsFrames
<1>1. /\ Typed /\ TypeOK /\ TableInv /\ active' = active
      /\ task[t] \in Task /\ task[t].revision \in Nat
      /\ RolesApart(task[t])
  BY EditType, OldRoles DEF BoardInv, TypeOK, Task
<1>2. {"pending", "in_progress"} \subseteq OpenStatuses /\ OpenStatuses \subseteq TaskStatuses
  BY DEF OpenStatuses, TaskStatuses
<1>3. ASSUME NEW s \in TaskStatuses
      PROVE  /\ Revised(t, s) \in Task
             /\ Revised(t, s).status = s
             /\ Revised(t, s).revision > task[t].revision
             /\ Revised(t, s).revision >= task[t].revision
             /\ Revised(t, s).parent = task[t].parent
             /\ Revised(t, s).assigner = task[t].assigner
             /\ Revised(t, s).assignee = task[t].assignee
             /\ Revised(t, s).deps = task[t].deps
             /\ Revised(t, s).role = task[t].role
             /\ RolesApart(Revised(t, s))
  <2>1. /\ Revised(t, s) \in Task
        /\ Revised(t, s).status = s
        /\ Revised(t, s).revision = task[t].revision + 1
        /\ Revised(t, s).parent = task[t].parent
        /\ Revised(t, s).assigner = task[t].assigner
        /\ Revised(t, s).assignee = task[t].assignee
        /\ Revised(t, s).deps = task[t].deps
        /\ Revised(t, s).role = task[t].role
    BY <1>1, RevisedRow
  <2> QED BY <1>1, <2>1, SameRoles
<1>4. ASSUME NEW s \in {"pending", "in_progress"}, UpdateTaskStatus(t, s)
      PROVE  KeepsFrames
  <2>1. /\ task[t].status \in OpenStatuses \cup {"done"}
        /\ Restart([task EXCEPT ![t] = Revised(t, s)], t)
    BY <1>4 DEF UpdateTaskStatus
  <2>2. s \in TaskStatuses /\ s \in OpenStatuses
    BY <1>2
  <2> QED BY <1>1, <1>3, <2>1, <2>2, RevisedRestart
<1>5. ASSUME NEW u \in Users, ReassignTask(t, u)
      PROVE  KeepsFrames
  <2> DEFINE base == Revised(t, "pending")
             new  == [base EXCEPT !.assignee = u, !.role[u] = "none"]
  <2>1. task[t].status \in OpenStatuses /\ Restart([task EXCEPT ![t] = new], t)
    BY <1>5 DEF ReassignTask
  <2>2. /\ base \in Task
        /\ base.status = "pending"
        /\ base.revision >= task[t].revision
        /\ base.parent = task[t].parent
        /\ base.assigner = task[t].assigner
        /\ base.deps = task[t].deps
        /\ RolesApart(base)
    BY <1>2, <1>3
  <2> HIDE DEF base
  <2>3. /\ new \in Task
        /\ new.status = "pending"
        /\ new.revision = base.revision
        /\ new.parent = base.parent
        /\ new.assigner = base.assigner
        /\ new.assignee = u
        /\ new.deps = base.deps
        /\ \A x \in Users : new.role[x] = IF x = u THEN "none" ELSE base.role[x]
    BY <2>2 DEF Task, Roles
  <2>4. RolesApart(new)
    <3>1. \A x \in Named(new.role) : x # u /\ x \in Named(base.role)
      BY <2>3 DEF Named
    <3> QED BY <2>2, <2>3, <3>1 DEF RolesApart
  <2> HIDE DEF new
  <2> QED BY <1>1, <1>2, <2>1, <2>2, <2>3, <2>4, RevisedRestart
<1>6. ASSUME NEW i \in Items, UpdateContent(t, i)
      PROVE  KeepsFrames
  <2>1. ASSUME NEW s \in TaskStatuses
        PROVE  LET new == [Revised(t, s) EXCEPT !.item = i]
               IN /\ new \in Task
                  /\ new.status = s
                  /\ new.revision >= task[t].revision
                  /\ new.parent = task[t].parent
                  /\ new.assigner = task[t].assigner
                  /\ new.assignee = task[t].assignee
                  /\ new.deps = task[t].deps
                  /\ RolesApart(new)
    <3> DEFINE base == Revised(t, s)
               new  == [base EXCEPT !.item = i]
    <3>1. /\ base \in Task
          /\ base.status = s
          /\ base.revision >= task[t].revision
          /\ base.parent = task[t].parent
          /\ base.assigner = task[t].assigner
          /\ base.assignee = task[t].assignee
          /\ base.deps = task[t].deps
          /\ RolesApart(base)
      BY <1>3
    <3> HIDE DEF base
    <3>2. /\ new \in Task
          /\ new.status = base.status
          /\ new.revision = base.revision
          /\ new.parent = base.parent
          /\ new.assigner = base.assigner
          /\ new.assignee = base.assignee
          /\ new.deps = base.deps
          /\ new.role = base.role
      BY <3>1 DEF Task
    <3> HIDE DEF new
    <3>3. RolesApart(new)
      BY <3>1, <3>2, SameRoles
    <3> QED BY <3>1, <3>2, <3>3 DEF new, base
  <2>2. task[t].status \in OpenStatuses
    BY <1>6 DEF UpdateContent
  <2>3. CASE task[t].assignee \in Workers
    <3> DEFINE new == [Revised(t, "pending") EXCEPT !.item = i]
    <3>1. Restart([task EXCEPT ![t] = new], t)
      BY <1>6, <2>3 DEF UpdateContent
    <3>2. /\ new \in Task
          /\ new.status = "pending"
          /\ new.revision >= task[t].revision
          /\ new.parent = task[t].parent
          /\ new.assigner = task[t].assigner
          /\ new.deps = task[t].deps
          /\ RolesApart(new)
      BY <1>2, <2>1
    <3> HIDE DEF new
    <3> QED BY <1>1, <1>2, <2>2, <3>1, <3>2, RevisedRestart
  <2>4. CASE task[t].assignee \notin Workers
    <3> DEFINE new == [Revised(t, task[t].status) EXCEPT !.item = i]
               tab == [task EXCEPT ![t] = new]
    <3>1. task' = tab /\ UNCHANGED <<run, attempt, active>>
      BY <1>6, <2>4 DEF UpdateContent
    <3>2. /\ new \in Task
          /\ new.status = task[t].status
          /\ new.revision >= task[t].revision
          /\ new.parent = task[t].parent
          /\ new.assigner = task[t].assigner
          /\ new.assignee = task[t].assignee
          /\ new.deps = task[t].deps
          /\ RolesApart(new)
      BY <1>2, <2>1, <2>2
    <3> HIDE DEF new
    <3>3. tab[t] = new
      BY <1>1 DEF TypeOK
    <3> HIDE DEF tab
    <3>4. /\ Present(t) /\ task[t].status \notin ClosedStatuses /\ IsRow(new)
          /\ new.status # "split" /\ new.status \notin EndedStatuses
      BY <2>2, <3>2 DEF Present, IsRow, TaskStatuses, OpenStatuses, ClosedStatuses, EndedStatuses
    <3>5. Edited(t, tab)
      BY <1>1, <3>2, <3>3, <3>4, RevisedEdited
    <3>6. TaskStep(tab) /\ Elsewhere(t) /\ task'[t] = new
      BY <1>1, <3>1, <3>2, <3>4, <3>5, OneRowStep DEF tab
    <3>7. Sweep({}, {})
      BY <1>1, <3>1, UntouchedSweep DEF BoardInv
    <3>8. \A x \in TaskIds : Spared(x, {}, {})
      BY <2>4, <3>2, <3>6 DEF Elsewhere, Spared
    <3> QED BY <3>6, <3>7, <3>8, SweptStep
  <2> QED BY <2>3, <2>4
<1>7. ASSUME NEW roster \in [Users -> Roles], ReplaceParticipants(t, roster)
      PROVE  KeepsFrames
  <2> DEFINE normal == Normal(task[t], roster)
             new == [task[t] EXCEPT !.role = normal]
             tab == [task EXCEPT ![t] = new]
  <2>1. /\ task[t].status \in OpenStatuses \cup {"done"}
        /\ RosterAllowed(task[t], normal)
        /\ UNCHANGED <<run, attempt, active>>
        /\ task' = tab
    BY <1>7 DEF ReplaceParticipants
  <2>2. normal \in [Users -> Roles] /\ RolesApart(new)
    BY <1>1, <2>1, RosterTypes, MergedRoles
  <2> HIDE DEF normal
  <2>3. /\ new \in Task
        /\ new.status = task[t].status
        /\ new.revision = task[t].revision
        /\ new.parent = task[t].parent
        /\ new.assigner = task[t].assigner
        /\ new.assignee = task[t].assignee
        /\ new.deps = task[t].deps
    BY <1>1, <2>2 DEF Task
  <2> HIDE DEF new
  <2>4. tab[t] = new
    BY <1>1 DEF TypeOK
  <2> HIDE DEF tab
  <2>5. /\ Present(t) /\ task[t].status \notin ClosedStatuses /\ IsRow(new)
        /\ new.status # "split" /\ new.status \notin EndedStatuses
    BY <2>1, <2>3 DEF Present, IsRow, TaskStatuses, OpenStatuses, ClosedStatuses, EndedStatuses
  <2>6. Edited(t, tab)
    BY <1>1, <2>2, <2>3, <2>4, <2>5, RevisedEdited
  <2>7. TaskStep(tab) /\ Elsewhere(t) /\ task'[t] = new
    BY <1>1, <2>1, <2>3, <2>5, <2>6, OneRowStep DEF tab
  <2>8. Sweep({}, {})
    BY <1>1, <2>1, UntouchedSweep DEF BoardInv
  <2>9. \A x \in TaskIds : Spared(x, {}, {})
    BY <2>3, <2>7 DEF Elsewhere, Spared, Frozen
  <2> QED BY <2>7, <2>8, <2>9, SweptStep
<1> QED BY <1>4, <1>5, <1>6, <1>7, UsersAssumption DEF EditTask

LEMMA ReviewFrames ==
  ASSUME BoardInv, NEW t \in TaskIds, ReviewTask(t)
  PROVE  KeepsFrames
<1>1. /\ Typed /\ TypeOK /\ TableInv /\ active' = active
      /\ task[t] \in Task /\ task[t].revision \in Nat
      /\ RolesApart(task[t])
  BY ReviewType, OldRoles DEF BoardInv, TypeOK, Task
<1>2. ASSUME NEW s \in TaskStatuses
      PROVE  /\ Revised(t, s) \in Task
             /\ Revised(t, s).status = s
             /\ Revised(t, s).revision >= task[t].revision
             /\ Revised(t, s).parent = task[t].parent
             /\ Revised(t, s).assigner = task[t].assigner
             /\ Revised(t, s).deps = task[t].deps
             /\ RolesApart(Revised(t, s))
  <2>1. /\ Revised(t, s) \in Task
        /\ Revised(t, s).status = s
        /\ Revised(t, s).revision = task[t].revision + 1
        /\ Revised(t, s).parent = task[t].parent
        /\ Revised(t, s).assigner = task[t].assigner
        /\ Revised(t, s).assignee = task[t].assignee
        /\ Revised(t, s).deps = task[t].deps
        /\ Revised(t, s).role = task[t].role
    BY <1>1, RevisedRow
  <2> QED BY <1>1, <2>1, SameRoles
<1>3. ASSUME task[t].status \in OpenStatuses \cup {"done"}, NEW s \in {"done", "accepted"},
             NEW tab, tab = [task EXCEPT ![t] = Revised(t, s)],
             \/ task' = tab /\ s = "done"
             \/ CascadeUp(tab, task[t].parent)
      PROVE  TaskStep(tab) /\ Elsewhere(t) /\ task'[t].status = s
  <2>1. /\ s \in TaskStatuses /\ s # "split" /\ (s = "done" => s \notin EndedStatuses)
        /\ Present(t) /\ task[t].status \notin ClosedStatuses
    BY <1>3 DEF Present, TaskStatuses, OpenStatuses, ClosedStatuses, EndedStatuses
  <2>2. tab[t] = Revised(t, s)
    BY <1>1, <1>3 DEF TypeOK
  <2>3. Edited(t, tab)
    BY <1>1, <1>2, <2>1, <2>2, RevisedEdited DEF IsRow
  <2>4. TaskStep(tab) /\ Elsewhere(t) /\ task'[t] = Revised(t, s)
    BY <1>1, <1>2, <1>3, <2>1, <2>3, OneRowStep, ZenonT(60)
  <2> QED BY <1>2, <2>1, <2>4
<1>4. CASE SubmitTask(t)
  <2> DEFINE s   == CompletionStatus(task[t])
             tab == [task EXCEPT ![t] = Revised(t, s)]
  <2>1. /\ task[t].status \in {"pending", "in_progress"}
        /\ CancelRuns({t})
        /\ IF s = "accepted" THEN CascadeUp(tab, task[t].parent) ELSE task' = tab
    BY <1>4 DEF SubmitTask
  <2>2. s \in {"done", "accepted"}
    BY CompletionStatusType
  <2>3. task[t].status \in OpenStatuses
    BY <2>1 DEF OpenStatuses
  <2> HIDE DEF s
  <2>4. TaskStep(tab) /\ Elsewhere(t) /\ task'[t].status = s
    BY <1>3, <2>1, <2>2, <2>3
  <2> HIDE DEF tab
  <2>5. Sweep({t}, {})
    BY <1>1, <2>1, CancelSweep DEF BoardInv
  <2>6. \A x \in TaskIds : Spared(x, {t}, {})
    BY <2>2, <2>4 DEF Elsewhere, Spared
  <2> QED BY <2>4, <2>5, <2>6, SweptStep
<1>5. CASE AcceptTask(t)
  <2> DEFINE tab == [task EXCEPT ![t] = Revised(t, "accepted")]
  <2>1. /\ task[t].status = "done"
        /\ CascadeUp(tab, task[t].parent)
        /\ UNCHANGED <<run, attempt, active>>
    BY <1>5 DEF AcceptTask
  <2>2. TaskStep(tab) /\ Elsewhere(t) /\ task'[t].status = "accepted"
    BY <1>3, <2>1
  <2> HIDE DEF tab
  <2>3. Sweep({}, {})
    BY <1>1, <2>1, UntouchedSweep DEF BoardInv
  <2>4. \A x \in TaskIds : Spared(x, {}, {})
    BY <2>1, <2>2 DEF Elsewhere, Spared
  <2> QED BY <2>2, <2>3, <2>4, SweptStep
<1>6. CASE RejectTask(t)
  <2>1. task[t].status \in OpenStatuses \cup {"done"}
    BY <1>6 DEF RejectTask
  <2>2. PICK s \in {"pending", "in_progress"} : Restart([task EXCEPT ![t] = Revised(t, s)], t)
    BY <1>1, <1>6 DEF RejectTask, TypeOK
  <2>3. s \in TaskStatuses /\ s \in OpenStatuses
    BY DEF TaskStatuses, OpenStatuses
  <2> QED BY <1>1, <1>2, <2>1, <2>2, <2>3, RevisedRestart
<1> QED BY <1>4, <1>5, <1>6 DEF ReviewTask

--------------------------------------------------------------------------------
(* Transactions that change several tasks *)

LEMMA SplitFrames ==
  ASSUME BoardInv, SplitSome
  PROVE  KeepsFrames
<1>1. PICK p \in TaskIds, kids \in SUBSET TaskIds :
        /\ Cardinality(kids) \in 1 .. MaxChildren
        /\ \A k \in kids : task[k].status = "absent"
        /\ \E owner \in [kids -> Users] : SplitTask(p, kids, owner)
  BY DEF SplitSome, NextTaskIds
<1>2. PICK owner \in [kids -> Users] : SplitTask(p, kids, owner)
  BY <1>1
<1>3. Typed /\ TypeOK /\ TableInv /\ active' = active
  BY SplitType DEF BoardInv
<1> DEFINE tab == [t \in TaskIds |->
                     IF t = p THEN Revised(p, "split")
                     ELSE IF t \in kids
                          THEN NewTask(task[p].assignee, owner[t], p, {}, task[p].item)
                          ELSE task[t]]
<1>4. task[p].status \in OpenStatuses /\ task' = tab /\ Requeue(task', {p}, kids)
  BY <1>2 DEF SplitTask
<1>5. /\ Present(p) /\ task[p].status \notin ClosedStatuses /\ p \notin kids
      /\ task[p] \in Task /\ task[p].revision \in Nat /\ RolesApart(task[p])
  BY <1>1, <1>3, <1>4, OldRoles
     DEF Present, TaskStatuses, OpenStatuses, ClosedStatuses, TypeOK, Task
<1>6. /\ tab[p].status = "split" /\ IsRow(tab[p]) /\ tab[p] \in Task
      /\ tab[p].revision >= task[p].revision
      /\ tab[p].parent = task[p].parent
      /\ tab[p].assigner = task[p].assigner
      /\ tab[p].assignee = task[p].assignee
      /\ tab[p].deps = task[p].deps
      /\ tab[p].role = task[p].role
  <2>1. "split" \in TaskStatuses
    BY DEF TaskStatuses, ClosedStatuses
  <2>2. tab[p] = Revised(p, "split")
    OBVIOUS
  <2>3. /\ Revised(p, "split") \in Task
        /\ Revised(p, "split").status = "split"
        /\ Revised(p, "split").revision = task[p].revision + 1
        /\ Revised(p, "split").parent = task[p].parent
        /\ Revised(p, "split").assigner = task[p].assigner
        /\ Revised(p, "split").assignee = task[p].assignee
        /\ Revised(p, "split").deps = task[p].deps
        /\ Revised(p, "split").role = task[p].role
    BY <1>3, <2>1, RevisedRow
  <2> HIDE DEF tab
  <2> QED BY <1>5, <2>1, <2>2, <2>3 DEF IsRow
<1>7. ASSUME NEW k \in kids
      PROVE  /\ tab[k].status = "pending" /\ tab[k].parent = p /\ tab[k].deps = {}
             /\ RolesApart(tab[k]) /\ Present(k)' /\ ~Present(k)
  <2>1. tab[k] = NewTask(task[p].assignee, owner[k], p, {}, task[p].item)
    BY <1>5
  <2> HIDE DEF tab
  <2>2. /\ tab[k].status = "pending" /\ tab[k].parent = p /\ tab[k].deps = {}
        /\ tab[k].role = NoRoles
    BY <2>1 DEF NewTask
  <2>3. Named(NoRoles) = {}
    BY DEF Named, NoRoles
  <2>4. task'[k].status = "pending"
    BY <1>4, <2>2
  <2> QED BY <1>1, <2>2, <2>3, <2>4
          DEF RolesApart, Present, TaskStatuses, OpenStatuses, ClosedStatuses
<1>8. \A t \in TaskIds : t # p /\ t \notin kids => tab[t] = task[t]
  OBVIOUS
<1>9. tab \in [TaskIds -> Task]
  BY <1>3, <1>4 DEF Typed
<1> HIDE DEF tab
<1>10. Edited(p, tab)
  <2>1. RolesApart(tab[p])
    BY <1>5, <1>6, SameRoles
  <2> QED BY <1>3, <1>5, <1>6, <2>1, RevisedEdited
<1>11. \A k \in kids : Created(k, tab)
  BY <1>1, <1>6, <1>7 DEF Created, DepsBack
<1>12. TaskStep(tab)
  <2>1. \E k \in TaskIds : tab[k].parent = p /\ tab[k].status = "pending"
    <3>1. kids # {}
      BY <1>1, FS_EmptySet
    <3> QED BY <1>7, <3>1
  <2>2. \A t \in TaskIds : NewlySplit(t, tab) => t = p
    BY <1>7, <1>8 DEF NewlySplit
  <2>3. \A t \in TaskIds : ~NewlyEnded(t, tab)
    BY <1>6, <1>7, <1>8 DEF NewlyEnded, EndedStatuses
  <2> QED BY <1>4, <1>8, <1>9, <1>10, <1>11, <2>1, <2>2, <2>3 DEF TaskStep, TableStep
<1>13. Sweep({p}, kids)
  BY <1>3, <1>4, <1>7, RequeueSweep DEF BoardInv
<1>14. \A t \in TaskIds : Spared(t, {p}, kids)
  BY <1>4, <1>6, <1>7, <1>8 DEF Spared, Frozen
<1> QED BY <1>12, <1>13, <1>14, SweptStep

LEMMA CancelFrames ==
  ASSUME BoardInv, NEW t \in TaskIds, NEW s \in TaskIds \cup {0}, CancelTask(t, s)
  PROVE  KeepsFrames
<1> DEFINE tab == AfterCancel(t, s)
           gained == IF s = 0 THEN NoRoles ELSE Gained(t, s)
<1>1. /\ task[t].status \in OpenStatuses \cup {"done"}
      /\ s # 0 => Present(s) /\ \A d \in TaskIds : t \in task[d].deps /\ d # s => s < d
      /\ CancelRuns({t})
      /\ CascadeUp(tab, task[t].parent)
      /\ active' = active
  BY DEF CancelTask, AfterCancel
<1>2. TypeOK /\ TableInv /\ tab \in [TaskIds -> Task]
  BY AfterCancelType DEF BoardInv
<1>3. Present(t) /\ task[t].status \notin ClosedStatuses
  BY <1>1 DEF Present, TaskStatuses, OpenStatuses, ClosedStatuses
\* The row of d.
<1>4. ASSUME NEW d \in TaskIds
      PROVE  /\ tab[d].status = IF d = t THEN "cancelled" ELSE task[d].status
             /\ tab[d].revision = IF d = t THEN task[d].revision + 1 ELSE task[d].revision
             /\ tab[d].parent = task[d].parent
             /\ tab[d].assigner = task[d].assigner
             /\ tab[d].assignee = task[d].assignee
             /\ tab[d].deps = Rewired(d, t, s)
             /\ tab[d].role = IF d = s THEN Upserted(task[s], gained) ELSE task[d].role
             /\ d # t /\ d # s /\ t \notin task[d].deps => tab[d] = task[d]
  <2> DEFINE base == IF d = t THEN Revised(t, "cancelled") ELSE task[d]
  <2>1. tab[d] = [base EXCEPT !.deps = Rewired(d, t, s),
                              !.role = IF d = s THEN Upserted(task[s], gained) ELSE @]
    BY DEF AfterCancel
  <2>2. /\ base \in Task
        /\ base.status = IF d = t THEN "cancelled" ELSE task[d].status
        /\ base.revision = IF d = t THEN task[d].revision + 1 ELSE task[d].revision
        /\ base.parent = task[d].parent
        /\ base.assigner = task[d].assigner
        /\ base.assignee = task[d].assignee
        /\ base.deps = task[d].deps
        /\ base.role = task[d].role
        /\ d # t => base = task[d]
    <3>1. CASE d = t
      <4>1. "cancelled" \in TaskStatuses
        BY DEF TaskStatuses, ClosedStatuses
      <4> QED BY <1>2, <3>1, <4>1, RevisedRow
    <3>2. CASE d # t
      BY <1>2, <3>2 DEF TypeOK
    <3> QED BY <3>1, <3>2
  <2>3. t \notin task[d].deps => Rewired(d, t, s) = task[d].deps
    BY DEF Rewired
  <2> HIDE DEF base, tab, gained
  <2>4. /\ tab[d].status = base.status
        /\ tab[d].revision = base.revision
        /\ tab[d].parent = base.parent
        /\ tab[d].assigner = base.assigner
        /\ tab[d].assignee = base.assignee
        /\ tab[d].deps = Rewired(d, t, s)
        /\ tab[d].role = IF d = s THEN Upserted(task[s], gained) ELSE base.role
    BY <2>1, <2>2 DEF Task
  <2>5. ASSUME d # t, d # s, t \notin task[d].deps PROVE tab[d] = task[d]
    <3>1. base = task[d] /\ Rewired(d, t, s) = task[d].deps /\ task[d] \in Task
      BY <2>2, <2>3, <2>5
    <3>2. tab[d] = [task[d] EXCEPT !.deps = task[d].deps, !.role = task[d].role]
      BY <2>1, <2>5, <3>1
    <3> QED BY <3>1, <3>2 DEF Task
  <2> QED BY <2>2, <2>4, <2>5
<1>5. ASSUME NEW d \in TaskIds
      PROVE  \A x \in Rewired(d, t, s) : x \in task[d].deps \/ (x < d /\ Present(x))
  BY <1>1 DEF Rewired
<1>6. ASSUME NEW d \in TaskIds
      PROVE  RolesApart(tab[d])
  <2>1. CASE d # s
    BY <1>2, <1>4, <2>1, OldRoles, SameRoles
  <2>2. CASE d = s
    <3>1. s # 0 /\ s \in TaskIds
      BY <2>2 DEF TaskIds
    <3>2. \A u \in Named(gained) : /\ u \in Users /\ u \notin Workers
                                   /\ u # task[s].assigner /\ u # task[s].assignee
      BY <3>1 DEF Named, Gained, Migrated, Normal
    <3>3. \A u \in Named(tab[s].role) : u \in Named(gained) \/ u \in Named(task[s].role)
      <4>1. tab[s].role = Upserted(task[s], gained)
        BY <1>4, <3>1
      <4> HIDE DEF gained, tab
      <4> QED BY <4>1 DEF Named, Upserted
    <3>4. RolesApart(task[s])
      BY <1>2, <3>1, OldRoles
    <3> QED BY <1>4, <2>2, <3>2, <3>3, <3>4 DEF RolesApart
  <2> QED BY <2>1, <2>2
<1> HIDE DEF tab, gained
<1>7. \A d \in TaskIds : tab[d] \in Task /\ task[d] \in Task /\ task[d].revision \in Nat
  BY <1>2 DEF TypeOK, Task
<1>8. ASSUME NEW d \in TaskIds
      PROVE  tab[d] = task[d] \/ Edited(d, tab)
  <2>1. CASE Present(d)
    <3>1. DepsBack(tab, d)
      BY <1>2, <1>4, <1>5 DEF DepsBack, DepsPointBack, TableInv
    <3>2. IsRow(tab[d]) /\ tab[d].revision >= task[d].revision
      BY <1>4, <1>7, <2>1 DEF IsRow, Present, TaskStatuses, ClosedStatuses
    <3> QED BY <1>3, <1>4, <1>6, <2>1, <3>1, <3>2 DEF Edited, ClosedStatuses, EndedStatuses
  <2>2. CASE ~Present(d)
    <3>1. d # t /\ d # s /\ t \notin task[d].deps
      BY <1>1, <1>2, <1>3, <2>2 DEF TableInv, NoRowNoLinks, TaskIds
    <3> QED BY <1>4, <3>1
  <2> QED BY <2>1, <2>2
<1>9. TaskStep(tab)
  <2>1. \A d \in TaskIds : ~NewlySplit(d, tab)
    BY <1>4 DEF NewlySplit
  <2>2. \A d \in TaskIds : NewlyEnded(d, tab) => tab[d].parent = task[t].parent
    BY <1>4 DEF NewlyEnded
  <2> QED BY <1>1, <1>2, <1>8, <2>1, <2>2 DEF TaskStep, TableStep
<1>10. Sweep({t}, {})
  BY <1>1, <1>2, CancelSweep DEF BoardInv
<1>11. ASSUME NEW d \in TaskIds
       PROVE  Spared(d, {t}, {})
  <2>1. task'[d] = tab[d] \/ Topped(d, tab)
    BY <1>9, TaskStepRow
  <2>2. CASE Topped(d, tab)
    <3>1. tab[d].status = "split" /\ task'[d].status \in {"accepted", "done"}
      BY <1>2, <2>2, ToppedRow
    <3>2. d # t /\ task[d].status = "split"
      BY <1>4, <3>1
    <3> QED BY <3>1, <3>2 DEF Spared
  <2>3. CASE task'[d] = tab[d]
    <3>1. CASE d = t
      BY <1>4, <2>3, <3>1 DEF Spared
    <3>2. CASE d # t /\ t \in task[d].deps
      <4>1. task[t].status # "accepted"
        BY <1>3 DEF ClosedStatuses
      <4>2. SameWork(d)
        BY <1>4, <2>3, <3>2 DEF SameWork
      <4> QED BY <3>2, <4>1, <4>2 DEF Spared
    <3>3. CASE d # t /\ t \notin task[d].deps
      <4>1. Rewired(d, t, s) = task[d].deps
        BY <3>3 DEF Rewired
      <4>2. Frozen(d)
        BY <1>4, <2>3, <3>3, <4>1 DEF Frozen
      <4> QED BY <3>3, <4>2 DEF Spared
    <3> QED BY <3>1, <3>2, <3>3
  <2> QED BY <2>1, <2>2, <2>3
<1> QED BY <1>9, <1>10, <1>11, SweptStep

\* What the invariants and the action properties need of a step.
Framed == TableInv' /\ TasksStay /\ QueueStep /\ Freezes /\ NoneOrphaned

LEMMA KeptFrames ==
  ASSUME BoardInv, KeepsFrames
  PROVE  Framed
<1>1. PICK tab : TaskStep(tab)
  BY DEF KeepsFrames
<1>2. TableInv'
  BY <1>1, TableInvariants DEF BoardInv
<1>3. TasksStay
  <2>1. ASSUME NEW r \in RunIds, run[r].task # 0
        PROVE  Present(run[r].task)' /\ task'[run[r].task].revision >= task[run[r].task].revision
    <3>1. run[r].task \in TaskIds /\ Present(run[r].task)
      BY <2>1, RunTypes DEF BoardInv, QueueInv, RunsHaveTasks
    <3>2. Grown(run[r].task)
      BY <1>1, <3>1, TaskStepGrows DEF BoardInv
    <3> QED BY <3>1, <3>2 DEF Grown
  <2> QED BY <2>1 DEF TasksStay
<1> QED BY <1>2, <1>3 DEF KeepsFrames, Framed

LEMMA DeleteFrames ==
  ASSUME BoardInv, NEW t \in TaskIds, DeleteTask(t)
  PROVE  Framed
<1>0. TypeOK
  BY DEF BoardInv
<1>1. PICK tree \in SUBSET TaskIds :
        /\ IsSubtree(t, tree)
        /\ \A k \in tree : Present(k) /\ task'[k] = [BlankTask EXCEPT !.status = "gone"]
        /\ \A k \in TaskIds \ tree :
             /\ task'[k].deps = task[k].deps \ tree
             /\ task'[k].status = task[k].status
             /\ task'[k].revision = task[k].revision
             /\ task'[k].assigner = task[k].assigner
             /\ task'[k].assignee = task[k].assignee
             /\ task'[k].parent = task[k].parent
             /\ task'[k].role = task[k].role
        /\ run' = [r \in RunIds |->
                     IF run[r].task \in tree THEN [BlankRun EXCEPT !.status = "gone"]
                     ELSE run[r]]
        /\ attempt' = [c \in Claims |->
                         IF attempt[c].run \in RunIds /\ run[attempt[c].run].task \in tree
                         THEN [BlankAttempt EXCEPT !.status = "gone"] ELSE attempt[c]]
        /\ active' = active
  BY <1>0, DeletedRows
<1>2. TableInv'
  BY DeleteInvariants DEF BoardInv
<1>3. 0 \notin tree
  BY DEF TaskIds
<1>4. ASSUME NEW r \in RunIds, run[r].task \in tree
      PROVE  Removed(r) /\ ~SameRun(r) /\ ~Started(r) /\ ~GivenBack(r)
  <2>1. run'[r].status = "gone" /\ run'[r].claim = NoClaim /\ run'[r].task = 0
    BY <1>1, <1>4 DEF BlankRun
  <2>2. run[r].status # "absent"
    BY <1>3, <1>4 DEF BoardInv, ClaimsUsed, BlankRun
  <2> QED BY <1>3, <1>4, <2>1, <2>2
          DEF Removed, Erased, SameRun, SameJob, Started, GivenBack, Returned
<1>5. ASSUME NEW r \in RunIds, run[r].task \notin tree
      PROVE  SameRun(r) /\ ~Started(r) /\ ~GivenBack(r) /\ run'[r] = run[r]
  BY <1>1, <1>5 DEF SameRun, SameJob, Started, GivenBack, Returned
<1>6. QueueStep
  <2>1. ASSUME NEW c \in Claims
        PROVE  IF attempt[c].status = "claimed"
               THEN IF SameRun(attempt[c].run)
                    THEN attempt'[c].status = "claimed" /\ attempt'[c].run = attempt[c].run
                    ELSE attempt'[c].status # "claimed"
               ELSE attempt'[c].status \in {attempt[c].status, "gone"}
    <3>1. attempt[c].status = "claimed" => attempt[c].run \in RunIds
      BY LeaseParts DEF BoardInv, QueueInv
    <3>2. \/ /\ attempt[c].run \in RunIds /\ run[attempt[c].run].task \in tree
             /\ attempt'[c].status = "gone"
          \/ /\ ~(attempt[c].run \in RunIds /\ run[attempt[c].run].task \in tree)
             /\ attempt'[c] = attempt[c]
      BY <1>1 DEF BlankAttempt
    <3> QED BY <1>4, <1>5, <3>1, <3>2
  <2> QED BY <1>4, <1>5, <2>1 DEF QueueStep, NewAlone, AttemptsFollow
<1>7. ASSUME NEW r \in RunIds, run[r].task # 0, run[r].task \notin tree
      PROVE  /\ run[r].task \in TaskIds \ tree
             /\ Present(run[r].task)'
             /\ task'[run[r].task].revision = task[run[r].task].revision
             /\ task[run[r].task].revision \in Nat
             /\ Frozen(run[r].task)
  <2>1. run[r].task \in TaskIds \ tree /\ Present(run[r].task) /\ task[run[r].task].revision \in Nat
    BY <1>7, RunTypes DEF BoardInv, QueueInv, RunsHaveTasks
  <2> QED BY <1>1, <2>1 DEF Frozen, Present
<1>8. TasksStay
  BY <1>4, <1>7 DEF TasksStay
<1>9. Freezes
  <2> SUFFICES ASSUME NEW r \in RunIds, SameRun(r), run[r].task # 0
               PROVE  /\ Frozen(run[r].task)
                      /\ \A d \in task'[run[r].task].deps :
                           task[d].status = "accepted" => task'[d].status = "accepted"
    BY DEF Freezes
  <2>1. run[r].task \notin tree
    BY <1>4
  <2>2. run[r].task \in TaskIds \ tree /\ Frozen(run[r].task)
    BY <1>7, <2>1
  <2>3. \A d \in task'[run[r].task].deps : d \in TaskIds \ tree
    BY <1>1, <2>2 DEF BoardInv, TypeOK, Task
  <2> QED BY <1>1, <2>2, <2>3
<1>10. NoneOrphaned
  <2> SUFFICES ASSUME NEW k \in TaskIds, Orphaned(k)', ~Orphaned(k)
               PROVE  FALSE
    BY DEF NoneOrphaned
  <2>1. k \notin tree
    BY <1>1 DEF Orphaned, BlankTask
  <2>2. /\ task'[k].status = task[k].status
        /\ task'[k].revision = task[k].revision
        /\ task'[k].assignee = task[k].assignee
    BY <1>1, <2>1
  <2>3. PICK r \in RunIds : /\ run[r].status \in {"queued", "claimed", "retry_wait"}
                            /\ run[r].task = k
                            /\ run[r].worker = task[k].assignee
                            /\ run[r].revision = task[k].revision
    BY <1>1, <2>2 DEF Orphaned
  <2>4. run'[r] = run[r]
    BY <1>5, <2>1, <2>3
  <2> QED BY <2>2, <2>3, <2>4 DEF Orphaned
<1> QED BY <1>2, <1>6, <1>8, <1>9, <1>10 DEF Framed

--------------------------------------------------------------------------------
(* Transactions on workers and on the runs of their own *)

\* Steps that change no task and move no run.
LEMMA NothingMoved ==
  ASSUME BoardInv, task' = task,
         \A r \in RunIds : SameRun(r) \/ (Started(r) /\ run'[r].task = 0),
         \A c \in Claims : attempt'[c].status = attempt[c].status /\ attempt'[c].run = attempt[c].run
  PROVE  KeepsFrames
<1>1. TaskStep(task)
  BY DEF BoardInv, TypeOK, TaskStep, TableStep, NewlySplit, NewlyEnded
<1>2. \A r \in RunIds : SameRun(r) => ~Started(r) /\ ~GivenBack(r)
  BY DEF SameRun, Started, GivenBack, Returned
<1>3. \A r \in RunIds : Started(r) => ~GivenBack(r) /\ ~SameRun(r)
  BY DEF SameRun, Started, GivenBack, Returned
<1>4. AttemptsFollow
  <2>1. \A c \in Claims : attempt[c].status = "claimed" => SameRun(attempt[c].run)
    BY LeaseParts DEF BoardInv, QueueInv, Started
  <2> QED BY <2>1 DEF AttemptsFollow
<1>5. QueueStep
  BY <1>2, <1>3, <1>4 DEF QueueStep, NewAlone
<1>6. Freezes
  BY DEF Freezes, Frozen
<1>7. NoneOrphaned
  <2> SUFFICES ASSUME NEW t \in TaskIds, Orphaned(t)', ~Orphaned(t), task[t].assignee \in active
               PROVE  FALSE
    BY DEF NoneOrphaned, Orphaned
  <2>1. PICK r \in RunIds : Executes(r, t)
    BY DEF Orphaned, Executes
  <2>2. SameRun(r)
    BY <2>1 DEF Executes, Started
  <2>3. Executes(r, t)'
    BY <2>1, <2>2 DEF Executes, SameRun, SameJob
  <2> QED BY <2>3 DEF Orphaned, Executes
<1> QED BY <1>1, <1>5, <1>6, <1>7 DEF KeepsFrames

LEMMA RevokeFrames ==
  ASSUME BoardInv, NEW w \in Workers, RevokeWorker(w)
  PROVE  KeepsFrames
<1> DEFINE held == {t \in TaskIds : task[t].status \in OpenStatuses /\ task[t].assignee = w}
           lost == {r \in RunIds : ActiveRun(r) /\ run[r].worker = w}
           gone == {r \in RunIds : run[r].worker = w}
<1>1. /\ active' = active \ {w}
      /\ \A t \in held : task'[t] = Revised(t, "pending")
      /\ \A t \in TaskIds \ held : task'[t] = task[t]
      /\ \A r \in lost : run'[r] = EndedRun(r, "cancelled")
      /\ \A r \in RunIds \ lost : run'[r] = run[r]
      /\ attempt' = CancelledAttempts(gone)
  BY DEF RevokeWorker
<1>2. TypeOK /\ TableInv /\ QueueInv /\ Typed
  BY ManageType DEF BoardInv, ManageWorker
<1>3. ASSUME NEW t \in held
      PROVE  /\ Edited(t, task') /\ task'[t].status = "pending" /\ task[t].status # "split"
             /\ task'[t].assignee = w
  <2>1. t \in TaskIds /\ task[t].status \in OpenStatuses /\ task[t].assignee = w
    OBVIOUS
  <2>2. "pending" \in TaskStatuses
    BY DEF TaskStatuses, OpenStatuses
  <2>3. task'[t] = Revised(t, "pending")
    BY <1>1
  <2>4. /\ task'[t] \in Task
        /\ task'[t].status = "pending"
        /\ task'[t].revision > task[t].revision
        /\ task'[t].parent = task[t].parent
        /\ task'[t].assigner = task[t].assigner
        /\ task'[t].assignee = task[t].assignee
        /\ task'[t].deps = task[t].deps
        /\ task'[t].role = task[t].role
    BY <1>2, <2>1, <2>2, <2>3, RevisedRow
  <2>5. Present(t) /\ task[t].status \notin ClosedStatuses /\ task[t].status # "split"
    BY <2>1 DEF Present, TaskStatuses, OpenStatuses, ClosedStatuses
  <2>6. RolesApart(task'[t])
    BY <1>2, <2>1, <2>4, OldRoles, SameRoles
  <2>7. IsRow(task'[t]) /\ task'[t].revision >= task[t].revision
    <3>1. task'[t].revision \in Nat /\ task[t].revision \in Nat
      BY <1>2, <2>1 DEF TypeOK, Typed, Task
    <3> QED BY <2>2, <2>4, <3>1 DEF IsRow
  <2> HIDE DEF held
  <2> QED BY <1>2, <2>1, <2>4, <2>5, <2>6, <2>7, RevisedEdited
<1>4. ASSUME NEW r \in RunIds, r \in lost
      PROVE  Dropped(r) /\ ~SameRun(r) /\ ~Started(r) /\ ~GivenBack(r)
  <2>1. run'[r] = EndedRun(r, "cancelled") /\ ActiveRun(r)
    BY <1>1, <1>4
  <2>2. Dropped(r) /\ ~SameRun(r)
    BY <1>2, <2>1, CancelledRun
  <2> QED BY <2>2 DEF Dropped, Cancelled, Started, GivenBack, Returned
<1>5. ASSUME NEW r \in RunIds, r \notin lost
      PROVE  run'[r] = run[r] /\ SameRun(r) /\ ~Started(r) /\ ~GivenBack(r)
  BY <1>1, <1>5 DEF SameRun, SameJob, Started, GivenBack, Returned
<1>6. QueueStep
  <2>1. \A r \in RunIds : run[r].status = "claimed" => (SameRun(r) <=> r \notin gone)
    BY <1>4, <1>5 DEF ActiveRun, ActiveRunStatuses
  <2>2. AttemptsFollow
    <3> HIDE DEF gone
    <3> QED BY <1>1, <1>2, <2>1, CancelledFollow DEF QueueInv
  <2> HIDE DEF lost
  <2> QED BY <1>4, <1>5, <2>2 DEF QueueStep, NewAlone
<1>7. TaskStep(task')
  <2>1. \A t \in TaskIds : task'[t] = task[t] \/ Edited(t, task')
    BY <1>1, <1>3
  <2>2. \A t \in TaskIds : ~NewlySplit(t, task') /\ ~NewlyEnded(t, task')
    BY <1>1, <1>3 DEF NewlySplit, NewlyEnded, EndedStatuses
  <2> HIDE DEF held
  <2> QED BY <1>2, <2>1, <2>2 DEF TaskStep, TableStep, Typed
<1>8. Freezes
  <2> SUFFICES ASSUME NEW r \in RunIds, run[r].status = "claimed", SameRun(r), run[r].task # 0
               PROVE  /\ Frozen(run[r].task)
                      /\ \A d \in task'[run[r].task].deps :
                           task[d].status = "accepted" => task'[d].status = "accepted"
    BY DEF Freezes
  <2>1. r \notin lost
    BY <1>4
  <2>2. run[r].task \in TaskIds /\ task[run[r].task].assignee = run[r].worker
    BY <1>2, RunTypes DEF BoardInv, ClaimedRunIsCurrent, TaskInHand
  <2>3. task'[run[r].task] = task[run[r].task]
    BY <1>1, <2>1, <2>2 DEF ActiveRun, ActiveRunStatuses
  <2>4. \A d \in task[run[r].task].deps : d \in TaskIds
    BY <1>2, <2>2 DEF TypeOK, Task
  <2>5. \A d \in TaskIds : task[d].status = "accepted" => task'[d].status = "accepted"
    BY <1>1 DEF OpenStatuses
  <2> QED BY <2>3, <2>4, <2>5 DEF Frozen
<1>9. NoneOrphaned
  <2> SUFFICES ASSUME NEW t \in TaskIds, Orphaned(t)', ~Orphaned(t)
               PROVE  FALSE
    BY DEF NoneOrphaned
  <2>1. task'[t].assignee \in active \ {w}
    BY <1>1 DEF Orphaned
  <2>2. task'[t] = task[t]
    BY <1>1, <1>3, <2>1
  <2>3. PICK r \in RunIds : Executes(r, t)
    BY <2>1, <2>2 DEF Orphaned, Executes
  <2>4. run'[r] = run[r]
    BY <1>1, <2>1, <2>2, <2>3 DEF Executes
  <2>5. Executes(r, t)'
    BY <2>2, <2>3, <2>4 DEF Executes
  <2> QED BY <2>5 DEF Orphaned, Executes
<1> QED BY <1>6, <1>7, <1>8, <1>9 DEF KeepsFrames

LEMMA ManageFrames ==
  ASSUME BoardInv, NEW w \in Workers, ManageWorker(w)
  PROVE  KeepsFrames
<1>1. CASE DisableWorker(w) \/ EnableWorker(w)
  <2>1. task' = task /\ run' = run /\ attempt' = attempt
    BY <1>1 DEF DisableWorker, EnableWorker
  <2> QED BY <2>1, NothingMoved DEF SameRun, SameJob
<1>2. CASE RevokeWorker(w)
  BY <1>2, RevokeFrames
<1>3. CASE CreateWorkerRun(w)
  <2>1. PICK r \in RunIds : run[r].status = "absent" /\ run' = [run EXCEPT ![r] = NewRun(0, 0, w)]
    BY <1>3 DEF CreateWorkerRun
  <2>2. w \in active /\ task' = task /\ attempt' = attempt
    BY <1>3 DEF CreateWorkerRun
  <2>3. run'[r] = NewRun(0, 0, w) /\ \A q \in RunIds \ {r} : run'[q] = run[q]
    BY <2>1 DEF BoardInv, TypeOK
  <2>4. Started(r) /\ run'[r].task = 0
    <3>1. /\ run'[r].status = "queued" /\ run'[r].claim = NoClaim
          /\ run'[r].worker = w /\ run'[r].task = 0
      BY <2>3 DEF NewRun, BlankRun
    <3> QED BY <2>1, <2>2, <3>1 DEF Started
  <2>5. \A q \in RunIds \ {r} : SameRun(q)
    BY <2>3 DEF SameRun, SameJob
  <2> QED BY <2>2, <2>4, <2>5, NothingMoved
<1> QED BY <1>1, <1>2, <1>3 DEF ManageWorker

--------------------------------------------------------------------------------
(* Transactions on one leased run *)

\* Run r alone moves, and with it at most its task.
LEMMA RunMoves ==
  ASSUME BoardInv, NEW r \in RunIds, GivenBack(r) \/ Dropped(r),
         \A q \in RunIds \ {r} : run'[q] = run[q],
         AttemptsFollow, active' = active,
         NEW tab, TaskStep(tab),
         \/ run[r].task = 0 /\ task' = task
         \/ /\ run[r].task # 0 /\ Elsewhere(run[r].task)
            /\ \/ task'[run[r].task].status \notin {"pending", "in_progress"}
               \/ Executes(r, run[r].task)'
  PROVE  KeepsFrames
<1>1. /\ ActiveRun(r) /\ ~SameRun(r) /\ ~Started(r)
      /\ \A q \in RunIds \ {r} : SameRun(q) /\ ~Started(q) /\ ~GivenBack(q)
  BY DEF GivenBack, Dropped, Returned, Cancelled, SameRun, SameJob, Started, ActiveRun,
         ActiveRunStatuses
<1>2. QueueStep
  BY <1>1 DEF QueueStep, NewAlone
<1>3. \A u \in TaskIds : u # run[r].task =>
        \/ Frozen(u)
        \/ task[u].status # "in_progress" /\ task'[u].status \notin {"pending", "in_progress"}
  BY DEF Elsewhere, Frozen
<1>4. Freezes
  <2> SUFFICES ASSUME NEW q \in RunIds, run[q].status = "claimed", SameRun(q), run[q].task # 0
               PROVE  /\ Frozen(run[q].task)
                      /\ \A d \in task'[run[q].task].deps :
                           task[d].status = "accepted" => task'[d].status = "accepted"
    BY DEF Freezes
  <2>1. q # r /\ run[q].task \in TaskIds
    BY <1>1, RunTypes DEF BoardInv
  <2>2. run[q].task # run[r].task
    BY <1>1, <2>1 DEF BoardInv, QueueInv, OneActiveRunPerTask, ActiveRun, ActiveRunStatuses
  <2>3. task[run[q].task].status = "in_progress"
    BY DEF BoardInv, ClaimedRunIsCurrent, TaskInHand
  <2>4. Frozen(run[q].task)
    BY <1>3, <2>1, <2>2, <2>3
  <2>5. \A d \in task'[run[q].task].deps : d \in TaskIds
    BY <2>1, <2>4 DEF BoardInv, TypeOK, Task, Frozen
  <2>6. \A d \in TaskIds : Grown(d)
    BY TaskStepGrows DEF BoardInv
  <2> QED BY <2>4, <2>5, <2>6 DEF Grown, EndedStatuses
<1>5. NoneOrphaned
  <2> SUFFICES ASSUME NEW t \in TaskIds, Orphaned(t)', ~Orphaned(t)
               PROVE  FALSE
    BY DEF NoneOrphaned
  <2>1. t # run[r].task
    <3>1. t # 0 /\ run'[r].task = run[r].task
      BY DEF TaskIds, GivenBack, Dropped, SameJob
    <3>2. ASSUME t = run[r].task PROVE FALSE
      <4>1. task'[t].status \in {"pending", "in_progress"} /\ ~Executes(r, t)'
        BY DEF Orphaned, Executes
      <4> QED BY <3>1, <3>2, <4>1 DEF Executes
    <3> QED BY <3>2
  <2>2. SameWork(t)
    BY <1>3, <2>1 DEF Orphaned, Frozen, SameWork
  <2>3. PICK q \in RunIds : Executes(q, t)
    BY <2>2 DEF Orphaned, Executes, SameWork
  <2>4. run'[q] = run[q]
    BY <2>1, <2>3 DEF Executes
  <2>5. Executes(q, t)'
    BY <2>2, <2>3, <2>4 DEF Executes, SameWork
  <2> QED BY <2>5 DEF Orphaned, Executes
<1> QED BY <1>2, <1>4, <1>5 DEF KeepsFrames

LEMMA EndedFollow ==
  ASSUME BoardInv, NEW r \in RunIds, NEW c \in Claims, Leased(r, c), ~SameRun(r),
         NEW row, NEW status, status # "claimed", EndLease(r, c, row, status)
  PROVE  AttemptsFollow
<1> SUFFICES ASSUME NEW b \in Claims
             PROVE  IF attempt[b].status = "claimed"
                    THEN IF SameRun(attempt[b].run)
                         THEN attempt'[b].status = "claimed" /\ attempt'[b].run = attempt[b].run
                         ELSE attempt'[b].status # "claimed"
                    ELSE attempt'[b].status \in {attempt[b].status, "gone"}
  BY DEF AttemptsFollow
<1>1. attempt[c].status = "claimed" /\ attempt[c].run = r /\ run[r].claim = c
  BY DEF Leased
<1>2. CASE b = c
  <2>1. attempt[c] \in Attempt /\ attempt'[c] = [attempt[c] EXCEPT !.status = status]
    BY DEF EndLease, BoardInv, TypeOK
  <2>2. attempt'[c].status = status
    BY <2>1 DEF Attempt
  <2> QED BY <1>1, <1>2, <2>2
<1>3. CASE b # c
  <2>1. attempt'[b] = attempt[b]
    BY <1>3 DEF EndLease, BoardInv, TypeOK
  <2>2. CASE attempt[b].status = "claimed"
    <3>1. attempt[b].run \in RunIds /\ attempt[b].run # r
      BY <1>1, <1>3, <2>2, LeaseParts DEF BoardInv, QueueInv
    <3>2. run'[attempt[b].run] = run[attempt[b].run]
      BY <3>1 DEF EndLease, BoardInv, TypeOK
    <3>3. SameRun(attempt[b].run)
      BY <3>2 DEF SameRun, SameJob
    <3> QED BY <2>1, <2>2, <3>3
  <2> QED BY <2>1, <2>2
<1> QED BY <1>2, <1>3

LEMMA LeaseEnds ==
  ASSUME BoardInv, NEW r \in RunIds, NEW c \in Claims, Leased(r, c),
         NEW row \in Run, NEW status, status # "claimed", EndLease(r, c, row, status),
         row.status \in {"queued", "retry_wait", "awaiting_input", "completed"},
         row.claim = NoClaim,
         row.task = run[r].task, row.revision = run[r].revision, row.worker = run[r].worker,
         row.status = "completed" /\ run[r].task # 0 =>
           /\ run[r].revision = task[run[r].task].revision
           /\ run[r].revision < task'[run[r].task].revision,
         active' = active,
         NEW tab, TaskStep(tab),
         \/ run[r].task = 0 /\ task' = task
         \/ /\ run[r].task # 0 /\ Elsewhere(run[r].task)
            /\ \/ task'[run[r].task].status \notin {"pending", "in_progress"}
               \/ /\ row.status \in {"queued", "retry_wait"}
                  /\ row.worker = task'[run[r].task].assignee
                  /\ row.revision = task'[run[r].task].revision
  PROVE  KeepsFrames
<1>1. run'[r] = row /\ \A q \in RunIds \ {r} : run'[q] = run[q]
  BY DEF EndLease, BoardInv, TypeOK
<1>2. GivenBack(r) /\ ~SameRun(r)
  BY <1>1 DEF GivenBack, SameJob, SameRun, Returned, Leased
<1>3. AttemptsFollow
  BY <1>2, EndedFollow
<1>4. run[r].task # 0 =>
        \/ task'[run[r].task].status \notin {"pending", "in_progress"}
        \/ Executes(r, run[r].task)'
  BY <1>1 DEF Executes
<1> QED BY <1>1, <1>2, <1>3, <1>4, RunMoves

LEMMA EndedRows ==
  ASSUME TypeOK, NEW r \in RunIds, ActiveRun(r), NEW status \in RunStatuses
  PROVE  LET row == EndedRun(r, status)
         IN /\ row \in Run
            /\ row.status = status
            /\ row.claim = NoClaim
            /\ row.task = run[r].task
            /\ row.revision = run[r].revision
            /\ row.worker = run[r].worker
            /\ row.failures = run[r].failures
<1>1. run[r] \in Run
  BY DEF TypeOK
<1> QED BY <1>1 DEF EndedRun, Run

\* The task of a run whose lease ends takes another status at its old revision.
LEMMA WaitingTask ==
  ASSUME BoardInv, NEW r \in RunIds, run[r].status = "claimed", NEW status \in OpenStatuses,
         task' = WithStatus(r, status)
  PROVE  /\ TaskStep(task')
         /\ run[r].task # 0 =>
              /\ Elsewhere(run[r].task)
              /\ task'[run[r].task].status = status
              /\ task'[run[r].task].assignee = run[r].worker
              /\ task'[run[r].task].revision = run[r].revision
<1> DEFINE t == run[r].task
<1>1. CASE t = 0
  BY <1>1 DEF WithStatus, BoardInv, TypeOK, TaskStep, TableStep, NewlySplit, NewlyEnded
<1>2. CASE t # 0
  <2> DEFINE row == [task[t] EXCEPT !.status = status]
  <2>1. /\ t \in TaskIds /\ task[t] \in Task /\ Present(t) /\ task[t].status = "in_progress"
        /\ task[t].assignee = run[r].worker /\ task[t].revision = run[r].revision
    BY <1>2, RunTypes
       DEF BoardInv, TypeOK, QueueInv, RunsHaveTasks, ClaimedRunIsCurrent, TaskInHand
  <2>2. task' = [task EXCEPT ![t] = row]
    BY <1>2 DEF WithStatus
  <2>3. status \in TaskStatuses /\ status \notin ClosedStatuses /\ status # "split"
    BY DEF TaskStatuses, OpenStatuses, ClosedStatuses
  <2>4. /\ row \in Task /\ row.status = status
        /\ row.revision = task[t].revision /\ row.revision \in Nat
        /\ row.parent = task[t].parent
        /\ row.assigner = task[t].assigner
        /\ row.assignee = task[t].assignee
        /\ row.deps = task[t].deps
        /\ row.role = task[t].role
    BY <2>1, <2>3 DEF Task
  <2> HIDE DEF row
  <2>5. task'[t] = row
    BY <2>1, <2>2 DEF BoardInv, TypeOK
  <2>6. RolesApart(row)
    BY <2>1, <2>4, OldRoles, SameRoles DEF BoardInv
  <2>7. Edited(t, task')
    BY <2>1, <2>3, <2>4, <2>5, <2>6, RevisedEdited DEF BoardInv, IsRow, ClosedStatuses
  <2>8. TaskStep(task') /\ Elsewhere(t)
    BY <2>1, <2>2, <2>3, <2>4, <2>7, OneRowStep DEF BoardInv, ClosedStatuses, EndedStatuses
  <2> QED BY <2>1, <2>4, <2>5, <2>8
<1> QED BY <1>1, <1>2

LEMMA CompleteFrames ==
  ASSUME BoardInv, NEW r \in RunIds, NEW c \in Claims, NEW succeeded \in BOOLEAN,
         CompleteRun(r, c, succeeded)
  PROVE  KeepsFrames
<1> DEFINE t == run[r].task
           status == IF succeeded THEN CompletionStatus(task[t]) ELSE "done"
           tab == [task EXCEPT ![t] = Revised(t, status)]
<1>1. /\ Leased(r, c) /\ run[r].status = "claimed" /\ ActiveRun(r)
      /\ EndLease(r, c, EndedRun(r, "completed"), "completed")
      /\ active' = active
  BY DEF CompleteRun, Leased, ActiveRun, ActiveRunStatuses
<1>2. /\ EndedRun(r, "completed") \in Run
      /\ EndedRun(r, "completed").status = "completed"
      /\ EndedRun(r, "completed").claim = NoClaim
      /\ EndedRun(r, "completed").task = run[r].task
      /\ EndedRun(r, "completed").revision = run[r].revision
      /\ EndedRun(r, "completed").worker = run[r].worker
  BY <1>1, EndedRows DEF BoardInv, RunStatuses, ActiveRunStatuses
<1>3. CASE t = 0
  <2>1. task' = task
    BY <1>3 DEF CompleteRun
  <2>2. TaskStep(task)
    BY <2>1 DEF BoardInv, TypeOK, TaskStep, TableStep, NewlySplit, NewlyEnded
  <2> QED BY <1>1, <1>2, <1>3, <2>1, <2>2, LeaseEnds
<1>4. CASE t # 0
  <2>1. /\ t \in TaskIds /\ task[t] \in Task /\ Present(t) /\ task[t].status = "in_progress"
        /\ task[t].revision = run[r].revision /\ task[t].revision \in Nat
    BY <1>1, <1>4, RunTypes
       DEF BoardInv, TypeOK, Task, QueueInv, RunsHaveTasks, ClaimedRunIsCurrent, TaskInHand
  <2>2. IF status = "accepted" THEN CascadeUp(tab, task[t].parent) ELSE task' = tab
    BY <1>4 DEF CompleteRun
  <2>3. status \in {"done", "accepted"} /\ status \in TaskStatuses
    BY <2>1, CompletionStatusType DEF TaskStatuses, ClosedStatuses
  <2>4. /\ Revised(t, status) \in Task
        /\ Revised(t, status).status = status
        /\ Revised(t, status).revision > task[t].revision
        /\ Revised(t, status).revision = task[t].revision + 1
        /\ Revised(t, status).parent = task[t].parent
        /\ Revised(t, status).assigner = task[t].assigner
        /\ Revised(t, status).assignee = task[t].assignee
        /\ Revised(t, status).deps = task[t].deps
        /\ Revised(t, status).role = task[t].role
    BY <2>1, <2>3, RevisedRow DEF BoardInv
  <2> HIDE DEF status
  <2>5. tab[t] = Revised(t, status)
    BY <2>1 DEF BoardInv, TypeOK
  <2>6. Edited(t, tab)
    <3>1. RolesApart(tab[t])
      BY <2>1, <2>4, <2>5, OldRoles, SameRoles DEF BoardInv
    <3>2. task[t].status \notin ClosedStatuses
      BY <2>1 DEF ClosedStatuses
    <3>3. IsRow(tab[t]) /\ tab[t].revision >= task[t].revision
      BY <2>1, <2>3, <2>4, <2>5 DEF IsRow
    <3> HIDE DEF tab
    <3> QED BY <2>1, <2>4, <2>5, <3>1, <3>2, <3>3, RevisedEdited DEF BoardInv
  <2>7. TaskStep(tab) /\ Elsewhere(t) /\ task'[t] = Revised(t, status)
    <3>1. \/ task' = tab /\ (Revised(t, status).status \in EndedStatuses => task[t].status \in EndedStatuses)
          \/ CascadeUp(tab, Revised(t, status).parent)
      BY <2>2, <2>3, <2>4 DEF EndedStatuses
    <3>2. Revised(t, status).status # "split"
      BY <2>3, <2>4
    <3> HIDE DEF t
    <3> QED BY <2>1, <2>4, <2>6, <3>1, <3>2, OneRowStep DEF BoardInv
  <2> QED BY <1>1, <1>2, <1>4, <2>1, <2>3, <2>4, <2>7, LeaseEnds
<1> QED BY <1>3, <1>4

LEMMA ReturnFrames ==
  ASSUME BoardInv, NEW r \in RunIds, NEW c \in Claims,
         ReleaseClaim(r, c) \/ RequestInput(r, c) \/ FailRun(r, c)
  PROVE  KeepsFrames
<1>1. /\ Leased(r, c) /\ run[r].status = "claimed" /\ ActiveRun(r) /\ active' = active
      /\ run[r] \in Run /\ run[r].task \in TaskIds \cup {0} /\ TypeOK
  BY RunTypes
     DEF ReleaseClaim, RequestInput, FailRun, Leased, ActiveRun, ActiveRunStatuses, BoardInv
<1>2. CASE ReleaseClaim(r, c)
  <2> DEFINE row == [EndedRun(r, "queued") EXCEPT !.ready = TRUE]
  <2>1. EndLease(r, c, row, "released") /\ task' = task
    BY <1>2 DEF ReleaseClaim
  <2>2. /\ row \in Run /\ row.status = "queued" /\ row.claim = NoClaim
        /\ row.task = run[r].task /\ row.revision = run[r].revision /\ row.worker = run[r].worker
    BY <1>1 DEF EndedRun, Run, RunStatuses, ActiveRunStatuses
  <2> HIDE DEF row
  <2>3. TaskStep(task)
    BY <1>1, <2>1 DEF TypeOK, TaskStep, TableStep, NewlySplit, NewlyEnded
  <2>4. run[r].task # 0 => /\ run[r].worker = task[run[r].task].assignee
                           /\ run[r].revision = task[run[r].task].revision
    BY <1>1 DEF BoardInv, ClaimedRunIsCurrent, TaskInHand
  <2>5. Elsewhere(run[r].task)
    BY <2>1 DEF Elsewhere, Frozen
  <2> QED BY <1>1, <2>1, <2>2, <2>3, <2>4, <2>5, LeaseEnds
<1>3. CASE RequestInput(r, c)
  <2> DEFINE row == EndedRun(r, "awaiting_input")
  <2>1. EndLease(r, c, row, "awaiting_input") /\ task' = WithStatus(r, "awaiting_input")
    BY <1>3 DEF RequestInput
  <2>2. /\ row \in Run /\ row.status = "awaiting_input" /\ row.claim = NoClaim
        /\ row.task = run[r].task /\ row.revision = run[r].revision /\ row.worker = run[r].worker
    BY <1>1, EndedRows DEF RunStatuses, ActiveRunStatuses
  <2>3. /\ TaskStep(task')
        /\ run[r].task # 0 => /\ Elsewhere(run[r].task)
                              /\ task'[run[r].task].status = "awaiting_input"
    BY <1>1, <2>1, WaitingTask DEF OpenStatuses
  <2>4. run[r].task = 0 => task' = task
    BY <2>1 DEF WithStatus
  <2> HIDE DEF row
  <2> QED BY <1>1, <2>1, <2>2, <2>3, <2>4, LeaseEnds
<1>4. CASE FailRun(r, c)
  <2> DEFINE failures == run[r].failures + 1
             blocked  == failures >= MaxFailures
             status   == IF blocked THEN "awaiting_input" ELSE "retry_wait"
             waits    == IF blocked THEN "awaiting_input" ELSE "pending"
             row      == [EndedRun(r, status) EXCEPT !.failures = failures]
  <2>1. EndLease(r, c, row, status) /\ task' = WithStatus(r, waits)
    BY <1>4 DEF FailRun
  <2>2. Typed
    BY <1>1, <1>4, ExecuteType DEF ExecuteRun
  <2>3. run'[r] = row
    BY <1>1, <2>1 DEF EndLease, TypeOK
  <2>4. /\ row \in Run
        /\ row.status = status /\ row.claim = NoClaim
        /\ row.task = run[r].task /\ row.revision = run[r].revision /\ row.worker = run[r].worker
    <3>1. row \in Run
      BY <2>2, <2>3 DEF Typed
    <3>2. /\ row.status = status /\ row.claim = NoClaim
          /\ row.task = run[r].task /\ row.revision = run[r].revision /\ row.worker = run[r].worker
      <4> HIDE DEF status, failures
      <4> QED BY <1>1 DEF EndedRun, Run
    <3> QED BY <3>1, <3>2
  <2>5. status \in {"retry_wait", "awaiting_input"} /\ waits \in OpenStatuses
        /\ (status = "retry_wait" \/ waits = "awaiting_input")
    BY DEF OpenStatuses
  <2> HIDE DEF row, status, waits
  <2>6. /\ TaskStep(task')
        /\ run[r].task # 0 => /\ Elsewhere(run[r].task)
                              /\ task'[run[r].task].status = waits
                              /\ task'[run[r].task].assignee = run[r].worker
                              /\ task'[run[r].task].revision = run[r].revision
    BY <1>1, <2>1, <2>5, WaitingTask
  <2>7. run[r].task = 0 => task' = task
    BY <2>1 DEF WithStatus
  <2>8. status # "claimed" /\ row.status # "completed"
    BY <2>4, <2>5
  <2>9. \/ run[r].task = 0 /\ task' = task
        \/ /\ run[r].task # 0 /\ Elsewhere(run[r].task)
           /\ \/ task'[run[r].task].status \notin {"pending", "in_progress"}
              \/ /\ row.status \in {"queued", "retry_wait"}
                 /\ row.worker = task'[run[r].task].assignee
                 /\ row.revision = task'[run[r].task].revision
    BY <2>4, <2>5, <2>6, <2>7
  <2>10. row.status \in {"queued", "retry_wait", "awaiting_input", "completed"}
    BY <2>4, <2>5
  <2> QED BY <1>1, <2>1, <2>4, <2>6, <2>8, <2>9, <2>10, LeaseEnds
<1> QED BY <1>2, <1>3, <1>4

\* Every step of a run but the grant of a lease.
LEMMA ExecuteFrames ==
  ASSUME BoardInv, NEW r \in RunIds, ExecuteRun(r)
  PROVE  KeepsFrames \/ \E w \in Workers, c \in Claims : ClaimNext(w, r, c)
<1>1. run[r] \in Run /\ TypeOK
  BY DEF BoardInv, TypeOK
<1>2. CASE CancelWorkerRun(r)
  <2>1. /\ ActiveRun(r) /\ run[r].task = 0 /\ task' = task /\ active' = active
        /\ attempt' = CancelledAttempts({r})
        /\ run'[r] = EndedRun(r, "cancelled")
        /\ \A q \in RunIds \ {r} : run'[q] = run[q]
    BY <1>1, <1>2 DEF CancelWorkerRun, TypeOK
  <2>2. Dropped(r) /\ ~SameRun(r)
    BY <1>1, <2>1, CancelledRun
  <2>3. AttemptsFollow
    <3>1. \A q \in RunIds : run[q].status = "claimed" => (SameRun(q) <=> q \notin {r})
      BY <2>1, <2>2 DEF SameRun, SameJob
    <3> QED BY <1>1, <2>1, <3>1, CancelledFollow DEF BoardInv, QueueInv
  <2>4. TaskStep(task)
    BY <1>1, <2>1 DEF TypeOK, TaskStep, TableStep, NewlySplit, NewlyEnded
  <2> QED BY <2>1, <2>2, <2>3, <2>4, RunMoves
<1>3. CASE LeaseAges(r) \/ BackoffElapses(r)
  <2>1. \A q \in RunIds : SameRun(q)
    BY <1>1, <1>3 DEF LeaseAges, BackoffElapses, SameRun, SameJob, TypeOK, Run
  <2>2. task' = task /\ attempt' = attempt
    BY <1>3 DEF LeaseAges, BackoffElapses
  <2> QED BY <2>1, <2>2, NothingMoved
<1>4. ASSUME NEW c \in Claims, RenewLease(r, c)
      PROVE  KeepsFrames
  <2>1. \A q \in RunIds : SameRun(q)
    BY <1>1, <1>4 DEF RenewLease, SameRun, SameJob, TypeOK, Run
  <2>2. ASSUME NEW b \in Claims
        PROVE  attempt'[b].status = attempt[b].status /\ attempt'[b].run = attempt[b].run
    <3>1. attempt[b] \in Attempt
      BY <1>1 DEF TypeOK
    <3> QED BY <1>1, <1>4, <3>1 DEF RenewLease, TypeOK, Attempt
  <2>3. task' = task
    BY <1>4 DEF RenewLease
  <2> QED BY <2>1, <2>2, <2>3, NothingMoved
<1> QED BY <1>2, <1>3, <1>4, ReturnFrames, CompleteFrames DEF ExecuteRun

--------------------------------------------------------------------------------
(* The grant of a lease *)

LEMMA ClaimRows ==
  ASSUME BoardInv, NEW w \in Workers, NEW r \in RunIds, NEW c \in Claims, ClaimNext(w, r, c)
  PROVE  /\ ActiveRun(r) /\ ~SameRun(r) /\ SameJob(r) /\ run[r].worker = w
         /\ run'[r].status = "claimed" /\ run'[r].claim = c
         /\ attempt[c].status = "absent"
         /\ \A q \in Outdated(w) : q # r
         /\ \A q \in RunIds : q \in Outdated(w) => Dropped(q) /\ ~SameRun(q)
         /\ \A q \in RunIds \ {r} : q \notin Outdated(w) => run'[q] = run[q] /\ SameRun(q)
         /\ \A q \in RunIds : ~Started(q) /\ ~GivenBack(q)
<1> DEFINE outdated == Outdated(w)
<1>1. /\ Offerable(r, w) /\ attempt[c].status = "absent"
      /\ run' = [q \in RunIds |->
                   IF q = r THEN [run[r] EXCEPT !.status = "claimed", !.claim = c,
                                                !.ready = FALSE, !.age = "fresh"]
                   ELSE IF q \in outdated THEN EndedRun(q, "cancelled") ELSE run[q]]
  BY DEF ClaimNext
<1>2. /\ run[r].status \in {"queued", "retry_wait", "claimed"} /\ ActiveRun(r)
      /\ run[r].worker = w /\ TaskReady(r)
  BY <1>1 DEF Offerable, ActiveRun, ActiveRunStatuses
<1>3. \A q \in outdated : q # r /\ ActiveRun(q) /\ q \in RunIds
  BY <1>2 DEF Outdated, TaskReady
<1>4. run'[r].status = "claimed" /\ run'[r].claim = c /\ SameJob(r)
  <2>1. run[r] \in Run
    BY DEF BoardInv, TypeOK
  <2>2. run'[r] = [run[r] EXCEPT !.status = "claimed", !.claim = c, !.ready = FALSE, !.age = "fresh"]
    BY <1>1
  <2> QED BY <2>1, <2>2 DEF Run, SameJob
<1>5. ~SameRun(r)
  <2>1. run[r].status = "claimed" => run[r].claim # c
    BY <1>1, LeaseParts DEF BoardInv, QueueInv
  <2> QED BY <1>4, <2>1 DEF SameRun
<1>6. ASSUME NEW q \in RunIds, q \in outdated
      PROVE  Dropped(q) /\ ~SameRun(q)
  BY <1>1, <1>3, <1>6, CancelledRun DEF BoardInv
<1>7. \A q \in RunIds \ {r} : q \notin outdated => run'[q] = run[q] /\ SameRun(q)
  BY <1>1 DEF SameRun, SameJob
<1>8. ASSUME NEW q \in RunIds
      PROVE  ~Started(q) /\ ~GivenBack(q)
  <2>1. CASE q = r
    BY <1>4, <2>1 DEF Started, GivenBack, Returned
  <2>2. CASE q \in outdated
    BY <1>6, <2>2 DEF Dropped, Cancelled, Started, GivenBack, Returned
  <2>3. CASE q # r /\ q \notin outdated
    BY <1>7, <2>3 DEF SameRun, Started, GivenBack, Returned
  <2> QED BY <2>1, <2>2, <2>3
<1> HIDE DEF outdated
<1> QED BY <1>1, <1>2, <1>3, <1>4, <1>5, <1>6, <1>7, <1>8 DEF outdated

LEMMA ClaimTasks ==
  ASSUME BoardInv, NEW w \in Workers, NEW r \in RunIds, NEW c \in Claims, ClaimNext(w, r, c)
  PROVE  /\ TaskStep(task')
         /\ \A u \in TaskIds \ {run[r].task} : task'[u] = task[u]
         /\ run[r].task # 0 =>
              /\ run[r].task \in TaskIds
              /\ task[run[r].task].status # "accepted"
              /\ task'[run[r].task].status = "in_progress"
              /\ task'[run[r].task].assignee = run[r].worker
              /\ task'[run[r].task].revision = run[r].revision
              /\ task'[run[r].task].deps = task[run[r].task].deps
              /\ \A d \in task[run[r].task].deps : d # run[r].task /\ task[d].status = "accepted"
<1> DEFINE t == run[r].task
<1>1. TaskReady(r) /\ task' = IF t = 0 THEN task ELSE [task EXCEPT ![t].status = "in_progress"]
  BY DEF ClaimNext, Offerable
<1>2. CASE t = 0
  BY <1>1, <1>2 DEF BoardInv, TypeOK, TaskStep, TableStep, NewlySplit, NewlyEnded
<1>3. CASE t # 0
  <2> DEFINE row == [task[t] EXCEPT !.status = "in_progress"]
  <2>1. /\ t \in TaskIds /\ task[t] \in Task /\ Present(t)
        /\ task[t].status \in {"pending", "in_progress"}
        /\ task[t].assignee = run[r].worker /\ task[t].revision = run[r].revision
        /\ \A d \in task[t].deps : Present(d) => task[d].status = "accepted"
    BY <1>1, <1>3, RunTypes DEF BoardInv, TypeOK, QueueInv, RunsHaveTasks, TaskReady
  <2>2. task' = [task EXCEPT ![t] = row]
    BY <1>1, <1>3
  <2>3. "in_progress" \in TaskStatuses
    BY DEF TaskStatuses, OpenStatuses
  <2>4. /\ row \in Task /\ row.status = "in_progress"
        /\ row.revision = task[t].revision /\ row.revision \in Nat
        /\ row.parent = task[t].parent
        /\ row.assigner = task[t].assigner
        /\ row.assignee = task[t].assignee
        /\ row.deps = task[t].deps
        /\ row.role = task[t].role
    BY <2>1, <2>3 DEF Task
  <2> HIDE DEF row
  <2>5. task'[t] = row /\ \A u \in TaskIds \ {t} : task'[u] = task[u]
    BY <2>1, <2>2 DEF BoardInv, TypeOK
  <2>6. RolesApart(row)
    BY <2>1, <2>4, OldRoles, SameRoles DEF BoardInv
  <2>7. Edited(t, task')
    BY <2>1, <2>3, <2>4, <2>5, <2>6, RevisedEdited DEF BoardInv, IsRow, ClosedStatuses
  <2>8. TaskStep(task')
    BY <2>1, <2>2, <2>3, <2>4, <2>7, OneRowStep DEF BoardInv, EndedStatuses
  <2>9. \A d \in task[t].deps : d # t /\ Present(d)
    BY <2>1 DEF BoardInv, TableInv, DepsPointBack, TaskIds
  <2> QED BY <2>1, <2>4, <2>5, <2>8, <2>9
<1> QED BY <1>2, <1>3

LEMMA ClaimHolds ==
  ASSUME BoardInv, NEW w \in Workers, NEW r \in RunIds, NEW c \in Claims, ClaimNext(w, r, c)
  PROVE  TableInv' /\ QueueInv' /\ ClaimedRunIsCurrent' /\ Freezes /\ NoneOrphaned
<1>1. /\ ActiveRun(r) /\ ~SameRun(r) /\ SameJob(r) /\ run[r].worker = w
      /\ run'[r].status = "claimed" /\ run'[r].claim = c
      /\ attempt[c].status = "absent"
      /\ \A q \in Outdated(w) : q # r
      /\ \A q \in RunIds : q \in Outdated(w) => Dropped(q) /\ ~SameRun(q)
      /\ \A q \in RunIds \ {r} : q \notin Outdated(w) => run'[q] = run[q] /\ SameRun(q)
      /\ \A q \in RunIds : ~Started(q) /\ ~GivenBack(q)
  BY ClaimRows
<1>2. /\ TaskStep(task')
      /\ \A u \in TaskIds \ {run[r].task} : task'[u] = task[u]
      /\ run[r].task # 0 =>
           /\ run[r].task \in TaskIds
           /\ task[run[r].task].status # "accepted"
           /\ task'[run[r].task].status = "in_progress"
           /\ task'[run[r].task].assignee = run[r].worker
           /\ task'[run[r].task].revision = run[r].revision
           /\ task'[run[r].task].deps = task[run[r].task].deps
           /\ \A d \in task[run[r].task].deps : d # run[r].task /\ task[d].status = "accepted"
  BY ClaimTasks
<1>3. Typed /\ TypeOK /\ QueueInv
  BY ClaimType DEF BoardInv
<1>4. TableInv'
  BY <1>2, TableInvariants DEF BoardInv
\* Another run that is leased after the step was leased before it.
<1>5. ASSUME NEW q \in RunIds, q # r, run'[q].status = "claimed"
      PROVE  q \notin Outdated(w) /\ run'[q] = run[q] /\ SameRun(q) /\ run[q].status = "claimed"
  BY <1>1, <1>5 DEF Dropped, Cancelled
<1>6. TasksStay
  <2> SUFFICES ASSUME NEW q \in RunIds, run[q].task # 0
               PROVE  Present(run[q].task)' /\ task'[run[q].task].revision >= task[run[q].task].revision
    BY DEF TasksStay
  <2>1. run[q].task \in TaskIds /\ Present(run[q].task) /\ run'[q].task = run[q].task
    BY <1>1, <1>3, RunTypes DEF QueueInv, RunsHaveTasks, SameRun, SameJob, Dropped
  <2>2. Grown(run[q].task)
    BY <1>2, <2>1, TaskStepGrows DEF BoardInv
  <2> QED BY <2>1, <2>2 DEF Grown
<1>7. /\ RunsHaveTasks' /\ RunsHaveWorkers' /\ ResultsAreOld'
      /\ OneActiveRunPerTask' /\ OneResultPerRevision'
  <2>1. \A q \in RunIds :
          \/ SameJob(q) /\ run'[q].status = run[q].status
          \/ SameJob(q) /\ run'[q].status = "claimed" /\ ActiveRun(q)
          \/ Started(q) \/ GivenBack(q) \/ Dropped(q) \/ Removed(q)
    BY <1>1 DEF SameRun
  <2> QED BY <1>1, <1>3, <1>6, <2>1, JobsHold DEF NewAlone
<1>8. LeaseMatchesAttempt'
  <2>1. attempt' = [b \in Claims |->
                      IF b = c THEN [status |-> "claimed", run |-> r, acked |-> FALSE]
                      ELSE IF run[r].status = "claimed" /\ b = run[r].claim
                           THEN [attempt[b] EXCEPT !.status = "expired"]
                           ELSE CancelledAttempts(Outdated(w))[b]]
    BY DEF ClaimNext
  <2>2. ASSUME NEW b \in Claims, b # c
        PROVE  /\ attempt'[b].status = "claimed" =>
                    /\ attempt[b].status = "claimed" /\ attempt'[b].run = attempt[b].run
                    /\ attempt[b].run \notin Outdated(w)
                    /\ ~(run[r].status = "claimed" /\ b = run[r].claim)
               /\ ~(run[r].status = "claimed" /\ b = run[r].claim)
                  /\ attempt[b].run \notin Outdated(w) => attempt'[b] = attempt[b]
    <3>1. attempt[b] \in Attempt
      BY <1>3 DEF TypeOK
    <3>2. CASE run[r].status = "claimed" /\ b = run[r].claim
      BY <2>1, <2>2, <3>1, <3>2 DEF Attempt
    <3>3. CASE ~(run[r].status = "claimed" /\ b = run[r].claim)
      <4>1. attempt'[b] = CancelledAttempts(Outdated(w))[b]
        BY <2>1, <2>2, <3>3
      <4> QED BY <3>1, <3>3, <4>1 DEF CancelledAttempts, Attempt
    <3> QED BY <3>2, <3>3
  <2>3. attempt'[c].status = "claimed" /\ attempt'[c].run = r
    BY <2>1
  <2>4. ASSUME NEW q \in RunIds, run'[q].status = "claimed"
        PROVE  run'[q].claim \in Claims /\ Leased(q, run[q].claim)'
    <3>1. CASE q = r
      BY <1>1, <2>3, <3>1 DEF Leased
    <3>2. CASE q # r
      <4> DEFINE b == run[q].claim
      <4>1. /\ run'[q] = run[q] /\ run[q].status = "claimed" /\ q \notin Outdated(w)
            /\ b \in Claims /\ attempt[b].status = "claimed" /\ attempt[b].run = q
        BY <1>3, <1>5, <2>4, <3>2, LeaseParts DEF QueueInv
      <4>2. b # c
        BY <1>1, <4>1
      <4>3. ~(run[r].status = "claimed" /\ b = run[r].claim)
        BY <1>3, <3>2, <4>1, LeaseParts DEF QueueInv
      <4>4. attempt'[b] = attempt[b]
        BY <2>2, <4>1, <4>2, <4>3
      <4> QED BY <2>4, <4>1, <4>4 DEF Leased
    <3> QED BY <3>1, <3>2
  <2>5. ASSUME NEW b \in Claims, attempt'[b].status = "claimed"
        PROVE  attempt'[b].run \in RunIds /\ Leased(attempt[b].run, b)'
    <3>1. CASE b = c
      BY <1>1, <2>3, <3>1 DEF Leased
    <3>2. CASE b # c
      <4> DEFINE q == attempt[b].run
      <4>1. /\ attempt[b].status = "claimed" /\ attempt'[b].run = q /\ q \notin Outdated(w)
            /\ q \in RunIds /\ run[q].status = "claimed" /\ run[q].claim = b
        BY <1>3, <2>2, <2>5, <3>2, LeaseParts DEF QueueInv
      <4>2. q # r
        BY <2>2, <2>5, <3>2, <4>1
      <4>3. run'[q] = run[q]
        BY <1>1, <4>1, <4>2
      <4> QED BY <2>5, <4>1, <4>3 DEF Leased
    <3> QED BY <3>1, <3>2
  <2> QED BY <2>4, <2>5 DEF LeaseMatchesAttempt
<1>9. OneClaimPerWorker'
  <2>1. ASSUME NEW q \in RunIds, q # r, run'[q].status = "claimed", run'[q].worker = w
        PROVE  FALSE
    <3>1. q \in RunIds \ Outdated(w) /\ run[q].status = "claimed" /\ run[q].worker = w
      BY <1>5, <2>1
    <3>2. ~Held(q)
      BY <3>1 DEF ClaimNext
    <3>3. TaskReady(q)
      BY <3>1 DEF BoardInv, ClaimedRunIsCurrent, TaskInHand, TaskReady
    <3>4. Offerable(q, w)
      BY <3>1, <3>2, <3>3 DEF Offerable
    <3>5. run[r].status # "claimed"
      BY <1>1, <1>3, <2>1, <3>1 DEF QueueInv, OneClaimPerWorker
    <3>6. FirstInLine(r, w, RunIds \ Outdated(w))
      BY DEF ClaimNext
    <3> QED BY <3>1, <3>4, <3>5, <3>6 DEF FirstInLine
  <2>2. run'[r].worker = w
    BY <1>1 DEF SameJob
  <2> SUFFICES ASSUME NEW p \in RunIds, NEW q \in RunIds,
                      run'[p].status = "claimed", run'[q].status = "claimed",
                      run'[p].worker = run'[q].worker
               PROVE  p = q
    BY DEF OneClaimPerWorker
  <2>3. CASE p # r /\ q # r
    BY <1>3, <1>5, <2>3 DEF QueueInv, OneClaimPerWorker
  <2> QED BY <2>1, <2>2, <2>3
<1>10. Freezes
  <2> SUFFICES ASSUME NEW q \in RunIds, run[q].status = "claimed", SameRun(q), run[q].task # 0
               PROVE  /\ Frozen(run[q].task)
                      /\ \A d \in task'[run[q].task].deps :
                           task[d].status = "accepted" => task'[d].status = "accepted"
    BY DEF Freezes
  <2>1. q # r /\ run[q].task \in TaskIds
    BY <1>1, <1>3, RunTypes
  <2>2. run[q].task # run[r].task
    BY <1>1, <1>3, <2>1 DEF QueueInv, OneActiveRunPerTask, ActiveRun, ActiveRunStatuses
  <2>3. task'[run[q].task] = task[run[q].task]
    BY <1>2, <2>1, <2>2
  <2>4. \A d \in task[run[q].task].deps : d \in TaskIds
    BY <1>3, <2>1 DEF TypeOK, Task
  <2>5. ASSUME NEW d \in TaskIds, task[d].status = "accepted"
        PROVE  task'[d].status = "accepted"
    <3>1. d # run[r].task
      BY <1>2, <2>5 DEF TaskIds
    <3> QED BY <1>2, <2>5, <3>1
  <2> QED BY <2>3, <2>4, <2>5 DEF Frozen
<1>11. ClaimedRunIsCurrent'
  <2> SUFFICES ASSUME NEW q \in RunIds, run'[q].status = "claimed", run'[q].task # 0
               PROVE  /\ TaskInHand(q)'
                      /\ \A d \in task'[run'[q].task].deps : task'[d].status = "accepted"
    BY DEF ClaimedRunIsCurrent
  <2>1. CASE q = r
    <3>1. run'[r].task = run[r].task /\ run'[r].worker = run[r].worker
          /\ run'[r].revision = run[r].revision
      BY <1>1 DEF SameJob
    <3>2. \A d \in task[run[r].task].deps : d \in TaskIds
      BY <1>2, <1>3, <2>1, <3>1 DEF TypeOK, Task
    <3> QED BY <1>2, <2>1, <3>1, <3>2 DEF TaskInHand
  <2>2. CASE q # r
    <3>1. run'[q] = run[q] /\ SameRun(q) /\ run[q].status = "claimed"
      BY <1>5, <2>2
    <3>2. /\ Frozen(run[q].task)
          /\ \A d \in task'[run[q].task].deps :
               task[d].status = "accepted" => task'[d].status = "accepted"
      BY <1>10, <3>1 DEF Freezes
    <3>3. TaskInHand(q) /\ \A d \in task[run[q].task].deps : task[d].status = "accepted"
      BY <3>1 DEF BoardInv, ClaimedRunIsCurrent
    <3> QED BY <3>1, <3>2, <3>3 DEF TaskInHand, Frozen
  <2> QED BY <2>1, <2>2
<1>12. NoneOrphaned
  <2> SUFFICES ASSUME NEW t \in TaskIds, Orphaned(t)', ~Orphaned(t)
               PROVE  FALSE
    BY DEF NoneOrphaned
  <2>1. active' = active
    BY DEF ClaimNext
  <2>2. t # run[r].task
    <3>1. ASSUME t = run[r].task PROVE FALSE
      <4>1. t # 0 /\ SameJob(r)
        BY <1>1 DEF TaskIds
      <4>2. Executes(r, t)'
        BY <1>1, <1>2, <3>1, <4>1 DEF Executes, SameJob
      <4> QED BY <4>2 DEF Orphaned, Executes
    <3> QED BY <3>1
  <2>3. task'[t] = task[t]
    BY <1>2, <2>2
  <2>4. PICK q \in RunIds : Executes(q, t)
    BY <2>1, <2>3 DEF Orphaned, Executes
  <2>5. q # r /\ q \notin Outdated(w)
    BY <2>2, <2>4 DEF Executes, Outdated
  <2>6. Executes(q, t)'
    BY <1>1, <2>3, <2>4, <2>5 DEF Executes
  <2> QED BY <2>6 DEF Orphaned, Executes
<1> QED BY <1>3, <1>4, <1>7, <1>8, <1>9, <1>10, <1>11, <1>12 DEF QueueInv

--------------------------------------------------------------------------------
(* Every transaction *)

\* A run is claimed under the same lease only if nothing was done to it.
LeaseLasts == \A r \in RunIds : run[r].status = "claimed" /\ run[r].claim = run'[r].claim => SameRun(r)

Final ==
  /\ \A t \in TaskIds : task[t].status \in EndedStatuses \cup {"gone"} =>
       task'[t].status \in {task[t].status, "gone"}
  /\ \A r \in RunIds : run[r].status \in {"completed", "cancelled", "gone"} =>
       run'[r].status \in {run[r].status, "gone"}
  /\ \A c \in Claims : attempt[c].status \notin {"absent", "claimed"} =>
       attempt'[c].status \in {attempt[c].status, "gone"}

Reached ==
  \A p \in TaskIds :
    Stranded(p)' => \/ Stranded(p)
                    \/ \E k \in TaskIds : task[k].parent = p /\ task'[k].status = "gone"

Promised == LeaseLasts /\ Freezes /\ NoneOrphaned /\ Final /\ Reached

LEMMA QueuePromises ==
  ASSUME TypeOK, QueueInv, QueueStep
  PROVE  /\ LeaseLasts
         /\ \A r \in RunIds : run[r].status \in {"completed", "cancelled", "gone"} =>
              run'[r].status \in {run[r].status, "gone"}
         /\ \A c \in Claims : attempt[c].status \notin {"absent", "claimed"} =>
              attempt'[c].status \in {attempt[c].status, "gone"}
<1>1. \A r \in RunIds : SameRun(r) \/ Started(r) \/ GivenBack(r) \/ Dropped(r) \/ Removed(r)
  BY DEF QueueStep
<1>2. LeaseLasts
  <2> SUFFICES ASSUME NEW r \in RunIds, run[r].status = "claimed", run[r].claim = run'[r].claim,
                      ~SameRun(r)
               PROVE  FALSE
    BY DEF LeaseLasts
  <2>1. run[r].claim \in Claims
    BY LeaseParts DEF QueueInv
  <2>2. run'[r].claim = NoClaim
    BY <1>1 DEF Started, GivenBack, Returned, Dropped, Cancelled, Removed, Erased
  <2> QED BY <2>1, <2>2, NullsAssumption
<1>3. \A r \in RunIds : run[r].status \in {"completed", "cancelled", "gone"} =>
        run'[r].status \in {run[r].status, "gone"}
  BY <1>1 DEF SameRun, Started, GivenBack, Returned, Dropped, Cancelled, Removed, Erased, ActiveRun,
              ActiveRunStatuses
<1>4. \A c \in Claims : attempt[c].status \notin {"absent", "claimed"} =>
        attempt'[c].status \in {attempt[c].status, "gone"}
  BY DEF QueueStep, AttemptsFollow
<1> QED BY <1>2, <1>3, <1>4

LEMMA TaskPromises ==
  ASSUME TypeOK, TableInv, NEW tab, TaskStep(tab)
  PROVE  /\ \A t \in TaskIds : task[t].status \in EndedStatuses \cup {"gone"} =>
              task'[t].status \in {task[t].status, "gone"}
         /\ Reached
<1>1. \A t \in TaskIds : task[t].status \in EndedStatuses \cup {"gone"} =>
        task'[t].status \in {task[t].status, "gone"}
  BY TaskStepGrows DEF Grown
<1>2. Reached
  BY CascadeReaches DEF Reached
<1> QED BY <1>1, <1>2

LEMMA KeptPromises ==
  ASSUME BoardInv, KeepsFrames
  PROVE  Framed /\ Promised
<1>1. Framed
  BY KeptFrames
<1>2. PICK tab : TaskStep(tab)
  BY DEF KeepsFrames
<1>3. TypeOK /\ TableInv /\ QueueInv
  BY DEF BoardInv
<1> QED BY <1>1, <1>2, <1>3, QueuePromises, TaskPromises DEF Framed, Promised, Final

LEMMA DeletePromises ==
  ASSUME BoardInv, NEW t \in TaskIds, DeleteTask(t)
  PROVE  Framed /\ Promised
<1>1. Framed
  BY DeleteFrames
<1>2. TypeOK /\ QueueInv
  BY DEF BoardInv
<1>3. PICK tree \in SUBSET TaskIds :
        /\ \A k \in tree : task'[k].status = "gone"
        /\ \A k \in TaskIds \ tree : /\ task'[k].status = task[k].status
                                     /\ task'[k].parent = task[k].parent
  <2>1. PICK tree \in SUBSET TaskIds :
          /\ IsSubtree(t, tree)
          /\ \A k \in tree : Present(k) /\ task'[k] = [BlankTask EXCEPT !.status = "gone"]
          /\ \A k \in TaskIds \ tree :
               /\ task'[k].deps = task[k].deps \ tree
               /\ task'[k].status = task[k].status
               /\ task'[k].revision = task[k].revision
               /\ task'[k].assigner = task[k].assigner
               /\ task'[k].assignee = task[k].assignee
               /\ task'[k].parent = task[k].parent
               /\ task'[k].role = task[k].role
          /\ run' = [r \in RunIds |->
                       IF run[r].task \in tree THEN [BlankRun EXCEPT !.status = "gone"]
                       ELSE run[r]]
          /\ attempt' = [c \in Claims |->
                           IF attempt[c].run \in RunIds /\ run[attempt[c].run].task \in tree
                           THEN [BlankAttempt EXCEPT !.status = "gone"] ELSE attempt[c]]
          /\ active' = active
    BY <1>2, DeletedRows
  <2>2. \A k \in tree : task'[k].status = "gone"
    BY <2>1 DEF BlankTask
  <2> QED BY <2>1, <2>2
<1>4. Reached
  <2> SUFFICES ASSUME NEW p \in TaskIds, Stranded(p)',
                      \A k \in TaskIds : task[k].parent = p => task'[k].status # "gone"
               PROVE  Stranded(p)
    BY DEF Reached
  <2>1. task[p].status = "split"
    BY <1>3 DEF Stranded
  <2>2. ASSUME NEW k \in TaskIds, Present(k), task[k].parent = p
        PROVE  task[k].status \in EndedStatuses
    <3>1. task'[k].status = task[k].status /\ task'[k].parent = p
      BY <1>3, <2>2
    <3> QED BY <2>2, <3>1 DEF Stranded, Present
  <2> QED BY <2>1, <2>2 DEF Stranded
<1> QED BY <1>1, <1>2, <1>3, <1>4, QueuePromises DEF Framed, Promised, Final

LEMMA ClaimPromises ==
  ASSUME BoardInv, NEW w \in Workers, NEW r \in RunIds, NEW c \in Claims, ClaimNext(w, r, c)
  PROVE  TableInv' /\ QueueInv' /\ ClaimedRunIsCurrent' /\ Promised
<1>1. /\ ActiveRun(r) /\ ~SameRun(r) /\ SameJob(r) /\ run[r].worker = w
      /\ run'[r].status = "claimed" /\ run'[r].claim = c
      /\ attempt[c].status = "absent"
      /\ \A q \in Outdated(w) : q # r
      /\ \A q \in RunIds : q \in Outdated(w) => Dropped(q) /\ ~SameRun(q)
      /\ \A q \in RunIds \ {r} : q \notin Outdated(w) => run'[q] = run[q] /\ SameRun(q)
      /\ \A q \in RunIds : ~Started(q) /\ ~GivenBack(q)
  BY ClaimRows
<1>2. TableInv' /\ QueueInv' /\ ClaimedRunIsCurrent' /\ Freezes /\ NoneOrphaned
  BY ClaimHolds
<1>3. TypeOK /\ TableInv /\ QueueInv /\ TaskStep(task')
  BY ClaimTasks DEF BoardInv
<1>4. ASSUME NEW q \in RunIds, run[q].status = "claimed", run[q].claim = run'[q].claim
      PROVE  SameRun(q)
  <2>1. run[q].claim \in Claims /\ attempt[run[q].claim].status = "claimed"
    BY <1>3, <1>4, LeaseParts DEF QueueInv
  <2>2. q # r
    BY <1>1, <1>4, <2>1
  <2>3. ~Dropped(q)
    BY <1>4, <2>1, NullsAssumption DEF Dropped, Cancelled
  <2> QED BY <1>1, <2>2, <2>3
<1>5. ASSUME NEW q \in RunIds, run[q].status \in {"completed", "cancelled", "gone"}
      PROVE  run'[q].status \in {run[q].status, "gone"}
  <2>1. q # r
    BY <1>1, <1>5 DEF ActiveRun, ActiveRunStatuses
  <2> QED BY <1>1, <1>5, <2>1 DEF Dropped, Cancelled, ActiveRun, ActiveRunStatuses
<1>6. ASSUME NEW b \in Claims, attempt[b].status \notin {"absent", "claimed"}
      PROVE  attempt'[b].status \in {attempt[b].status, "gone"}
  <2>1. b # c
    BY <1>1, <1>6
  <2>2. ~(run[r].status = "claimed" /\ b = run[r].claim)
    BY <1>3, <1>6, LeaseParts DEF QueueInv
  <2>3. attempt'[b] = attempt[b]
    BY <1>6, <2>1, <2>2 DEF ClaimNext, CancelledAttempts
  <2> QED BY <2>3
<1>7. /\ \A t \in TaskIds : task[t].status \in EndedStatuses \cup {"gone"} =>
           task'[t].status \in {task[t].status, "gone"}
      /\ Reached
  BY <1>3, TaskPromises
<1> QED BY <1>2, <1>4, <1>5, <1>6, <1>7 DEF Promised, LeaseLasts, Final

LEMMA NextTyped ==
  ASSUME TypeOK, Next
  PROVE  Typed /\ TypeOK'
<1>1. CASE AssignSome \/ SplitSome
  BY <1>1, AssignType, SplitType DEF Typed, TypeOK
<1>2. CASE \E t \in TaskIds : EditTask(t) \/ ReviewTask(t) \/ WithdrawTask(t)
  BY <1>2, EditType, ReviewType, WithdrawType DEF Typed, TypeOK
<1>3. CASE \E w \in Workers : ManageWorker(w)
  BY <1>3, ManageType DEF Typed, TypeOK
<1>4. CASE \E r \in RunIds : ExecuteRun(r)
  BY <1>4, ExecuteType DEF Typed, TypeOK
<1> QED BY <1>1, <1>2, <1>3, <1>4 DEF Next

LEMMA BoardKept ==
  ASSUME BoardInv, Next
  PROVE  BoardInv' /\ Promised
<1>1. Typed /\ TypeOK' /\ ClaimsUsed'
  BY NextTyped, BoardStep DEF BoardInv
<1>2. \/ Framed /\ Promised
      \/ \E r \in RunIds, w \in Workers, c \in Claims : ClaimNext(w, r, c)
  <2>1. CASE AssignSome \/ SplitSome
    BY <2>1, AssignFrames, SplitFrames, KeptPromises
  <2>2. CASE \E t \in TaskIds : EditTask(t) \/ ReviewTask(t)
    BY <2>2, EditFrames, ReviewFrames, KeptPromises
  <2>3. CASE \E t \in TaskIds : WithdrawTask(t)
    BY <2>3, CancelFrames, KeptPromises, DeletePromises DEF WithdrawTask
  <2>4. CASE \E w \in Workers : ManageWorker(w)
    BY <2>4, ManageFrames, KeptPromises
  <2>5. CASE \E r \in RunIds : ExecuteRun(r)
    BY <2>5, ExecuteFrames, KeptPromises
  <2> QED BY <2>1, <2>2, <2>3, <2>4, <2>5 DEF Next
<1>3. CASE Framed /\ Promised
  <2>1. QueueInv'
    BY <1>1, <1>3, QueueInvariants DEF BoardInv, Framed
  <2>2. ClaimedRunIsCurrent'
    BY <1>3, CurrentHolds DEF BoardInv, Framed
  <2> QED BY <1>1, <1>3, <2>1, <2>2 DEF BoardInv, Framed
<1>4. CASE \E r \in RunIds, w \in Workers, c \in Claims : ClaimNext(w, r, c)
  BY <1>1, <1>4, ClaimPromises DEF BoardInv
<1> QED BY <1>2, <1>3, <1>4

--------------------------------------------------------------------------------
(* The theorems *)

LEMMA BoardInvHolds == Spec => []BoardInv
<1>1. Init => BoardInv
  <2> SUFFICES ASSUME Init PROVE BoardInv
    OBVIOUS
  <2>1. TypeOK
    BY BlankRows DEF Init, TypeOK
  <2>2. /\ \A t \in TaskIds : /\ ~Present(t) /\ task[t].parent = 0 /\ task[t].deps = {}
                              /\ task[t].role = NoRoles
        /\ \A r \in RunIds : run[r] = BlankRun
        /\ \A c \in Claims : attempt[c] = BlankAttempt
    BY DEF Init, BlankTask, Present, TaskStatuses, OpenStatuses, ClosedStatuses
  <2>3. TableInv
    BY <2>2 DEF TableInv, NoRowNoLinks, DepsPointBack, UnfinishedBelowSplit,
                OwnersNeverParticipate, NoRoles, Named
  <2>4. \A r \in RunIds : run[r].status = "absent" /\ run[r].task = 0 /\ ~ActiveRun(r)
                          /\ run[r].claim = NoClaim
    BY <2>2 DEF BlankRun, ActiveRun, ActiveRunStatuses
  <2>5. \A c \in Claims : attempt[c].status = "absent"
    BY <2>2 DEF BlankAttempt
  <2>6. QueueInv /\ ClaimedRunIsCurrent
    BY <2>4, <2>5 DEF QueueInv, RunsHaveTasks, RunsHaveWorkers, ResultsAreOld, OneActiveRunPerTask,
                      OneResultPerRevision, LeaseMatchesAttempt, OneClaimPerWorker,
                      ClaimedRunIsCurrent
  <2>7. ClaimsUsed
    BY <2>2, <2>4, <2>5 DEF ClaimsUsed
  <2> QED BY <2>1, <2>3, <2>6, <2>7 DEF BoardInv
<1>2. BoardInv /\ [Next]_vars => BoardInv'
  <2> SUFFICES ASSUME BoardInv, UNCHANGED vars PROVE BoardInv'
    BY BoardKept
  <2>1. task' = task /\ run' = run /\ attempt' = attempt /\ active' = active
    BY DEF vars
  <2>2. TypeOK' /\ ClaimsUsed' /\ ClaimedRunIsCurrent'
    BY <2>1 DEF BoardInv, TypeOK, ClaimsUsed, ClaimedRunIsCurrent, TaskInHand
  <2>3. TableInv'
    BY <2>1 DEF BoardInv, TableInv, NoRowNoLinks, DepsPointBack, UnfinishedBelowSplit,
                OwnersNeverParticipate, Present
  <2>4. QueueInv'
    BY <2>1 DEF BoardInv, QueueInv, RunsHaveTasks, RunsHaveWorkers, ResultsAreOld,
                OneActiveRunPerTask, OneResultPerRevision, LeaseMatchesAttempt, OneClaimPerWorker,
                Present, ActiveRun, Leased
  <2> QED BY <2>2, <2>3, <2>4 DEF BoardInv
<1> QED BY <1>1, <1>2, PTL DEF Spec

\* Every prerequisite is an older task that exists: however tasks are created,
\* merged, rewired by a cancellation or deleted, they never wait in a circle.
THEOREM PrerequisitesPointBack == Spec => []DepsPointBack
<1>1. BoardInv => DepsPointBack
  BY DEF BoardInv, TableInv
<1> QED BY <1>1, BoardInvHolds, PTL

\* While a subtask is unfinished its parent is split, through every cascade,
\* reopening and deletion.
THEOREM SubtasksBelowSplit == Spec => []UnfinishedBelowSplit
<1>1. BoardInv => UnfinishedBelowSplit
  BY DEF BoardInv, TableInv
<1> QED BY <1>1, BoardInvHolds, PTL

\* Neither the assigner nor the assignee of a task ever gets another role in it,
\* by sharing, merging, reassigning or taking over the people of a cancelled task.
THEOREM RolesStayApart == Spec => []OwnersNeverParticipate
<1>1. BoardInv => OwnersNeverParticipate
  BY DEF BoardInv, TableInv
<1> QED BY <1>1, BoardInvHolds, PTL

\* A task never has two runs under way, whichever transactions queue, cancel,
\* fail, block and retry them.
THEOREM OneRunPerTask == Spec => []OneActiveRunPerTask
<1>1. BoardInv => OneActiveRunPerTask
  BY DEF BoardInv, QueueInv
<1> QED BY <1>1, BoardInvHolds, PTL

\* At most one result is recorded for a revision of a task: recording it raises
\* the revision, and no later run is bound to the old one.
THEOREM OneResult == Spec => []OneResultPerRevision
<1>1. BoardInv => OneResultPerRevision
  BY DEF BoardInv, QueueInv
<1> QED BY <1>1, BoardInvHolds, PTL

\* The run that is claimed and the attempt that is live name each other.
THEOREM LeaseRecordsAgree == Spec => []LeaseMatchesAttempt
<1>1. BoardInv => LeaseMatchesAttempt
  BY DEF BoardInv, QueueInv
<1> QED BY <1>1, BoardInvHolds, PTL

\* A worker holds one lease at most, stale ones counted: an expired lease on
\* current work is always offered first, and on outdated work cancelled first.
THEOREM OneClaim == Spec => []OneClaimPerWorker
<1>1. BoardInv => OneClaimPerWorker
  BY DEF BoardInv, QueueInv
<1> QED BY <1>1, BoardInvHolds, PTL

\* Whoever holds a lease works on the task as it is now, ready and unrevised.
THEOREM ClaimsAreCurrent == Spec => []ClaimedRunIsCurrent
<1>1. BoardInv => ClaimedRunIsCurrent
  BY DEF BoardInv
<1> QED BY <1>1, BoardInvHolds, PTL

\* No transaction changes a task under a lease that it leaves in force.
THEOREM LeasedTasksStand == Spec => LeaseFreezesTask
<1> DEFINE Stands ==
      \A r \in RunIds :
        run[r].status = "claimed" /\ run[r].claim = run'[r].claim /\ run[r].task # 0 =>
          LET t == run[r].task
          IN /\ task'[t].status = "in_progress"
             /\ task'[t].revision = task[t].revision
             /\ task'[t].assignee = task[t].assignee
             /\ task'[t].deps \subseteq task[t].deps
<1>1. BoardInv /\ [Next]_vars => [Stands]_vars
  <2> SUFFICES ASSUME BoardInv, Next, NEW r \in RunIds, run[r].status = "claimed",
                      run[r].claim = run'[r].claim, run[r].task # 0
               PROVE  /\ task'[run[r].task].status = "in_progress"
                      /\ task'[run[r].task].revision = task[run[r].task].revision
                      /\ task'[run[r].task].assignee = task[run[r].task].assignee
                      /\ task'[run[r].task].deps \subseteq task[run[r].task].deps
    OBVIOUS
  <2>1. Frozen(run[r].task)
    BY BoardKept DEF Promised, LeaseLasts, Freezes
  <2>2. TaskInHand(r)
    BY DEF BoardInv, ClaimedRunIsCurrent
  <2> QED BY <2>1, <2>2 DEF Frozen, TaskInHand
<1> HIDE DEF Stands
<1>2. Spec => [][Stands]_vars
  BY <1>1, BoardInvHolds, PTL DEF Spec
<1> QED BY <1>2 DEF Stands, LeaseFreezesTask

\* No transaction takes the execution of an active worker's task away without
\* queueing another or closing the task; only enabling a worker shows orphans.
THEOREM OrphansComeFromEnabling == Spec => OrphanedOnlyByEnabling
<1>1. BoardInv /\ [Next]_vars => [NoneOrphaned]_vars
  BY BoardKept DEF Promised
<1>2. Spec => [][NoneOrphaned]_vars
  BY <1>1, BoardInvHolds, PTL DEF Spec
<1> QED BY <1>2 DEF NoneOrphaned, OrphanedOnlyByEnabling

\* An accepted or cancelled task, a completed or cancelled run and an attempt
\* that ended stay what they are until they are deleted.
THEOREM EndsAreFinal == Spec => FinishedStaysFinished
<1>1. BoardInv /\ [Next]_vars => [Final]_vars
  BY BoardKept DEF Promised
<1>2. Spec => [][Final]_vars
  BY <1>1, BoardInvHolds, PTL DEF Spec
<1> QED BY <1>2 DEF Final, FinishedStaysFinished

\* The transaction that ends the last open child of a split task completes the
\* task as well, up through every ancestor; only a deletion can leave it split.
THEOREM CascadesReachTheTop == Spec => LastChildCompletesParent
<1>1. BoardInv /\ [Next]_vars => [Reached]_vars
  BY BoardKept DEF Promised
<1>2. Spec => [][Reached]_vars
  BY <1>1, BoardInvHolds, PTL DEF Spec
<1> QED BY <1>2 DEF Reached, LastChildCompletesParent
================================================================================
