------------------------------ MODULE LeasedWork ------------------------------
(***************************************************************************)
(* What the execution queue of nbco promises, whatever tasks, revisions,   *)
(* time-outs and requests there are: a job is handed out under a lease     *)
(* nobody held before; only the holder of the newest lease settles it; a   *)
(* settled or withdrawn job is never handed out again.                     *)
(*                                                                         *)
(* One transaction of the code may touch several jobs, so a step lets      *)
(* every job move at once.                                                 *)
(***************************************************************************)
EXTENDS Naturals

CONSTANTS
  Jobs,     \* executions: rows of worker_runs
  Leases,   \* claim ids
  NoLease

VARIABLES
  job,      \* the state of each job
  holder,   \* the lease a job is handed out under
  used      \* the leases handed out so far

vars == <<job, holder, used>>

States == {"unused", "waiting", "leased", "paused", "done", "dropped", "gone"}

Init ==
  /\ job = [j \in Jobs |-> "unused"]
  /\ holder = [j \in Jobs |-> NoLease]
  /\ used = {}

\* The job is neither touched nor handed to somebody else.
Stays(j) == job'[j] = job[j] /\ holder'[j] = holder[j]

\* The job joins the queue.
Enqueued(j) ==
  job[j] = "unused" /\ job'[j] = "waiting" /\ holder'[j] = NoLease

\* The job is handed out; an expired lease is overtaken by the new one.
Granted(j) ==
  /\ job[j] \in {"waiting", "leased"}
  /\ job'[j] = "leased"
  /\ holder'[j] \in Leases \ used

\* The holder returns the job, waits for an answer, or finishes.
Settled(j) ==
  /\ job[j] = "leased"
  /\ job'[j] \in {"waiting", "paused", "done"}
  /\ holder'[j] = NoLease

\* The job is withdrawn, whoever holds it.
Withdrawn(j) ==
  /\ job[j] \in {"waiting", "leased", "paused"}
  /\ job'[j] = "dropped"
  /\ holder'[j] = NoLease

\* The record of the job is deleted.
Deleted(j) ==
  job[j] # "unused" /\ job'[j] = "gone" /\ holder'[j] = NoLease

Next ==
  /\ job' \in [Jobs -> States]
  /\ holder' \in [Jobs -> Leases \cup {NoLease}]
  /\ \A j \in Jobs : \/ Stays(j) \/ Enqueued(j) \/ Granted(j)
                     \/ Settled(j) \/ Withdrawn(j) \/ Deleted(j)
  /\ \A i, j \in Jobs : Granted(i) /\ Granted(j) /\ i # j => holder'[i] # holder'[j]
  /\ used' = used \cup {holder'[j] : j \in {k \in Jobs : Granted(k)}}

Spec == Init /\ [][Next]_vars

--------------------------------------------------------------------------------
\* The variables keep to their values, and a holder's lease was handed out.
TypeOK ==
  /\ job \in [Jobs -> States]
  /\ holder \in [Jobs -> used \cup {NoLease}]
  /\ used \subseteq Leases

\* A job has a holder exactly while it is leased, and no lease is held twice.
Exclusive ==
  /\ \A j \in Jobs : job[j] = "leased" <=> holder[j] \in used
  /\ \A i, j \in Jobs : holder[i] = holder[j] /\ i # j => holder[i] = NoLease

\* A lease that ended is never held again, and nothing is done but by a holder.
LeasesEnd ==
  [][/\ \A j \in Jobs : holder'[j] # holder[j] => holder'[j] \notin used
     /\ \A j \in Jobs : job'[j] = "done" => job[j] \in {"leased", "done"}]_vars
==============================================================================
