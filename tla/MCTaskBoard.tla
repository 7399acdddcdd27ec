----------------------------- MODULE MCTaskBoard -----------------------------
(* Small instances of TaskBoard for TLC. *)
EXTENDS TaskBoard, TLC, Folds

CONSTANTS
  MaxEdits,    \* bound: revisions of all tasks together
  MaxDirect,   \* bound: direct runs
  h1, h2, w1, w2, i1, r1, r2, r3, c1, c2, c3

NoParticipants == [u \in Users |-> "none"]

\* Participant lists: none at all, or one person in one role.
NoRosters == {NoParticipants}
ReviewerRosters == {NoParticipants} \cup
  {[NoParticipants EXCEPT ![h] = "reviewer"] : h \in Humans}
SomeRosters == {NoParticipants} \cup
  {[NoParticipants EXCEPT ![h] = role] : h \in Humans, role \in Roles \ {"none"}}

\* Run ids and claims have no order and no meaning of their own.
RunSymmetry == Permutations(RunIds) \cup Permutations(Claims)

TotalRevisions == MapThenFoldSet(+, 0, LAMBDA t : task[t].revision,
                                 LAMBDA T : CHOOSE t \in T : TRUE, TaskIds)

\* The states TLC explores further.
WithinBounds ==
  /\ TotalRevisions <= MaxEdits
  /\ Cardinality({r \in RunIds : run[r].status \notin {"absent", "gone"} /\ run[r].task = 0})
       <= MaxDirect
==============================================================================
