--------------------------- MODULE LeasedWorkProofs ---------------------------
(* LeasedWork keeps its promise for any number of jobs and leases. *)
EXTENDS LeasedWork, TLAPS

\* A job that stays as it is was not granted, so its holder is an old one.
LEMMA HolderCases ==
  ASSUME TypeOK, Next, NEW j \in Jobs
  PROVE  \/ holder'[j] = holder[j] /\ job'[j] = job[j] /\ ~Granted(j)
         \/ holder'[j] \in Leases \ used /\ job'[j] = "leased" /\ Granted(j)
         \/ holder'[j] = NoLease /\ job'[j] # "leased" /\ ~Granted(j)
<1>1. \/ Stays(j) \/ Enqueued(j) \/ Granted(j)
      \/ Settled(j) \/ Withdrawn(j) \/ Deleted(j)
  BY DEF Next
<1>2. CASE Granted(j)
  BY <1>2 DEF Granted
<1>3. CASE ~Granted(j)
  BY <1>1, <1>3 DEF Stays, Enqueued, Settled, Withdrawn, Deleted
<1> QED BY <1>2, <1>3

LEMMA UsedGrows ==
  ASSUME Next
  PROVE  used' = used \cup {holder'[j] : j \in {k \in Jobs : Granted(k)}}
BY DEF Next

LEMMA TypeStep ==
  ASSUME NoLease \notin Leases, TypeOK, Next
  PROVE  TypeOK'
<1>1. ASSUME NEW j \in Jobs PROVE holder'[j] \in used' \cup {NoLease}
  BY HolderCases, UsedGrows DEF TypeOK
<1>2. used' \subseteq Leases
  BY UsedGrows DEF TypeOK, Granted
<1> QED BY <1>1, <1>2 DEF TypeOK, Next

\* One step keeps the leases exclusive.
LEMMA ExclusiveStep ==
  ASSUME NoLease \notin Leases, TypeOK, Exclusive, Next
  PROVE  Exclusive'
<1>1. NoLease \notin used'
  BY TypeStep DEF TypeOK
<1>2. ASSUME NEW j \in Jobs PROVE job'[j] = "leased" <=> holder'[j] \in used'
  <2>1. CASE holder'[j] = holder[j] /\ job'[j] = job[j]
    <3>1. holder[j] \in used <=> holder[j] \in used'
      BY <1>1, UsedGrows DEF TypeOK
    <3> QED BY <2>1, <3>1 DEF Exclusive
  <2>2. CASE Granted(j)
    BY <2>2, UsedGrows DEF Granted
  <2>3. CASE holder'[j] = NoLease /\ job'[j] # "leased"
    BY <2>3, <1>1
  <2> QED BY <2>1, <2>2, <2>3, HolderCases
<1>3. ASSUME NEW i \in Jobs, NEW j \in Jobs, holder'[i] = holder'[j], i # j
      PROVE  holder'[i] = NoLease
  <2>1. CASE holder'[i] = holder[i] /\ holder'[j] = holder[j]
    BY <1>3, <2>1 DEF Exclusive
  <2>2. CASE Granted(i) /\ Granted(j)
    BY <1>3, <2>2 DEF Next
  <2>3. \A k \in Jobs : holder[k] \notin Leases \ used
    BY DEF TypeOK
  <2> QED BY <1>3, <2>1, <2>2, <2>3, HolderCases
<1> QED BY <1>2, <1>3 DEF Exclusive

\* A job has a holder exactly while it is leased, and no lease has two jobs.
THEOREM LeasesExclusive ==
  ASSUME NoLease \notin Leases
  PROVE  Spec => [](TypeOK /\ Exclusive)
<1>1. Init => TypeOK /\ Exclusive
  BY DEF Init, TypeOK, Exclusive, States
<1>2. TypeOK /\ Exclusive /\ [Next]_vars => (TypeOK /\ Exclusive)'
  <2>1. ASSUME TypeOK, Exclusive, Next PROVE (TypeOK /\ Exclusive)'
    BY <2>1, TypeStep, ExclusiveStep
  <2>2. ASSUME TypeOK, Exclusive, UNCHANGED vars PROVE (TypeOK /\ Exclusive)'
    BY <2>2 DEF vars, TypeOK, Exclusive
  <2> QED BY <2>1, <2>2
<1> QED BY <1>1, <1>2, PTL DEF Spec

\* A lease that ended is never held again, and nothing is done but by a holder.
THEOREM LeasesNeverReturn ==
  ASSUME NoLease \notin Leases
  PROVE  Spec => LeasesEnd
<1>1. ASSUME TypeOK, [Next]_vars
      PROVE  [/\ \A j \in Jobs : holder'[j] # holder[j] => holder'[j] \notin used
              /\ \A j \in Jobs : job'[j] = "done" => job[j] \in {"leased", "done"}]_vars
  <2>1. CASE Next
    <3>1. ASSUME NEW j \in Jobs, holder'[j] # holder[j] PROVE holder'[j] \notin used
      BY <2>1, <1>1, <3>1, HolderCases DEF TypeOK
    <3>2. ASSUME NEW j \in Jobs, job'[j] = "done" PROVE job[j] \in {"leased", "done"}
      BY <2>1, <3>2 DEF Next, Stays, Enqueued, Granted, Settled, Withdrawn, Deleted
    <3> QED BY <3>1, <3>2
  <2> QED BY <1>1, <2>1
<1>2. Spec => []TypeOK
  BY LeasesExclusive, PTL
<1> QED BY <1>1, <1>2, PTL DEF Spec, LeasesEnd
==============================================================================
