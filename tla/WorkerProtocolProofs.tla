------------------------- MODULE WorkerProtocolProofs -------------------------
(***************************************************************************)
(* WorkerProtocol for every number of runs, claims, tries, failures and    *)
(* mishaps: a finalization is answered only when everything after it was   *)
(* done, finalized attempts stand, failures are counted once, the session  *)
(* of a run never goes back to an earlier attempt, and the protocol        *)
(* implements the queue of LeasedWork.                                     *)
(*                                                                         *)
(* The invariant IInv says what the rows (RowInv), the handlers            *)
(* (StagesDone), the session (SessionWritten) and the claims the client    *)
(* has not reported on (ClaimsFresh) have to do with each other.  RowsStep *)
(* is what every step does to the rows; the other parts are preserved by   *)
(* any step that satisfies it.                                             *)
(***************************************************************************)
EXTENDS WorkerProtocol, FiniteSetTheorems, TLAPS

\* A claimed run and its newest attempt name each other; all other runs are free.
LeasesPaired ==
  \A r \in Runs :
    IF run[r].status = "claimed"
    THEN /\ run[r].claim \in Claims
         /\ attempt[run[r].claim].status = "claimed"
         /\ attempt[run[r].claim].run = r
         /\ attempt[run[r].claim].no = run[r].attempts
    ELSE run[r].claim = NoClaim

\* A run has failures left until it pauses.
FailuresLeft ==
  \A r \in Runs : run[r].status \notin {"awaiting_input", "cancelled"}
                    => run[r].failures < MaxFailures

\* Attempts belong to runs, and the attempts of a run are numbered apart.
AttemptsNumbered ==
  /\ \A c \in Claims : attempt[c].status # "absent" =>
       attempt[c].run \in Runs /\ attempt[c].no <= run[attempt[c].run].attempts
  /\ \A c, d \in Claims :
       /\ attempt[c].status # "absent" /\ attempt[d].status # "absent"
       /\ attempt[c].run = attempt[d].run /\ attempt[c].no = attempt[d].no
       => c = d

\* A finalized attempt is over, and its run went where the finalization put it.
Finalized ==
  \A c \in Claims :
    /\ attempt[c].fin # 0 => attempt[c].status \notin {"absent", "claimed"}
    /\ attempt[c].status = "completed" => run[attempt[c].run].status = "completed"
    /\ attempt[c].status = "awaiting_input" =>
         run[attempt[c].run].status \in {"awaiting_input", "cancelled"}

\* The session was written by an attempt.
SessionWritten == session.by # NoClaim => attempt[session.by].status # "absent"

\* Nothing was asked or sent for a claim before its client reports.
NotYetReported(c) ==
  /\ asked[c] = "none"
  /\ \A fin \in {1, 2}, try \in Tries : call[<<c, fin, try>>] = "unsent"

ClaimsFresh ==
  /\ \A c \in Claims : attempt[c].status = "absent" => NotYetReported(c)
  /\ client.claim # NoClaim => attempt[client.claim].status # "absent"
  /\ client.phase \in {"polling", "acking", "working"} /\ client.claim # NoClaim =>
       NotYetReported(client.claim)
  /\ client.phase \in {"acking", "working", "ending"} => client.claim # NoClaim
  /\ client.phase = "ending" =>
       client.fin \in {1, 2} /\ client.try \in Tries /\ asked[client.claim] # "none"

\* The pause of a run was withdrawn before it could be announced.
PauseOver(c) ==
  attempt[c].status = "awaiting_input" => run[attempt[c].run].status # "awaiting_input"

\* What a handler has done when it reaches a stage.
StageDone(c, fin, stage) ==
  /\ stage # "unsent" => asked[c] # "none"
  /\ stage \in {"save", "saveQuiet", "wake", "tell", "ok"} => attempt[c].fin = fin
  /\ stage = "saveQuiet" => KindOf(c, fin) = "fail" /\ PauseOver(c)
  /\ stage = "wake" => "saved" \in effects[c] /\ KindOf(c, fin) = "complete"
  /\ stage = "tell" => /\ "saved" \in effects[c]
                       /\ KindOf(c, fin) = "complete" => "woken" \in effects[c]
  /\ stage = "ok" => /\ "saved" \in effects[c]
                     /\ KindOf(c, fin) = "complete" => {"woken", "told"} \subseteq effects[c]
                     /\ KindOf(c, fin) = "input" => "told" \in effects[c]
                     /\ PauseOver(c) \/ "told" \in effects[c]

StagesDone ==
  \A c \in Claims, fin \in {1, 2}, try \in Tries : StageDone(c, fin, call[<<c, fin, try>>])

RowTypes == run \in [Runs -> RunRow] /\ attempt \in [Claims -> AttemptRow]

RowInv == RowTypes /\ LeasesPaired /\ FailuresLeft /\ AttemptsNumbered /\ Finalized

IInv == TypeOK /\ RowInv /\ SessionWritten /\ ClaimsFresh /\ StagesDone

--------------------------------------------------------------------------------
(* What a step does to the rows *)

\* An attempt that is over stays as it is, a completed run stays completed, and
\* a run pauses only from under a lease.
RowsStep ==
  /\ \A c \in Claims :
       /\ attempt[c].status \notin {"absent", "claimed"} => attempt'[c] = attempt[c]
       /\ attempt[c].status # "absent" => attempt'[c].status # "absent"
  /\ \A r \in Runs :
       /\ run[r].status = "completed" => run'[r].status = "completed"
       /\ run'[r].status = "awaiting_input" => run[r].status \in {"claimed", "awaiting_input"}

LEMMA RowsKept ==
  ASSUME RowInv, UNCHANGED <<run, attempt>>
  PROVE  RowInv' /\ RowsStep
<1>1. RowTypes' /\ LeasesPaired' /\ FailuresLeft'
  BY DEF RowInv, RowTypes, LeasesPaired, FailuresLeft
<1>2. AttemptsNumbered' /\ Finalized'
  BY DEF RowInv, AttemptsNumbered, Finalized
<1>3. RowsStep
  BY DEF RowsStep
<1> QED BY <1>1, <1>2, <1>3 DEF RowInv

\* The row of run r changes, but not its state; attempts may be acknowledged.
Touched(r) ==
  /\ RowTypes'
  /\ \A q \in Runs :
       /\ run'[q].status = run[q].status /\ run'[q].claim = run[q].claim
       /\ run'[q].failures = run[q].failures /\ run'[q].attempts = run[q].attempts
  /\ \A c \in Claims :
       /\ attempt'[c].status = attempt[c].status /\ attempt'[c].run = attempt[c].run
       /\ attempt'[c].no = attempt[c].no /\ attempt'[c].fin = attempt[c].fin
       /\ attempt[c].status # "claimed" => attempt'[c] = attempt[c]

LEMMA RowsTouched ==
  ASSUME RowInv, NEW r \in Runs, Touched(r)
  PROVE  RowInv' /\ RowsStep
<1>1. RowTypes'
  BY DEF Touched
<1>2. LeasesPaired' /\ FailuresLeft'
  BY DEF RowInv, Touched, LeasesPaired, FailuresLeft
<1>3. AttemptsNumbered'
  BY DEF RowInv, Touched, AttemptsNumbered
<1>4. Finalized'
  <2>1. ASSUME NEW c \in Claims, attempt[c].status \in {"completed", "awaiting_input"}
        PROVE  attempt[c].run \in Runs
    BY <2>1 DEF RowInv, AttemptsNumbered
  <2> QED BY <2>1 DEF RowInv, Touched, Finalized
<1>5. RowsStep
  BY DEF RowInv, Touched, RowsStep
<1> QED BY <1>1, <1>2, <1>3, <1>4, <1>5 DEF RowInv

LEMMA AgeSteps ==
  ASSUME RowInv, NEW r \in Runs, LeaseAges(r) \/ BackoffElapses(r)
  PROVE  RowInv' /\ RowsStep
<1>1. attempt' = attempt /\ run \in [Runs -> RunRow] /\ attempt \in [Claims -> AttemptRow]
  BY DEF LeaseAges, BackoffElapses, RowInv, RowTypes
<1>2. CASE LeaseAges(r)
  <2>1. run' = [run EXCEPT ![r] = [run[r] EXCEPT !.age =
                              IF run[r].age = "fresh" THEN "overdue" ELSE "stale"]]
    BY <1>2 DEF LeaseAges
  <2>2. Touched(r)
    BY <1>1, <2>1 DEF Touched, RowTypes, RunRow
  <2> QED BY <2>2, RowsTouched
<1>3. CASE BackoffElapses(r)
  <2>1. run' = [run EXCEPT ![r] = [run[r] EXCEPT !.ready = TRUE]]
    BY <1>3 DEF BackoffElapses
  <2>2. Touched(r)
    BY <1>1, <2>1 DEF Touched, RowTypes, RunRow
  <2> QED BY <2>2, RowsTouched
<1> QED BY <1>2, <1>3

LEMMA RenewSteps ==
  ASSUME RowInv, NEW c \in Claims, Leased(c), Renewed(c)
  PROVE  RowInv' /\ RowsStep
<1> DEFINE r == attempt[c].run
<1>1. r \in Runs /\ attempt[c].status = "claimed"
  BY DEF Leased
<1>2. run \in [Runs -> RunRow] /\ attempt \in [Claims -> AttemptRow]
  BY DEF RowInv, RowTypes
<1>3. run' = [run EXCEPT ![r] = [run[r] EXCEPT !.age = "fresh"]]
  BY DEF Renewed
<1>4. attempt' = [attempt EXCEPT ![c] = [attempt[c] EXCEPT !.acked = TRUE]]
  BY DEF Renewed
<1>5. Touched(r)
  <2> HIDE DEF r
  <2>1. run' \in [Runs -> RunRow]
    BY <1>1, <1>2, <1>3 DEF RunRow
  <2>2. attempt' \in [Claims -> AttemptRow]
    BY <1>2, <1>4 DEF AttemptRow
  <2> QED BY <1>1, <1>2, <1>3, <1>4, <2>1, <2>2 DEF Touched, RowTypes, RunRow, AttemptRow
<1> QED BY <1>1, <1>5, RowsTouched

LEMMA CreateSteps ==
  ASSUME RowInv, NEW r \in Runs, CreateRun(r)
  PROVE  RowInv' /\ RowsStep
<1>1. run \in [Runs -> RunRow] /\ attempt \in [Claims -> AttemptRow]
  BY DEF RowInv, RowTypes
<1>2. run[r].status = "absent" /\ attempt' = attempt
      /\ run' = [run EXCEPT ![r] = [run[r] EXCEPT !.status = "queued", !.ready = TRUE]]
  BY DEF CreateRun
<1>3. run' \in [Runs -> RunRow]
  BY <1>1, <1>2, ZenonT(60) DEF RunRow, RunStatuses
<1>4. \A q \in Runs : /\ run'[q].status = IF q = r THEN "queued" ELSE run[q].status
                      /\ run'[q].claim = run[q].claim /\ run'[q].failures = run[q].failures
                      /\ run'[q].attempts = run[q].attempts
  BY <1>1, <1>2 DEF RunRow
<1>5. RowTypes' /\ LeasesPaired' /\ FailuresLeft'
  BY <1>1, <1>2, <1>3, <1>4 DEF RowInv, RowTypes, LeasesPaired, FailuresLeft
<1>6. AttemptsNumbered'
  BY <1>2, <1>4 DEF RowInv, AttemptsNumbered
<1>7. Finalized'
  BY <1>2, <1>4 DEF RowInv, Finalized, AttemptsNumbered
<1>8. RowsStep
  BY <1>2, <1>4 DEF RowsStep
<1> QED BY <1>5, <1>6, <1>7, <1>8 DEF RowInv

LEMMA CancelSteps ==
  ASSUME RowInv, NEW r \in Runs, CancelRun(r)
  PROVE  RowInv' /\ RowsStep
<1>1. run \in [Runs -> RunRow] /\ attempt \in [Claims -> AttemptRow]
  BY DEF RowInv, RowTypes
<1>2. run[r].status \in Unfinished /\ run' = [run EXCEPT ![r] = Ended(r, "cancelled")]
  BY DEF CancelRun
<1>3. attempt' = [c \in Claims |->
                    IF attempt[c].run = r /\ attempt[c].status = "claimed"
                    THEN [attempt[c] EXCEPT !.status = "cancelled"] ELSE attempt[c]]
  BY DEF CancelRun
<1>4. \A q \in Runs :
        /\ q = r => run'[q].status = "cancelled" /\ run'[q].claim = NoClaim
        /\ q # r => run'[q] = run[q]
        /\ run'[q].attempts = run[q].attempts
  BY <1>1, <1>2 DEF Ended, RunRow
<1>5. \A c \in Claims :
        /\ attempt'[c].run = attempt[c].run /\ attempt'[c].no = attempt[c].no
        /\ attempt'[c].fin = attempt[c].fin
        /\ attempt[c].run = r /\ attempt[c].status = "claimed" => attempt'[c].status = "cancelled"
        /\ attempt[c].run # r \/ attempt[c].status # "claimed" => attempt'[c] = attempt[c]
  BY <1>1, <1>3 DEF AttemptRow
<1>6. RowTypes'
  <2>1. run' \in [Runs -> RunRow]
    BY <1>1, <1>2 DEF Ended, RunRow, RunStatuses
  <2>2. attempt' \in [Claims -> AttemptRow]
    BY <1>1, <1>3 DEF AttemptRow, AttemptStatuses
  <2> QED BY <2>1, <2>2 DEF RowTypes
<1>7. LeasesPaired' /\ FailuresLeft'
  BY <1>4, <1>5 DEF RowInv, LeasesPaired, FailuresLeft
<1>8. AttemptsNumbered'
  BY <1>4, <1>5 DEF RowInv, AttemptsNumbered
<1>9. Finalized'
  BY <1>2, <1>4, <1>5 DEF RowInv, Finalized, AttemptsNumbered, Unfinished
<1>10. RowsStep
  BY <1>2, <1>4, <1>5 DEF RowsStep, Unfinished
<1> QED BY <1>6, <1>7, <1>8, <1>9, <1>10 DEF RowInv

\* A lease is given back: its attempt is over and its run free.
LEMMA EndSteps ==
  ASSUME RowInv, NEW c \in Claims, Leased(c), NEW row \in RunRow, NEW over \in AttemptRow,
         run' = [run EXCEPT ![attempt[c].run] = row],
         attempt' = [attempt EXCEPT ![c] = over],
         row.status \in {"queued", "retry_wait", "awaiting_input", "completed"},
         row.status # "awaiting_input" => row.failures < MaxFailures,
         row.claim = NoClaim, row.attempts = run[attempt[c].run].attempts,
         over.run = attempt[c].run, over.no = attempt[c].no,
         over.status \in {"released", "retry_wait", "awaiting_input", "completed"},
         over.status \in {"completed", "awaiting_input"} => row.status = over.status
  PROVE  RowInv' /\ RowsStep
<1> DEFINE r == attempt[c].run
<1>1. run \in [Runs -> RunRow] /\ attempt \in [Claims -> AttemptRow]
  BY DEF RowInv, RowTypes
<1>2. /\ r \in Runs /\ run[r].status = "claimed" /\ run[r].claim = c
      /\ attempt[c].status = "claimed"
  BY DEF Leased
<1>3. run'[r] = row /\ \A q \in Runs : q # r => run'[q] = run[q]
  BY <1>1, <1>2
<1>4. attempt'[c] = over /\ \A d \in Claims : d # c => attempt'[d] = attempt[d]
  BY <1>1
<1>5. RowTypes'
  BY <1>1 DEF RowTypes
<1> HIDE DEF r
<1>6. LeasesPaired' /\ FailuresLeft'
  <2>1. \A q \in Runs : q # r /\ run[q].status = "claimed" => run[q].claim # c
    BY DEF RowInv, LeasesPaired, r
  <2>2. LeasesPaired'
    BY <1>2, <1>3, <1>4, <2>1 DEF RowInv, LeasesPaired
  <2>3. FailuresLeft'
    BY <1>2, <1>3 DEF RowInv, FailuresLeft
  <2> QED BY <2>2, <2>3
<1>7. AttemptsNumbered'
  <2>1. \A q \in Runs : run'[q].attempts = run[q].attempts
    BY <1>3 DEF r
  <2>2. \A d \in Claims : /\ attempt'[d].run = attempt[d].run /\ attempt'[d].no = attempt[d].no
                          /\ attempt'[d].status # "absent" <=> attempt[d].status # "absent"
    BY <1>2, <1>4 DEF r
  <2> QED BY <2>1, <2>2 DEF RowInv, AttemptsNumbered
<1>8. Finalized'
  BY <1>2, <1>3, <1>4 DEF RowInv, Finalized, r
<1>9. RowsStep
  BY <1>2, <1>3, <1>4 DEF RowsStep
<1> QED BY <1>5, <1>6, <1>7, <1>8, <1>9 DEF RowInv

LEMMA ClaimSteps ==
  ASSUME RowInv, NEW r \in Runs, NEW c \in Claims, ClaimNext(r, c)
  PROVE  RowInv' /\ RowsStep
<1> DEFINE old == run[r].claim
           no  == run[r].attempts + 1
<1>1. run \in [Runs -> RunRow] /\ attempt \in [Claims -> AttemptRow] /\ NoClaim \notin Claims
  BY ProtocolAssumption DEF RowInv, RowTypes
<1>2. attempt[c].status = "absent" /\ run[r].status \in {"queued", "retry_wait", "claimed"}
  BY DEF ClaimNext, Fresh, Offerable
<1>3. /\ run'[r] = [run[r] EXCEPT !.status = "claimed", !.claim = c, !.attempts = no,
                                 !.ready = FALSE, !.age = "fresh"]
      /\ \A q \in Runs : q # r => run'[q] = run[q]
      /\ run' \in [Runs -> RunRow]
  <2>1. run' = [run EXCEPT ![r] = [run[r] EXCEPT !.status = "claimed", !.claim = c,
                                     !.attempts = no, !.ready = FALSE, !.age = "fresh"]]
    BY DEF ClaimNext
  <2>2. run[r] \in RunRow /\ no \in Nat
    BY <1>1 DEF RunRow
  <2>3. [run[r] EXCEPT !.status = "claimed", !.claim = c, !.attempts = no,
                       !.ready = FALSE, !.age = "fresh"] \in RunRow
    BY <2>2 DEF RunRow, RunStatuses
  <2> QED BY <1>1, <2>1, <2>3
<1>4. /\ attempt'[c] = [status |-> "claimed", run |-> r, no |-> no, acked |-> FALSE, fin |-> 0]
      /\ old \in Claims /\ old # c => attempt'[old] = [attempt[old] EXCEPT !.status = "expired"]
      /\ \A b \in Claims : b # c /\ b # old => attempt'[b] = attempt[b]
      /\ attempt' \in [Claims -> AttemptRow]
  <2>1. attempt' = [b \in Claims |->
                      IF b = c THEN [status |-> "claimed", run |-> r, no |-> no, acked |-> FALSE, fin |-> 0]
                      ELSE IF b = old THEN [attempt[b] EXCEPT !.status = "expired"]
                      ELSE attempt[b]]
    BY DEF ClaimNext
  <2>2. no \in Nat
    BY <1>1 DEF RunRow
  <2>3. [status |-> "claimed", run |-> r, no |-> no, acked |-> FALSE, fin |-> 0] \in AttemptRow
    BY <2>2 DEF AttemptRow, AttemptStatuses
  <2>4. \A b \in Claims : [attempt[b] EXCEPT !.status = "expired"] \in AttemptRow
    BY <1>1 DEF AttemptRow, AttemptStatuses
  <2> DEFINE new == [status |-> "claimed", run |-> r, no |-> no, acked |-> FALSE, fin |-> 0]
             gone(b) == [attempt[b] EXCEPT !.status = "expired"]
  <2>5. attempt' = [b \in Claims |-> IF b = c THEN new ELSE IF b = old THEN gone(b) ELSE attempt[b]]
    BY <2>1
  <2>6. new \in AttemptRow /\ \A b \in Claims : gone(b) \in AttemptRow
    BY <2>3, <2>4
  <2>7. attempt' \in [Claims -> AttemptRow] /\ attempt'[c] = new
        /\ (old \in Claims /\ old # c => attempt'[old] = gone(old))
        /\ \A b \in Claims : b # c /\ b # old => attempt'[b] = attempt[b]
    <3> HIDE DEF new, gone, no, old
    <3> QED BY <1>1, <2>5, <2>6
  <2> QED BY <2>7
<1>5. /\ run'[r].status = "claimed" /\ run'[r].claim = c
      /\ run'[r].attempts = no /\ run'[r].failures = run[r].failures
  BY <1>1, <1>3 DEF RunRow
<1>6. /\ attempt'[c].status = "claimed" /\ attempt'[c].run = r
      /\ attempt'[c].no = no /\ attempt'[c].fin = 0
  BY <1>4
<1>7. /\ old = NoClaim \/ old \in Claims
      /\ old \in Claims => /\ attempt[old].status = "claimed" /\ attempt[old].run = r /\ old # c
                           /\ attempt[old].fin = 0
  BY <1>1, <1>2 DEF RowInv, LeasesPaired, Finalized
<1>8. old \in Claims => /\ attempt'[old].status = "expired" /\ attempt'[old].run = r
                        /\ attempt'[old].no = attempt[old].no /\ attempt'[old].fin = 0
  BY <1>1, <1>4, <1>7 DEF AttemptRow
<1>9. no \in Nat /\ run[r].attempts \in Nat /\ no = run[r].attempts + 1
  BY <1>1 DEF RunRow
<1>10. \A d \in Claims : attempt[d].no \in Nat
  BY <1>1 DEF AttemptRow
<1> HIDE DEF old, no
<1>11. RowTypes'
  BY <1>3, <1>4 DEF RowTypes
<1>12. LeasesPaired'
  <2>1. ASSUME NEW q \in Runs, q # r, run[q].status = "claimed"
        PROVE  run[q].claim \in Claims /\ run[q].claim # c /\ run[q].claim # old
    <3>1. run[q].claim \in Claims /\ attempt[run[q].claim].status = "claimed"
          /\ attempt[run[q].claim].run = q
      BY <2>1 DEF RowInv, LeasesPaired
    <3>2. run[q].claim # c
      BY <1>2, <3>1
    <3>3. run[q].claim # old
      BY <1>7, <2>1, <3>1
    <3> QED BY <3>1, <3>2, <3>3
  <2> SUFFICES ASSUME NEW q \in Runs, q # r
               PROVE  IF run'[q].status = "claimed"
                      THEN /\ run'[q].claim \in Claims
                           /\ attempt'[run'[q].claim].status = "claimed"
                           /\ attempt'[run'[q].claim].run = q
                           /\ attempt'[run'[q].claim].no = run'[q].attempts
                      ELSE run'[q].claim = NoClaim
    BY <1>5, <1>6 DEF LeasesPaired
  <2>2. run'[q] = run[q]
    BY <1>3
  <2>3. CASE run[q].status = "claimed"
    <3>1. attempt'[run[q].claim] = attempt[run[q].claim]
      BY <1>4, <2>1, <2>3
    <3> QED BY <2>1, <2>2, <2>3, <3>1 DEF RowInv, LeasesPaired
  <2>4. CASE run[q].status # "claimed"
    BY <2>2, <2>4 DEF RowInv, LeasesPaired
  <2> QED BY <2>3, <2>4
<1>13. FailuresLeft'
  BY <1>2, <1>3, <1>5 DEF RowInv, FailuresLeft
<1>14. AttemptsNumbered'
  <2>1. ASSUME NEW d \in Claims, d # c
        PROVE  /\ attempt'[d].run = attempt[d].run /\ attempt'[d].no = attempt[d].no
               /\ attempt'[d].status # "absent" <=> attempt[d].status # "absent"
    <3>1. CASE d = old
      BY <1>7, <1>8, <3>1
    <3>2. CASE d # old
      BY <1>4, <2>1, <3>2
    <3> QED BY <3>1, <3>2
  <2>2. ASSUME NEW d \in Claims, d # c, attempt[d].status # "absent"
        PROVE  /\ attempt[d].run \in Runs
               /\ attempt[d].no <= run[attempt[d].run].attempts
               /\ attempt[d].run = r => attempt[d].no < no
    BY <1>9, <1>10, <2>2 DEF RowInv, AttemptsNumbered
  <2>3. \A d \in Claims : attempt'[d].status # "absent" =>
          attempt'[d].run \in Runs /\ attempt'[d].no <= run'[attempt'[d].run].attempts
    <3> SUFFICES ASSUME NEW d \in Claims, attempt'[d].status # "absent"
                 PROVE  attempt'[d].run \in Runs /\ attempt'[d].no <= run'[attempt'[d].run].attempts
      OBVIOUS
    <3>1. CASE d = c
      BY <1>5, <1>6, <1>9, <3>1
    <3>2. CASE d # c
      <4>1. /\ attempt'[d].run = attempt[d].run /\ attempt'[d].no = attempt[d].no
            /\ attempt[d].run \in Runs /\ attempt[d].no <= run[attempt[d].run].attempts
            /\ attempt[d].run = r => attempt[d].no < no
        BY <2>1, <2>2, <3>2
      <4>2. CASE attempt[d].run = r
        BY <1>5, <1>9, <1>10, <4>1, <4>2
      <4>3. CASE attempt[d].run # r
        BY <1>3, <4>1, <4>3
      <4> QED BY <4>2, <4>3
    <3> QED BY <3>1, <3>2
  <2>4. ASSUME NEW a \in Claims, NEW b \in Claims,
               attempt'[a].status # "absent", attempt'[b].status # "absent",
               attempt'[a].run = attempt'[b].run, attempt'[a].no = attempt'[b].no
        PROVE  a = b
    <3>1. ASSUME NEW d \in Claims, d # c, attempt'[d].status # "absent", attempt'[d].run = r
          PROVE  attempt'[d].no # no
      BY <1>9, <1>10, <2>1, <2>2, <3>1
    <3>2. CASE a = c \/ b = c
      BY <1>6, <2>4, <3>1, <3>2
    <3>3. CASE a # c /\ b # c
      <4>1. /\ attempt[a].status # "absent" /\ attempt[b].status # "absent"
            /\ attempt[a].run = attempt[b].run /\ attempt[a].no = attempt[b].no
        BY <2>1, <2>4, <3>3
      <4> QED BY <4>1 DEF RowInv, AttemptsNumbered
    <3> QED BY <3>2, <3>3
  <2> QED BY <2>3, <2>4 DEF AttemptsNumbered
<1>15. Finalized'
  <2>1. ASSUME NEW d \in Claims, attempt[d].status \in {"completed", "awaiting_input"}
        PROVE  attempt[d].run \in Runs /\ attempt[d].run # r
    BY <1>2, <2>1 DEF RowInv, AttemptsNumbered, Finalized
  <2>2. ASSUME NEW d \in Claims, d # c, d # old
        PROVE  /\ attempt'[d] = attempt[d]
               /\ attempt[d].status \in {"completed", "awaiting_input"} =>
                    run'[attempt[d].run] = run[attempt[d].run]
    BY <1>3, <1>4, <2>1, <2>2
  <2>3. ASSUME NEW d \in Claims
        PROVE  /\ attempt'[d].fin # 0 => attempt'[d].status \notin {"absent", "claimed"}
               /\ attempt'[d].status = "completed" => run'[attempt'[d].run].status = "completed"
               /\ attempt'[d].status = "awaiting_input" =>
                    run'[attempt'[d].run].status \in {"awaiting_input", "cancelled"}
    <3>1. CASE d = c
      BY <1>6, <3>1
    <3>2. CASE d = old
      BY <1>8, <3>2
    <3>3. CASE d # c /\ d # old
      BY <2>2, <3>3 DEF RowInv, Finalized
    <3> QED BY <3>1, <3>2, <3>3
  <2> QED BY <2>3 DEF Finalized
<1>16. RowsStep
  BY <1>2, <1>3, <1>4, <1>5, <1>6, <1>7, <1>8 DEF RowsStep
<1> QED BY <1>11, <1>12, <1>13, <1>14, <1>15, <1>16 DEF RowInv

LEMMA ReleaseSteps ==
  ASSUME RowInv, NEW c \in Claims, Release(c)
  PROVE  RowInv' /\ RowsStep
<1>1. CASE UNCHANGED <<run, attempt>>
  BY <1>1, RowsKept
<1>2. CASE ~UNCHANGED <<run, attempt>>
  <2> DEFINE r    == attempt[c].run
             row  == [Ended(r, "queued") EXCEPT !.ready = TRUE]
             over == [attempt[c] EXCEPT !.status = "released"]
  <2>1. /\ Leased(c)
        /\ run' = [run EXCEPT ![r] = row]
        /\ attempt' = [attempt EXCEPT ![c] = over]
    BY <1>2 DEF Release
  <2>2. /\ run[r] \in RunRow /\ attempt[c] \in AttemptRow
        /\ run[r].failures < MaxFailures
    BY <2>1 DEF RowInv, RowTypes, Leased, FailuresLeft
  <2>3. /\ row \in RunRow /\ row.status = "queued" /\ row.failures = run[r].failures
        /\ row.claim = NoClaim /\ row.attempts = run[r].attempts
    BY <2>2 DEF Ended, RunRow, RunStatuses
  <2>4. /\ over \in AttemptRow /\ over.status = "released"
        /\ over.run = r /\ over.no = attempt[c].no
    BY <2>2 DEF AttemptRow, AttemptStatuses
  <2> HIDE DEF row, over
  <2> QED BY <2>1, <2>2, <2>3, <2>4, EndSteps
<1> QED BY <1>1, <1>2

LEMMA CommitSteps ==
  ASSUME RowInv, NEW c \in Claims, NEW fin \in {1, 2}, NEW try \in Tries,
         Commit(c, fin, try), KindOf(c, fin) \in Kinds
  PROVE  RowInv' /\ RowsStep
<1>1. CASE UNCHANGED <<run, attempt>>
  BY <1>1, RowsKept
<1>2. CASE ~UNCHANGED <<run, attempt>>
  <2> DEFINE r    == attempt[c].run
             kind == KindOf(c, fin)
             row  == Outcome(r, kind)
             over == [attempt[c] EXCEPT !.status = row.status, !.fin = fin]
  <2>1. /\ Leased(c) /\ kind \in {"complete", "input", "fail"}
        /\ run' = [run EXCEPT ![r] = row]
        /\ attempt' = [attempt EXCEPT ![c] = over]
    BY <1>2 DEF Commit, Kinds
  <2>2. /\ run[r] \in RunRow /\ attempt[c] \in AttemptRow
        /\ run[r].failures < MaxFailures /\ run[r].failures \in Nat /\ MaxFailures \in Nat
    BY <2>1, ProtocolAssumption DEF RowInv, RowTypes, Leased, FailuresLeft, RunRow
  <2> HIDE DEF r, kind
  <2>3. /\ row \in RunRow /\ row.status \in {"retry_wait", "awaiting_input", "completed"}
        /\ row.status # "awaiting_input" => row.failures < MaxFailures
        /\ row.claim = NoClaim /\ row.attempts = run[r].attempts
    <3>1. CASE kind = "complete"
      BY <2>2, <3>1 DEF Outcome, Ended, RunRow, RunStatuses
    <3>2. CASE kind = "input"
      BY <2>2, <3>2 DEF Outcome, Ended, RunRow, RunStatuses
    <3>3. CASE kind = "fail"
      <4> DEFINE failures == run[r].failures + 1
                 status   == IF failures >= MaxFailures THEN "awaiting_input" ELSE "retry_wait"
      <4>1. row = [Ended(r, status) EXCEPT !.failures = failures]
        BY <3>3 DEF Outcome
      <4>2. /\ failures \in 0 .. MaxFailures /\ status \in {"awaiting_input", "retry_wait"}
            /\ status = "retry_wait" => failures < MaxFailures
        BY <2>2
      <4> HIDE DEF failures, status, row
      <4>3. Ended(r, status) \in RunRow /\ Ended(r, status).status = status
            /\ Ended(r, status).claim = NoClaim /\ Ended(r, status).attempts = run[r].attempts
        BY <2>2, <4>2 DEF Ended, RunRow, RunStatuses
      <4> QED BY <4>1, <4>2, <4>3 DEF RunRow
    <3> QED BY <2>1, <3>1, <3>2, <3>3
  <2> HIDE DEF row
  <2>4. /\ over \in AttemptRow /\ over.status = row.status
        /\ over.run = r /\ over.no = attempt[c].no
    <3>1. row.status \in AttemptStatuses /\ fin \in 0 .. 2
      BY <2>3 DEF AttemptStatuses
    <3> QED BY <2>2, <3>1 DEF AttemptRow, r
  <2> HIDE DEF over
  <2> QED BY <2>1, <2>2, <2>3, <2>4, EndSteps DEF r
<1> QED BY <1>1, <1>2

LEMMA RowsNext ==
  ASSUME TypeOK, RowInv, StagesDone, [Next]_vars
  PROVE  RowInv' /\ RowsStep
<1>1. ASSUME NEW r \in Runs, CreateRun(r) \/ CancelRun(r) \/ Tick(r)
      PROVE  RowInv' /\ RowsStep
  BY <1>1, CreateSteps, CancelSteps, AgeSteps DEF Tick
<1>2. ASSUME NEW c \in Claims, ServePoll(c)
      PROVE  RowInv' /\ RowsStep
  <2>1. CASE OpenSession(c) \/ Deliver(c)
    BY <2>1, RowsKept DEF OpenSession, Deliver, db
  <2> QED BY <1>2, <2>1, ClaimSteps, ReleaseSteps DEF ServePoll
<1>3. ASSUME NEW c \in Claims, Work(c) \/ Heartbeat(c) \/ PersistSession(c)
      PROVE  RowInv' /\ RowsStep
  <2>1. CASE UNCHANGED <<run, attempt>>
    BY <2>1, RowsKept
  <2>2. CASE ~UNCHANGED <<run, attempt>>
    <3>1. Leased(c) /\ Renewed(c)
      BY <1>3, <2>2 DEF Work, Acknowledge, LeaseLost, Finish, Heartbeat, PersistSession, db
    <3> QED BY <3>1, RenewSteps
  <2> QED BY <2>1, <2>2
<1>4. ASSUME NEW k \in Calls, ServeCall(k) \/ StepFails(k)
      PROVE  RowInv' /\ RowsStep
  <2>1. /\ k[1] \in Claims /\ k[2] \in {1, 2} /\ k[3] \in Tries
        /\ k = <<k[1], k[2], k[3]>>
    BY DEF Calls
  <2>2. CASE Commit(k[1], k[2], k[3])
    <3>1. asked[k[1]] # "none"
      BY <2>1, <2>2 DEF Commit, StagesDone, StageDone
    <3>2. asked[k[1]] \in Kinds \cup {"none"}
      BY <2>1 DEF TypeOK
    <3>3. KindOf(k[1], k[2]) \in Kinds
      BY <3>1, <3>2 DEF KindOf, Kinds
    <3> QED BY <2>1, <2>2, <3>3, CommitSteps
  <2>3. CASE SaveSession(k[1], k[2], k[3]) \/ FollowUp(k[1], k[2], k[3]) \/ StepFails(k)
    BY <2>3, RowsKept DEF SaveSession, FollowUp, StepFails, db
  <2> QED BY <1>4, <2>2, <2>3 DEF ServeCall
<1>5. CASE \/ Poll \/ PollEmpty \/ GiveUpPoll \/ Answer \/ AnswerLost
           \/ ServerRestart \/ ClientCrash \/ UNCHANGED vars
  BY <1>5, RowsKept
  DEF Poll, PollEmpty, GiveUpPoll, Answer, AnswerLost, ServerRestart, ClientCrash, db, vars
<1> QED BY <1>1, <1>2, <1>3, <1>4, <1>5 DEF Next

--------------------------------------------------------------------------------
(* What has been done for a finalization stays done *)

LEMMA StageKept ==
  ASSUME RowInv, RowsStep, NEW c \in Claims, NEW fin \in {1, 2}, NEW stage,
         StageDone(c, fin, stage),
         effects[c] \subseteq effects'[c],
         stage # "unsent" => asked'[c] = asked[c]
  PROVE  StageDone(c, fin, stage)'
<1>1. CASE stage \notin {"save", "saveQuiet", "wake", "tell", "ok"}
  BY <1>1 DEF StageDone, KindOf
<1>2. CASE stage \in {"save", "saveQuiet", "wake", "tell", "ok"}
  <2>1. attempt[c].fin = fin /\ attempt'[c] = attempt[c]
    BY <1>2 DEF StageDone, RowInv, Finalized, RowsStep
  <2>2. KindOf(c, fin)' = KindOf(c, fin)
    BY <1>2 DEF KindOf
  <2>3. PauseOver(c) => PauseOver(c)'
    BY <2>1 DEF PauseOver, RowInv, RowsStep, Finalized, AttemptsNumbered
  <2> QED BY <1>2, <2>1, <2>2, <2>3 DEF StageDone
<1> QED BY <1>1, <1>2

\* A step changes one finalization, named by k, and keeps all others.
LEMMA OthersKept ==
  ASSUME RowInv, RowsStep, StagesDone, NEW b \in Claims, NEW f \in {1, 2}, NEW t \in Tries,
         \A c \in Claims : effects[c] \subseteq effects'[c],
         \A c \in Claims, fin \in {1, 2}, try \in Tries :
           <<c, fin, try>> # <<b, f, t>> =>
             /\ call'[<<c, fin, try>>] = call[<<c, fin, try>>]
             /\ call[<<c, fin, try>>] # "unsent" => asked'[c] = asked[c],
         StageDone(b, f, call[<<b, f, t>>])'
  PROVE  StagesDone'
<1> SUFFICES ASSUME NEW c \in Claims, NEW fin \in {1, 2}, NEW try \in Tries
             PROVE  StageDone(c, fin, call[<<c, fin, try>>])'
  BY DEF StagesDone
<1>1. CASE <<c, fin, try>> = <<b, f, t>>
  BY <1>1
<1>2. CASE <<c, fin, try>> # <<b, f, t>>
  <2>1. PICK stage : stage = call[<<c, fin, try>>]
    OBVIOUS
  <2>2. call'[<<c, fin, try>>] = stage /\ (stage # "unsent" => asked'[c] = asked[c])
    BY <1>2, <2>1
  <2>3. StageDone(c, fin, stage)
    BY <2>1 DEF StagesDone
  <2>4. StageDone(c, fin, stage)'
    BY <2>2, <2>3, StageKept
  <2> QED BY <2>2, <2>4
<1> QED BY <1>1, <1>2

LEMMA CallsKept ==
  ASSUME RowInv, RowsStep, StagesDone, UNCHANGED <<effects, call, asked>>
  PROVE  StagesDone'
<1> SUFFICES ASSUME NEW c \in Claims, NEW fin \in {1, 2}, NEW try \in Tries
             PROVE  StageDone(c, fin, call[<<c, fin, try>>])'
  BY DEF StagesDone
<1>1. PICK stage : stage = call[<<c, fin, try>>]
  OBVIOUS
<1>2. StageDone(c, fin, stage)
  BY <1>1 DEF StagesDone
<1>3. StageDone(c, fin, stage)'
  BY <1>2, StageKept
<1> QED BY <1>1, <1>3

LEMMA CommitStages ==
  ASSUME TypeOK, RowInv, RowsStep, StagesDone,
         NEW c \in Claims, NEW fin \in {1, 2}, NEW try \in Tries, Commit(c, fin, try)
  PROVE  StagesDone'
<1> DEFINE k    == <<c, fin, try>>
           kind == KindOf(c, fin)
<1>1. k \in Calls /\ call[k] = "sent" /\ call \in [Calls -> Handling \cup {"unsent", "refused", "error", "ok"}]
  BY DEF Commit, Calls, TypeOK
<1>2. UNCHANGED <<effects, asked>>
  BY DEF Commit
<1>3. asked[c] # "none" /\ kind' = kind
  BY <1>1, <1>2 DEF StagesDone, StageDone, KindOf
<1>4. ASSUME NEW stage, call' = [call EXCEPT ![k] = stage], StageDone(c, fin, stage)'
      PROVE  StagesDone'
  BY <1>1, <1>2, <1>4, OthersKept
<1> HIDE DEF k, kind
<1>5. CASE WasFinalized(c, fin) /\ UNCHANGED <<run, attempt>>
           /\ call' = [call EXCEPT ![k] = Replayed(kind, run[attempt[c].run])]
  <2>1. PICK stage : stage = Replayed(kind, run[attempt[c].run])
    OBVIOUS
  <2>2. StageDone(c, fin, stage)'
    BY <1>2, <1>3, <1>5, <2>1
    DEF WasFinalized, Replayed, Following, StageDone, PauseOver, kind
  <2> QED BY <1>4, <1>5, <2>1, <2>2
<1>6. CASE /\ Leased(c) /\ attempt' = [attempt EXCEPT ![c].status = Outcome(attempt[c].run, kind).status,
                                                      ![c].fin = fin]
           /\ call' = [call EXCEPT ![k] = Following(kind, Outcome(attempt[c].run, kind))]
  <2>1. PICK stage : stage = Following(kind, Outcome(attempt[c].run, kind))
    OBVIOUS
  <2>2. /\ attempt'[c].fin = fin
        /\ attempt'[c].status = Outcome(attempt[c].run, kind).status
    BY <1>6 DEF TypeOK, AttemptRow
  <2>3. StageDone(c, fin, stage)'
    BY <1>2, <1>3, <2>1, <2>2 DEF Following, StageDone, PauseOver, kind
  <2> QED BY <1>4, <1>6, <2>1, <2>3
<1>7. CASE call' = [call EXCEPT ![k] = "refused"]
  <2>1. StageDone(c, fin, "refused")'
    BY <1>2, <1>3 DEF StageDone
  <2> QED BY <1>4, <1>7, <2>1
<1> QED BY <1>5, <1>6, <1>7 DEF Commit, k, kind

LEMMA SaveStages ==
  ASSUME TypeOK, RowInv, RowsStep, StagesDone,
         NEW c \in Claims, NEW fin \in {1, 2}, NEW try \in Tries, SaveSession(c, fin, try)
  PROVE  StagesDone'
<1> DEFINE k == <<c, fin, try>>
<1>1. /\ k \in Calls /\ call \in [Calls -> Handling \cup {"unsent", "refused", "error", "ok"}]
      /\ effects \in [Claims -> SUBSET {"saved", "woken", "told"}]
  BY DEF Calls, TypeOK
<1>2. UNCHANGED <<run, attempt, asked>> /\ call[k] \in {"save", "saveQuiet"}
      /\ StageDone(c, fin, call[k])
  BY DEF SaveSession, StagesDone
<1>3. PICK stage : call' = [call EXCEPT ![k] = stage]
  BY DEF SaveSession
<1>4. StageDone(c, fin, stage)'
  <2>1. call'[k] = stage
    BY <1>1, <1>3
  <2>2. CASE stage = "error"
    BY <1>2, <2>2 DEF StageDone, KindOf
  <2>3. CASE stage # "error"
    <3>1. "saved" \in effects'[c]
      BY <1>1, <2>1, <2>3 DEF SaveSession
    <3>2. stage = IF call[k] = "saveQuiet" THEN "ok"
                  ELSE IF KindOf(c, fin) = "complete" THEN "wake" ELSE "tell"
      BY <1>1, <2>1, <2>3 DEF SaveSession
    <3> QED BY <1>2, <3>1, <3>2 DEF StageDone, KindOf, PauseOver
  <2> QED BY <2>2, <2>3
<1>5. \A d \in Claims : effects[d] \subseteq effects'[d]
  BY <1>1 DEF SaveSession
<1> QED BY <1>1, <1>2, <1>3, <1>4, <1>5, OthersKept

LEMMA FollowUpStages ==
  ASSUME TypeOK, RowInv, RowsStep, StagesDone,
         NEW c \in Claims, NEW fin \in {1, 2}, NEW try \in Tries, FollowUp(c, fin, try)
  PROVE  StagesDone'
<1> DEFINE k == <<c, fin, try>>
<1>1. /\ k \in Calls /\ call \in [Calls -> Handling \cup {"unsent", "refused", "error", "ok"}]
      /\ effects \in [Claims -> SUBSET {"saved", "woken", "told"}]
  BY DEF Calls, TypeOK
<1>2. UNCHANGED <<run, attempt, asked>> /\ call[k] \in {"wake", "tell"}
      /\ StageDone(c, fin, call[k])
  BY DEF FollowUp, StagesDone
<1>3. PICK stage : stage = IF call[k] = "wake" THEN "tell" ELSE "ok"
  OBVIOUS
<1>4. call' = [call EXCEPT ![k] = stage]
  BY <1>3 DEF FollowUp
<1>5. effects'[c] = effects[c] \cup {IF call[k] = "wake" THEN "woken" ELSE "told"}
  BY <1>1 DEF FollowUp
<1>6. StageDone(c, fin, stage)'
  BY <1>2, <1>3, <1>5 DEF StageDone, KindOf, PauseOver
<1>7. \A d \in Claims : effects[d] \subseteq effects'[d]
  BY <1>1 DEF FollowUp
<1> QED BY <1>1, <1>2, <1>4, <1>6, <1>7, OthersKept

LEMMA SendStages ==
  ASSUME TypeOK, RowInv, RowsStep, StagesDone, UNCHANGED <<effects, asked>>,
         NEW c \in Claims, NEW fin \in {1, 2}, NEW try \in Tries, Send(c, fin, try),
         asked[c] # "none"
  PROVE  StagesDone'
<1> DEFINE k == <<c, fin, try>>
<1>1. k \in Calls /\ call \in [Calls -> Handling \cup {"unsent", "refused", "error", "ok"}]
  BY DEF Calls, TypeOK
<1>2. call' = [call EXCEPT ![k] = "sent"]
  BY DEF Send
<1>3. StageDone(c, fin, "sent")'
  BY DEF StageDone, KindOf
<1> QED BY <1>1, <1>2, <1>3, OthersKept

LEMMA FinishStages ==
  ASSUME TypeOK, RowInv, RowsStep, StagesDone, ClaimsFresh,
         NEW c \in Claims, NEW kind \in Kinds, Finish(c, kind)
  PROVE  StagesDone'
<1> DEFINE k == <<c, 1, 1>>
<1>1. /\ 1 \in Tries /\ k \in Calls
      /\ call \in [Calls -> Handling \cup {"unsent", "refused", "error", "ok"}]
      /\ asked \in [Claims -> Kinds \cup {"none"}]
  BY ProtocolAssumption DEF Calls, TypeOK, Tries
<1>2. /\ call' = [call EXCEPT ![k] = "sent"] /\ asked' = [asked EXCEPT ![c] = kind]
      /\ UNCHANGED effects
  BY DEF Finish, Send, db
<1>3. NotYetReported(c)
  BY ProtocolAssumption DEF Finish, ClaimsFresh
<1>4. StageDone(c, 1, "sent")'
  BY <1>1, <1>2 DEF StageDone, KindOf, Kinds
<1>5. \A d \in Claims, fin \in {1, 2}, try \in Tries :
        <<d, fin, try>> # k => /\ call'[<<d, fin, try>>] = call[<<d, fin, try>>]
                               /\ call[<<d, fin, try>>] # "unsent" => asked'[d] = asked[d]
  BY <1>1, <1>2, <1>3 DEF NotYetReported, Calls
<1> QED BY <1>1, <1>2, <1>4, <1>5, OthersKept

\* A handler stops: its call is answered with an error or not at all.
LEMMA StopStages ==
  ASSUME TypeOK, RowInv, RowsStep, StagesDone, UNCHANGED <<effects, asked>>,
         NEW Stopped \in SUBSET Calls, \A k \in Stopped : call[k] \in Handling,
         call' = [k \in Calls |-> IF k \in Stopped THEN "error" ELSE call[k]]
  PROVE  StagesDone'
<1> SUFFICES ASSUME NEW c \in Claims, NEW fin \in {1, 2}, NEW try \in Tries
             PROVE  StageDone(c, fin, call[<<c, fin, try>>])'
  BY DEF StagesDone
<1> DEFINE k == <<c, fin, try>>
<1>1. k \in Calls
  BY DEF Calls
<1>2. PICK stage : stage = call[k]
  OBVIOUS
<1>3. StageDone(c, fin, stage)
  BY <1>2 DEF StagesDone
<1>4. CASE k \in Stopped
  <2>1. call'[k] = "error" /\ asked[c] # "none"
    BY <1>1, <1>2, <1>3, <1>4 DEF StageDone, Handling
  <2> QED BY <2>1 DEF StageDone, KindOf
<1>5. CASE k \notin Stopped
  <2>1. StageDone(c, fin, stage)'
    BY <1>3, StageKept
  <2>2. call'[k] = stage
    BY <1>1, <1>2, <1>5
  <2> QED BY <2>1, <2>2
<1> QED BY <1>4, <1>5

\* What the client does next is to send a finalization, or nothing.
LEMMA ClientSends ==
  ASSUME ClaimsFresh, client.phase = "ending", Again \/ ReportFailure
  PROVE  \/ client' = Idle /\ UNCHANGED call
         \/ \E fin \in {1, 2}, try \in Tries : Send(client.claim, fin, try)
<1>1. client.fin \in {1, 2} /\ client.try \in Tries /\ 1 \in Tries
  BY ProtocolAssumption DEF ClaimsFresh, Tries
<1>2. client.try < MaxTries => client.try + 1 \in Tries
  BY <1>1, ProtocolAssumption DEF Tries
<1> QED BY <1>1, <1>2 DEF Again, ReportFailure

LEMMA StagesNext ==
  ASSUME TypeOK, RowInv, RowsStep, StagesDone, ClaimsFresh, [Next]_vars
  PROVE  StagesDone'
<1>1. CASE UNCHANGED <<effects, call, asked>>
  BY <1>1, CallsKept
<1>2. ASSUME NEW c \in Claims, NEW kind \in Kinds, Finish(c, kind)
      PROVE  StagesDone'
  BY <1>2, FinishStages
<1>3. ASSUME NEW k \in Calls, ServeCall(k)
      PROVE  StagesDone'
  <2>1. k[1] \in Claims /\ k[2] \in {1, 2} /\ k[3] \in Tries
    BY DEF Calls
  <2> QED BY <1>3, <2>1, CommitStages, SaveStages, FollowUpStages DEF ServeCall
<1>4. ASSUME NEW k \in Calls, StepFails(k)
      PROVE  StagesDone'
  <2>0. PICK Stopped \in SUBSET Calls : Stopped = {k}
    OBVIOUS
  <2>1. call' = [m \in Calls |-> IF m \in Stopped THEN "error" ELSE call[m]]
    BY <1>4, <2>0 DEF StepFails, TypeOK
  <2>2. UNCHANGED <<effects, asked>> /\ \A m \in Stopped : call[m] \in Handling
    BY <1>4, <2>0 DEF StepFails, Handling, db
  <2> QED BY <2>1, <2>2, StopStages
<1>5. CASE ServerRestart
  <2>0. PICK Stopped \in SUBSET Calls : Stopped = {k \in Calls : call[k] \in Handling}
    OBVIOUS
  <2>1. call' = [m \in Calls |-> IF m \in Stopped THEN "error" ELSE call[m]]
    BY <1>5, <2>0 DEF ServerRestart, Handling
  <2>2. UNCHANGED <<effects, asked>> /\ \A m \in Stopped : call[m] \in Handling
    BY <1>5, <2>0 DEF ServerRestart, db
  <2> QED BY <2>1, <2>2, StopStages
<1>6. CASE Answer \/ AnswerLost
  <2>1. /\ client.phase = "ending" /\ UNCHANGED <<effects, asked>>
        /\ \/ UNCHANGED call
           \/ Again \/ ReportFailure
    BY <1>6 DEF Answer, AnswerLost, db
  <2>2. CASE UNCHANGED call
    BY <2>1, <2>2, CallsKept
  <2>3. ASSUME NEW fin \in {1, 2}, NEW try \in Tries, Send(client.claim, fin, try)
        PROVE  StagesDone'
    <3>1. PICK c : c = client.claim
      OBVIOUS
    <3>2. c \in Claims /\ asked[c] # "none"
      BY <2>1, <3>1 DEF ClaimsFresh, TypeOK
    <3> QED BY <2>1, <2>3, <3>1, <3>2, SendStages
  <2> QED BY <2>1, <2>2, <2>3, ClientSends
<1>7. ASSUME NEW r \in Runs, CreateRun(r) \/ CancelRun(r) \/ Tick(r)
      PROVE  UNCHANGED <<effects, call, asked>>
  BY <1>7 DEF CreateRun, CancelRun, Tick, LeaseAges, BackoffElapses, http
<1>8. ASSUME NEW c \in Claims, \/ ServePoll(c) \/ Acknowledge(c) \/ LeaseLost(c)
                               \/ Heartbeat(c) \/ PersistSession(c)
      PROVE  UNCHANGED <<effects, call, asked>>
  BY <1>8 DEF ServePoll, ClaimNext, OpenSession, Deliver, Release, Acknowledge, LeaseLost,
              Heartbeat, PersistSession, db, http
<1>9. CASE Poll \/ PollEmpty \/ GiveUpPoll \/ ClientCrash \/ UNCHANGED vars
  BY <1>1, <1>9 DEF Poll, PollEmpty, GiveUpPoll, ClientCrash, db, http, vars
<1> QED BY <1>1, <1>2, <1>3, <1>4, <1>5, <1>6, <1>7, <1>8, <1>9 DEF Next, Work

--------------------------------------------------------------------------------
(* The session, and the claims nothing was sent for *)

LEMMA SessionNext ==
  ASSUME TypeOK, RowInv, RowsStep, SessionWritten, StagesDone, [Next]_vars
  PROVE  SessionWritten'
<1>1. CASE session'.by = session.by
  <2>1. session.by # NoClaim => session.by \in Claims
    BY DEF TypeOK
  <2> QED BY <1>1, <2>1 DEF SessionWritten, RowsStep
<1>2. ASSUME NEW c \in Claims, session'.by = c, attempt[c].status # "absent"
      PROVE  SessionWritten'
  BY <1>2 DEF SessionWritten, RowsStep
<1>3. session \in [run : Runs \cup {NoRun}, by : Claims \cup {NoClaim}]
  BY DEF TypeOK
<1>4. ASSUME NEW c \in Claims, PersistSession(c)
      PROVE  SessionWritten'
  <2>1. attempt[c].status # "absent" /\ session'.by = c
    BY <1>3, <1>4 DEF PersistSession, Leased
  <2> QED BY <1>2, <2>1
<1>5. ASSUME NEW k \in Calls, SaveSession(k[1], k[2], k[3])
      PROVE  SessionWritten'
  <2>1. /\ k[1] \in Claims /\ k[2] \in {1, 2} /\ k[3] \in Tries
        /\ k = <<k[1], k[2], k[3]>>
    BY DEF Calls
  <2>2. attempt[k[1]].fin = k[2]
    BY <1>5, <2>1 DEF SaveSession, StagesDone, StageDone
  <2>3. attempt[k[1]].status # "absent"
    BY <2>1, <2>2 DEF RowInv, Finalized
  <2>4. session'.by = session.by \/ session'.by = k[1]
    BY <1>3, <1>5 DEF SaveSession
  <2> QED BY <1>1, <1>2, <2>1, <2>3, <2>4
<1>6. ASSUME NEW r \in Runs, CreateRun(r) \/ CancelRun(r) \/ Tick(r)
      PROVE  session' = session
  BY <1>6 DEF CreateRun, CancelRun, Tick, LeaseAges, BackoffElapses
<1>7. ASSUME NEW c \in Claims, ServePoll(c) \/ Work(c) \/ Heartbeat(c)
      PROVE  session'.by = session.by
  BY <1>3, <1>7 DEF ServePoll, ClaimNext, OpenSession, Deliver, Release, Work, Acknowledge,
                    LeaseLost, Finish, Heartbeat, db
<1>8. ASSUME NEW k \in Calls, \/ Commit(k[1], k[2], k[3]) \/ FollowUp(k[1], k[2], k[3])
                              \/ StepFails(k)
      PROVE  session' = session
  BY <1>8 DEF Commit, FollowUp, StepFails, db
<1>9. CASE \/ Poll \/ PollEmpty \/ GiveUpPoll \/ Answer \/ AnswerLost
           \/ ServerRestart \/ ClientCrash \/ UNCHANGED vars
  BY <1>1, <1>9
  DEF Poll, PollEmpty, GiveUpPoll, Answer, AnswerLost, ServerRestart, ClientCrash, db, vars
<1> QED BY <1>1, <1>4, <1>5, <1>6, <1>7, <1>8, <1>9 DEF Next, ServeCall

\* Steps that report nothing and move the client at most up to its work.
LEMMA FreshKept ==
  ASSUME TypeOK, RowsStep, ClaimsFresh, UNCHANGED asked,
         \A c \in Claims : NotYetReported(c) => NotYetReported(c)',
         \/ client' = client
         \/ client' = Idle
         \/ client' = [Idle EXCEPT !.phase = "polling"]
         \/ /\ client.phase \in {"polling", "acking"} /\ client.claim # NoClaim
            /\ \E phase \in {"acking", "working"} : client' = [client EXCEPT !.phase = phase]
         \/ /\ client.phase = "polling"
            /\ \E c \in Claims : /\ client' = [client EXCEPT !.claim = c]
                                 /\ attempt[c].status = "absent" /\ attempt'[c].status # "absent"
  PROVE  ClaimsFresh'
<1>1. \A c \in Claims : attempt'[c].status = "absent" => NotYetReported(c)'
  BY DEF ClaimsFresh, RowsStep
<1>2. /\ client \in [phase : {"idle", "polling", "acking", "working", "ending"},
                     claim : Claims \cup {NoClaim}, fin : 0 .. 2, try : 0 .. MaxTries]
      /\ NoClaim \notin Claims
  BY ProtocolAssumption DEF TypeOK
<1>3. CASE client' = client
  <2>1. client.claim # NoClaim => attempt'[client.claim].status # "absent"
    BY <1>2 DEF ClaimsFresh, RowsStep
  <2>2. client.phase \in {"polling", "acking", "working"} /\ client.claim # NoClaim =>
          NotYetReported(client.claim)'
    <3>1. PICK c : c = client.claim
      OBVIOUS
    <3>2. client.phase \in {"polling", "acking", "working"} /\ c # NoClaim => NotYetReported(c)'
      BY <1>2, <3>1 DEF ClaimsFresh
    <3> QED BY <1>3, <3>1, <3>2 DEF NotYetReported
  <2> QED BY <1>1, <1>3, <2>1, <2>2 DEF ClaimsFresh
<1>4. CASE client' = Idle \/ client' = [Idle EXCEPT !.phase = "polling"]
  <2>1. client'.claim = NoClaim /\ client'.phase \in {"idle", "polling"}
    BY <1>4 DEF Idle
  <2> QED BY <1>1, <2>1 DEF ClaimsFresh
<1>5. CASE /\ client.phase \in {"polling", "acking"} /\ client.claim # NoClaim
           /\ \E phase \in {"acking", "working"} : client' = [client EXCEPT !.phase = phase]
  <2>1. PICK c : c = client.claim
    OBVIOUS
  <2>2. c \in Claims /\ NotYetReported(c)' /\ attempt'[c].status # "absent"
    BY <1>2, <1>5, <2>1 DEF ClaimsFresh, RowsStep
  <2>3. client'.claim = c /\ client'.phase \in {"acking", "working"}
    BY <1>2, <1>5, <2>1
  <2> QED BY <1>1, <1>2, <2>2, <2>3 DEF ClaimsFresh, NotYetReported
<1>6. ASSUME NEW c \in Claims, client.phase = "polling", client' = [client EXCEPT !.claim = c],
             attempt[c].status = "absent", attempt'[c].status # "absent"
      PROVE  ClaimsFresh'
  <2>1. NotYetReported(c)'
    BY <1>6 DEF ClaimsFresh
  <2>2. client'.claim = c /\ client'.phase = "polling"
    BY <1>2, <1>6
  <2> QED BY <1>1, <1>6, <2>1, <2>2 DEF ClaimsFresh, NotYetReported
<1> QED BY <1>3, <1>4, <1>5, <1>6

LEMMA FreshSent ==
  ASSUME TypeOK, RowsStep, ClaimsFresh, NEW c \in Claims, c = client.claim,
         NEW fin \in {1, 2}, NEW try \in Tries, Send(c, fin, try),
         asked'[c] # "none", \A d \in Claims : d # c => asked'[d] = asked[d]
  PROVE  ClaimsFresh'
<1>1. client' = [phase |-> "ending", claim |-> c, fin |-> fin, try |-> try]
      /\ call' = [call EXCEPT ![<<c, fin, try>>] = "sent"]
  BY DEF Send
<1>2. call \in [Calls -> Handling \cup {"unsent", "refused", "error", "ok"}] /\ c # NoClaim
  BY ProtocolAssumption DEF TypeOK
<1>3. attempt[c].status # "absent" /\ attempt'[c].status # "absent"
  BY <1>2 DEF ClaimsFresh, RowsStep
<1>4. ASSUME NEW d \in Claims, attempt'[d].status = "absent"
      PROVE  NotYetReported(d)'
  <2>1. d # c /\ NotYetReported(d)
    BY <1>3, <1>4 DEF ClaimsFresh, RowsStep
  <2> QED BY <1>1, <1>2, <2>1 DEF NotYetReported, Calls
<1> QED BY <1>1, <1>2, <1>3, <1>4 DEF ClaimsFresh

LEMMA FreshNext ==
  ASSUME TypeOK, RowsStep, ClaimsFresh, StagesDone, [Next]_vars
  PROVE  ClaimsFresh'
<1>1. /\ client \in [phase : {"idle", "polling", "acking", "working", "ending"},
                     claim : Claims \cup {NoClaim}, fin : 0 .. 2, try : 0 .. MaxTries]
      /\ NoClaim \notin Claims
  BY ProtocolAssumption DEF TypeOK
<1>2. UNCHANGED <<call, asked>> => \A c \in Claims : NotYetReported(c) => NotYetReported(c)'
  BY DEF NotYetReported
<1>3. ASSUME NEW r \in Runs, CreateRun(r) \/ CancelRun(r) \/ Tick(r)
      PROVE  ClaimsFresh'
  <2>1. UNCHANGED <<client, call, asked>>
    BY <1>3 DEF CreateRun, CancelRun, Tick, LeaseAges, BackoffElapses, http
  <2> QED BY <1>2, <2>1, FreshKept
<1>4. CASE Poll \/ PollEmpty \/ GiveUpPoll \/ ClientCrash \/ UNCHANGED vars
  BY <1>2, <1>4, FreshKept DEF Poll, PollEmpty, GiveUpPoll, ClientCrash, http, vars
<1>5. ASSUME NEW c \in Claims, ServePoll(c)
      PROVE  ClaimsFresh'
  <2>1. ASSUME NEW r \in Runs, ClaimNext(r, c)
        PROVE  ClaimsFresh'
    <3>1. attempt[c].status = "absent" /\ UNCHANGED <<call, asked>>
      BY <2>1 DEF ClaimNext, Fresh
    <3>2. attempt'[c].status # "absent"
      BY <2>1 DEF ClaimNext
    <3>3. client' = client \/ (client.phase = "polling" /\ client' = [client EXCEPT !.claim = c])
      BY <2>1 DEF ClaimNext
    <3> QED BY <1>2, <3>1, <3>2, <3>3, FreshKept
  <2>2. CASE OpenSession(c)
    BY <1>2, <2>2, FreshKept DEF OpenSession
  <2>3. CASE Deliver(c)
    <3>1. UNCHANGED <<call, asked>>
      BY <2>3 DEF Deliver
    <3>2. CASE Awaited(c)
      <4>1. client' = [client EXCEPT !.phase = "acking"]
        BY <2>3, <3>2 DEF Deliver
      <4>2. client.phase = "polling" /\ client.claim # NoClaim
        BY <1>1, <3>2 DEF Awaited
      <4> QED BY <1>2, <3>1, <4>1, <4>2, FreshKept
    <3>3. CASE ~Awaited(c)
      <4>1. client' = client
        BY <2>3, <3>3 DEF Deliver
      <4> QED BY <1>2, <3>1, <4>1, FreshKept
    <3> QED BY <3>2, <3>3
  <2>4. CASE Release(c)
    BY <1>2, <2>4, FreshKept DEF Release
  <2> QED BY <1>5, <2>1, <2>2, <2>3, <2>4 DEF ServePoll
<1>6. ASSUME NEW c \in Claims, Acknowledge(c) \/ LeaseLost(c) \/ Heartbeat(c) \/ PersistSession(c)
      PROVE  ClaimsFresh'
  <2>1. UNCHANGED <<call, asked>>
    BY <1>6 DEF Acknowledge, LeaseLost, Heartbeat, PersistSession, http
  <2>2. CASE Acknowledge(c)
    BY <1>1, <1>2, <2>1, <2>2, FreshKept DEF Acknowledge
  <2>3. CASE LeaseLost(c) \/ Heartbeat(c) \/ PersistSession(c)
    BY <1>2, <2>1, <2>3, FreshKept DEF LeaseLost, Heartbeat, PersistSession
  <2> QED BY <1>6, <2>2, <2>3
<1>7. ASSUME NEW c \in Claims, NEW kind \in Kinds, Finish(c, kind)
      PROVE  ClaimsFresh'
  <2>1. c = client.claim /\ Send(c, 1, 1) /\ asked' = [asked EXCEPT ![c] = kind]
    BY <1>7 DEF Finish
  <2>2. 1 \in Tries
    BY ProtocolAssumption DEF Tries
  <2>3. asked'[c] # "none" /\ \A d \in Claims : d # c => asked'[d] = asked[d]
    BY <2>1 DEF TypeOK, Kinds
  <2> QED BY <2>1, <2>2, <2>3, FreshSent
<1>8. CASE Answer \/ AnswerLost
  <2>1. /\ client.phase = "ending" /\ UNCHANGED asked
        /\ \/ client' = Idle /\ UNCHANGED call
           \/ Again \/ ReportFailure
    BY <1>8 DEF Answer, AnswerLost
  <2>2. CASE client' = Idle /\ UNCHANGED call
    BY <1>2, <2>1, <2>2, FreshKept
  <2>3. ASSUME NEW fin \in {1, 2}, NEW try \in Tries, Send(client.claim, fin, try)
        PROVE  ClaimsFresh'
    <3>1. PICK c : c = client.claim
      OBVIOUS
    <3>2. c \in Claims /\ asked[c] # "none"
      BY <1>1, <2>1, <3>1 DEF ClaimsFresh
    <3> QED BY <2>1, <2>3, <3>1, <3>2, FreshSent
  <2> QED BY <2>1, <2>2, <2>3, ClientSends
<1>9. ASSUME UNCHANGED asked, client' = client \/ client' = Idle,
             \A k \in Calls : call'[k] = call[k] \/ call[k] # "unsent"
      PROVE  ClaimsFresh'
  <2>1. ASSUME NEW c \in Claims, NotYetReported(c)
        PROVE  NotYetReported(c)'
    BY <1>9, <2>1 DEF NotYetReported, Calls
  <2> QED BY <1>9, <2>1, FreshKept
<1>10. ASSUME NEW k \in Calls, ServeCall(k) \/ StepFails(k)
       PROVE  ClaimsFresh'
  <2>1. k = <<k[1], k[2], k[3]>>
    BY DEF Calls
  <2>2. UNCHANGED <<asked, client>> /\ call[k] # "unsent"
    BY <1>10, <2>1 DEF ServeCall, StepFails, Commit, SaveSession, FollowUp
  <2>3. \E stage : call' = [call EXCEPT ![k] = stage]
    BY <1>10, <2>1 DEF ServeCall, StepFails, Commit, SaveSession, FollowUp
  <2>4. \A m \in Calls : call'[m] = call[m] \/ call[m] # "unsent"
    BY <2>2, <2>3 DEF TypeOK
  <2> QED BY <1>9, <2>2, <2>4
<1>11. CASE ServerRestart
  <2>1. UNCHANGED asked /\ (client' = client \/ client' = Idle)
    BY <1>11 DEF ServerRestart
  <2>2. \A m \in Calls : call'[m] = call[m] \/ call[m] # "unsent"
    BY <1>11 DEF ServerRestart
  <2> QED BY <1>9, <2>1, <2>2
<1> QED BY <1>3, <1>4, <1>5, <1>6, <1>7, <1>8, <1>10, <1>11 DEF Next, Work

--------------------------------------------------------------------------------
(* The states of the processes *)

LEMMA TypesNext ==
  ASSUME TypeOK, RowInv', ClaimsFresh, [Next]_vars
  PROVE  TypeOK'
<1>1. run' \in [Runs -> RunRow] /\ attempt' \in [Claims -> AttemptRow]
  BY DEF RowInv, RowTypes
<1>2. session' \in [run : Runs \cup {NoRun}, by : Claims \cup {NoClaim}]
  <2>1. session \in [run : Runs \cup {NoRun}, by : Claims \cup {NoClaim}]
    BY DEF TypeOK
  <2>2. ASSUME NEW c \in Claims, OpenSession(c)
        PROVE  session' \in [run : Runs \cup {NoRun}, by : Claims \cup {NoClaim}]
    BY <2>1, <2>2 DEF OpenSession, TypeOK, AttemptRow
  <2>3. ASSUME NEW c \in Claims, session' = [session EXCEPT !.by = c]
        PROVE  session' \in [run : Runs \cup {NoRun}, by : Claims \cup {NoClaim}]
    BY <2>1, <2>3
  <2>4. session' = session \/ (\E c \in Claims : OpenSession(c) \/ session' = [session EXCEPT !.by = c])
    <3>1. ASSUME NEW r \in Runs, CreateRun(r) \/ CancelRun(r) \/ Tick(r)
          PROVE  session' = session
      BY <3>1 DEF CreateRun, CancelRun, Tick, LeaseAges, BackoffElapses
    <3>2. ASSUME NEW c \in Claims, ServePoll(c)
          PROVE  session' = session \/ OpenSession(c)
      BY <3>2 DEF ServePoll, ClaimNext, Deliver, Release, db
    <3>3. ASSUME NEW c \in Claims, Work(c) \/ Heartbeat(c) \/ PersistSession(c)
          PROVE  session' = session \/ session' = [session EXCEPT !.by = c]
      BY <3>3 DEF Work, Acknowledge, LeaseLost, Finish, Heartbeat, PersistSession, db
    <3>4. ASSUME NEW k \in Calls, ServeCall(k) \/ StepFails(k)
          PROVE  session' = session \/ session' = [session EXCEPT !.by = k[1]]
      BY <3>4 DEF ServeCall, Commit, SaveSession, FollowUp, StepFails, db
    <3>5. ASSUME NEW k \in Calls
          PROVE  k[1] \in Claims
      BY DEF Calls
    <3>6. CASE \/ Poll \/ PollEmpty \/ GiveUpPoll \/ Answer \/ AnswerLost
               \/ ServerRestart \/ ClientCrash \/ UNCHANGED vars
      BY <3>6
      DEF Poll, PollEmpty, GiveUpPoll, Answer, AnswerLost, ServerRestart, ClientCrash, db, vars
    <3> QED BY <3>1, <3>2, <3>3, <3>4, <3>5, <3>6 DEF Next
  <2> QED BY <2>1, <2>2, <2>3, <2>4
<1>3. effects' \in [Claims -> SUBSET {"saved", "woken", "told"}]
  <2>1. effects \in [Claims -> SUBSET {"saved", "woken", "told"}]
    BY DEF TypeOK
  <2>2. ASSUME NEW k \in Calls, SaveSession(k[1], k[2], k[3]) \/ FollowUp(k[1], k[2], k[3])
        PROVE  effects' \in [Claims -> SUBSET {"saved", "woken", "told"}]
    BY <2>1, <2>2 DEF SaveSession, FollowUp, Calls
  <2>3. effects' = effects
        \/ \E k \in Calls : SaveSession(k[1], k[2], k[3]) \/ FollowUp(k[1], k[2], k[3])
    <3>1. ASSUME NEW r \in Runs, CreateRun(r) \/ CancelRun(r) \/ Tick(r)
          PROVE  effects' = effects
      BY <3>1 DEF CreateRun, CancelRun, Tick, LeaseAges, BackoffElapses
    <3>2. ASSUME NEW c \in Claims, ServePoll(c) \/ Work(c) \/ Heartbeat(c) \/ PersistSession(c)
          PROVE  effects' = effects
      BY <3>2 DEF ServePoll, ClaimNext, OpenSession, Deliver, Release, Work, Acknowledge,
                  LeaseLost, Finish, Heartbeat, PersistSession, db
    <3>3. ASSUME NEW k \in Calls, Commit(k[1], k[2], k[3]) \/ StepFails(k)
          PROVE  effects' = effects
      BY <3>3 DEF Commit, StepFails, db
    <3>4. CASE \/ Poll \/ PollEmpty \/ GiveUpPoll \/ Answer \/ AnswerLost
               \/ ServerRestart \/ ClientCrash \/ UNCHANGED vars
      BY <3>4
      DEF Poll, PollEmpty, GiveUpPoll, Answer, AnswerLost, ServerRestart, ClientCrash, db, vars
    <3> QED BY <3>1, <3>2, <3>3, <3>4 DEF Next, ServeCall
  <2> QED BY <2>1, <2>2, <2>3
<1>4. offer' \in [Claims -> {"none", "claimed", "opened"}]
  <2>1. offer \in [Claims -> {"none", "claimed", "opened"}]
    BY DEF TypeOK
  <2>2. ASSUME NEW r \in Runs, CreateRun(r) \/ CancelRun(r) \/ Tick(r)
        PROVE  offer' = offer
    BY <2>2 DEF CreateRun, CancelRun, Tick, LeaseAges, BackoffElapses, http
  <2>3. ASSUME NEW c \in Claims, ServePoll(c)
        PROVE  \E stage \in {"none", "claimed", "opened"} : offer' = [offer EXCEPT ![c] = stage]
    BY <2>3 DEF ServePoll, ClaimNext, OpenSession, Deliver, Release
  <2>4. ASSUME NEW c \in Claims, Work(c) \/ Heartbeat(c) \/ PersistSession(c)
        PROVE  offer' = offer
    BY <2>4 DEF Work, Acknowledge, LeaseLost, Finish, Heartbeat, PersistSession, http
  <2>5. ASSUME NEW k \in Calls, ServeCall(k) \/ StepFails(k)
        PROVE  offer' = offer
    BY <2>5 DEF ServeCall, Commit, SaveSession, FollowUp, StepFails
  <2>6. CASE \/ Poll \/ PollEmpty \/ GiveUpPoll \/ Answer \/ AnswerLost
             \/ ClientCrash \/ UNCHANGED vars
    BY <2>1, <2>6 DEF Poll, PollEmpty, GiveUpPoll, Answer, AnswerLost, ClientCrash, http, vars
  <2>7. CASE ServerRestart
    BY <2>7 DEF ServerRestart
  <2> QED BY <2>1, <2>2, <2>3, <2>4, <2>5, <2>6, <2>7 DEF Next
<1>5. call' \in [Calls -> Handling \cup {"unsent", "refused", "error", "ok"}]
  <2> DEFINE Stages == Handling \cup {"unsent", "refused", "error", "ok"}
  <2>1. call \in [Calls -> Stages]
    BY DEF TypeOK
  <2>2. ASSUME NEW r \in Runs, CreateRun(r) \/ CancelRun(r) \/ Tick(r)
        PROVE  call' = call
    BY <2>2 DEF CreateRun, CancelRun, Tick, LeaseAges, BackoffElapses, http
  <2>3. ASSUME NEW c \in Claims, \/ ServePoll(c) \/ Acknowledge(c) \/ LeaseLost(c)
                                 \/ Heartbeat(c) \/ PersistSession(c)
        PROVE  call' = call
    BY <2>3 DEF ServePoll, ClaimNext, OpenSession, Deliver, Release, Acknowledge, LeaseLost,
                Heartbeat, PersistSession, http
  <2>4. ASSUME NEW c, NEW fin, NEW try, Send(c, fin, try)
        PROVE  call' \in [Calls -> Stages]
    BY <2>1, <2>4 DEF Send, Handling
  <2>5. ASSUME NEW c \in Claims, NEW kind \in Kinds, Finish(c, kind)
        PROVE  call' \in [Calls -> Stages]
    BY <2>4, <2>5 DEF Finish
  <2>6. ASSUME NEW k \in Calls, ServeCall(k) \/ StepFails(k)
        PROVE  call' \in [Calls -> Stages]
    <3>1. \E stage \in Stages : \E m : call' = [call EXCEPT ![m] = stage]
      <4>1. CASE Commit(k[1], k[2], k[3])
        BY <4>1 DEF Commit, Replayed, Following, Handling
      <4>2. CASE SaveSession(k[1], k[2], k[3])
        BY <4>2 DEF SaveSession, Handling
      <4>3. CASE FollowUp(k[1], k[2], k[3])
        BY <4>3 DEF FollowUp, Handling
      <4>4. CASE StepFails(k)
        BY <4>4 DEF StepFails
      <4> QED BY <2>6, <4>1, <4>2, <4>3, <4>4 DEF ServeCall
    <3> QED BY <2>1, <3>1
  <2>7. CASE ServerRestart
    BY <2>1, <2>7 DEF ServerRestart
  <2>8. CASE Answer \/ AnswerLost
    <3>1. UNCHANGED call \/ (client.phase = "ending" /\ (Again \/ ReportFailure))
      BY <2>8 DEF Answer, AnswerLost
    <3>2. CASE UNCHANGED call
      BY <2>1, <3>2
    <3>3. CASE client.phase = "ending" /\ (Again \/ ReportFailure)
      BY <2>1, <2>4, <3>3 DEF Again, ReportFailure
    <3> QED BY <3>1, <3>2, <3>3
  <2>9. CASE Poll \/ PollEmpty \/ GiveUpPoll \/ ClientCrash \/ UNCHANGED vars
    BY <2>1, <2>9 DEF Poll, PollEmpty, GiveUpPoll, ClientCrash, http, vars
  <2> QED BY <2>1, <2>2, <2>3, <2>5, <2>6, <2>7, <2>8, <2>9 DEF Next, Work
<1>6. asked' \in [Claims -> Kinds \cup {"none"}]
  <2>1. asked \in [Claims -> Kinds \cup {"none"}]
    BY DEF TypeOK
  <2>2. ASSUME NEW r \in Runs, CreateRun(r) \/ CancelRun(r) \/ Tick(r)
        PROVE  asked' = asked
    BY <2>2 DEF CreateRun, CancelRun, Tick, LeaseAges, BackoffElapses
  <2>3. ASSUME NEW c \in Claims, \/ ServePoll(c) \/ Acknowledge(c) \/ LeaseLost(c)
                                 \/ Heartbeat(c) \/ PersistSession(c)
        PROVE  asked' = asked
    BY <2>3 DEF ServePoll, ClaimNext, OpenSession, Deliver, Release, Acknowledge, LeaseLost,
                Heartbeat, PersistSession
  <2>4. ASSUME NEW c \in Claims, NEW kind \in Kinds, Finish(c, kind)
        PROVE  asked' \in [Claims -> Kinds \cup {"none"}]
    BY <2>1, <2>4 DEF Finish
  <2>5. ASSUME NEW k \in Calls, ServeCall(k) \/ StepFails(k)
        PROVE  asked' = asked
    BY <2>5 DEF ServeCall, Commit, SaveSession, FollowUp, StepFails
  <2>6. CASE \/ Poll \/ PollEmpty \/ GiveUpPoll \/ Answer \/ AnswerLost
             \/ ServerRestart \/ ClientCrash \/ UNCHANGED vars
    BY <2>1, <2>6
    DEF Poll, PollEmpty, GiveUpPoll, Answer, AnswerLost, ServerRestart, ClientCrash, vars
  <2> QED BY <2>1, <2>2, <2>3, <2>4, <2>5, <2>6 DEF Next, Work
<1>7. client' \in [phase : {"idle", "polling", "acking", "working", "ending"},
                   claim : Claims \cup {NoClaim}, fin : 0 .. 2, try : 0 .. MaxTries]
  <2> DEFINE Client == [phase : {"idle", "polling", "acking", "working", "ending"},
                        claim : Claims \cup {NoClaim}, fin : 0 .. 2, try : 0 .. MaxTries]
  <2>1. client \in Client /\ 0 \in 0 .. MaxTries
    BY ProtocolAssumption DEF TypeOK
  <2>2. Idle \in Client /\ [Idle EXCEPT !.phase = "polling"] \in Client
    BY <2>1 DEF Idle
  <2>3. ASSUME NEW r \in Runs, CreateRun(r) \/ CancelRun(r) \/ Tick(r)
        PROVE  client' \in Client
    BY <2>1, <2>3 DEF CreateRun, CancelRun, Tick, LeaseAges, BackoffElapses
  <2>4. ASSUME NEW c \in Claims, ServePoll(c)
        PROVE  client' \in Client
    <3>1. \/ client' = client \/ client' = Idle
          \/ client' = [client EXCEPT !.claim = c] \/ client' = [client EXCEPT !.phase = "acking"]
      BY <2>4 DEF ServePoll, ClaimNext, OpenSession, Deliver, Release
    <3> QED BY <2>1, <2>2, <3>1
  <2>5. ASSUME NEW c \in Claims, \/ Acknowledge(c) \/ LeaseLost(c)
                                 \/ Heartbeat(c) \/ PersistSession(c)
        PROVE  client' \in Client
    <3>1. \/ client' = client \/ client' = Idle \/ client' = [client EXCEPT !.phase = "working"]
      BY <2>5 DEF Acknowledge, LeaseLost, Heartbeat, PersistSession
    <3> QED BY <2>1, <2>2, <3>1
  <2>6. ASSUME NEW c \in Claims, NEW fin \in {1, 2}, NEW try \in Tries, Send(c, fin, try)
        PROVE  client' \in Client
    BY <2>6, ProtocolAssumption DEF Send, Tries
  <2>7. ASSUME NEW c \in Claims, NEW kind \in Kinds, Finish(c, kind)
        PROVE  client' \in Client
    <3>1. 1 \in Tries
      BY ProtocolAssumption DEF Tries
    <3> QED BY <2>6, <2>7, <3>1 DEF Finish
  <2>8. ASSUME NEW k \in Calls, ServeCall(k) \/ StepFails(k)
        PROVE  client' \in Client
    BY <2>1, <2>8 DEF ServeCall, Commit, SaveSession, FollowUp, StepFails
  <2>9. CASE Answer \/ AnswerLost
    <3>1. client' = Idle \/ (client.phase = "ending" /\ (Again \/ ReportFailure))
      BY <2>9 DEF Answer, AnswerLost
    <3>2. client.phase = "ending" => client.claim \in Claims
      BY <2>1 DEF ClaimsFresh
    <3> QED BY <2>2, <2>6, <3>1, <3>2, ClientSends
  <2>10. CASE Poll \/ PollEmpty \/ GiveUpPoll \/ ServerRestart \/ ClientCrash \/ UNCHANGED vars
    BY <2>1, <2>2, <2>10 DEF Poll, PollEmpty, GiveUpPoll, ServerRestart, ClientCrash, vars
  <2> QED BY <2>3, <2>4, <2>5, <2>7, <2>8, <2>9, <2>10 DEF Next, Work
<1>8. faults' \in 0 .. MaxFaults
  <2>5. faults' = faults \/ Fault => faults' \in 0 .. MaxFaults
    BY ProtocolAssumption DEF TypeOK, Fault
  <2>1. ASSUME NEW r \in Runs, CreateRun(r) \/ CancelRun(r) \/ Tick(r)
        PROVE  faults' = faults \/ Fault
    BY <2>1 DEF CreateRun, CancelRun, Tick, LeaseAges, BackoffElapses, NoFault
  <2>2. ASSUME NEW c \in Claims, ServePoll(c) \/ Work(c) \/ Heartbeat(c) \/ PersistSession(c)
        PROVE  faults' = faults \/ Fault
    BY <2>2 DEF ServePoll, ClaimNext, OpenSession, Deliver, Release, Work, Acknowledge,
                LeaseLost, Finish, Heartbeat, PersistSession, NoFault
  <2>3. ASSUME NEW k \in Calls, ServeCall(k) \/ StepFails(k)
        PROVE  faults' = faults \/ Fault
    BY <2>3 DEF ServeCall, Commit, SaveSession, FollowUp, StepFails
  <2>4. CASE \/ Poll \/ PollEmpty \/ GiveUpPoll \/ Answer \/ AnswerLost
             \/ ServerRestart \/ ClientCrash \/ UNCHANGED vars
    <3>1. faults' = faults \/ Fault
      BY <2>4
      DEF Poll, PollEmpty, GiveUpPoll, Answer, AnswerLost, ServerRestart, ClientCrash, vars
    <3> QED BY <2>5, <3>1
  <2> QED BY <2>1, <2>2, <2>3, <2>4, <2>5 DEF Next
<1> QED BY <1>1, <1>2, <1>3, <1>4, <1>5, <1>6, <1>7, <1>8 DEF TypeOK

--------------------------------------------------------------------------------
(* The theorems *)

LEMMA Initially ==
  ASSUME Init
  PROVE  IInv
<1>1. TypeOK
  BY ProtocolAssumption
  DEF Init, TypeOK, RunRow, AttemptRow, BlankRun, BlankAttempt, Idle, RunStatuses, AttemptStatuses
<1>2. RowInv
  <2>1. \A r \in Runs : run[r].status = "absent" /\ run[r].claim = NoClaim /\ run[r].failures = 0
    BY DEF Init, BlankRun
  <2>2. \A c \in Claims : attempt[c].status = "absent" /\ attempt[c].fin = 0
    BY DEF Init, BlankAttempt
  <2>3. RowTypes /\ 0 < MaxFailures
    BY <1>1, ProtocolAssumption DEF TypeOK, RowTypes
  <2> QED BY <2>1, <2>2, <2>3 DEF RowInv, LeasesPaired, FailuresLeft, AttemptsNumbered, Finalized
<1>3. SessionWritten /\ ClaimsFresh /\ StagesDone
  BY DEF Init, SessionWritten, ClaimsFresh, NotYetReported, StagesDone, StageDone, Calls, Idle
<1> QED BY <1>1, <1>2, <1>3 DEF IInv

LEMMA Inductive ==
  ASSUME IInv, [Next]_vars
  PROVE  IInv' /\ RowsStep
<1>1. RowInv' /\ RowsStep
  BY RowsNext DEF IInv
<1>2. TypeOK'
  BY <1>1, TypesNext DEF IInv
<1>3. SessionWritten' /\ ClaimsFresh' /\ StagesDone'
  BY <1>1, SessionNext, FreshNext, StagesNext DEF IInv
<1> QED BY <1>1, <1>2, <1>3 DEF IInv

\* The invariant the theorems below rest on: it holds initially and every step
\* of a handler, the client or the outside world preserves it.
THEOREM IInvHolds == Spec => []IInv
<1>1. Init => IInv
  BY Initially
<1>2. IInv /\ [Next]_vars => IInv'
  BY Inductive
<1> QED BY <1>1, <1>2, PTL DEF Spec

\* The rows and the two processes keep to their values: no lost answer,
\* repetition or restart brings a run over workerMaxFailures (FailWorkerRun) or
\* leaves a handler at a stage its finalization does not have.
THEOREM ProtocolTypeCorrect == Spec => []TypeOK
<1>1. IInv => TypeOK
  BY DEF IInv
<1> QED BY <1>1, IInvHolds, PTL

\* A finalization is answered 200 only when the session is settled, dependents
\* are woken and the assigner was told, by this request or an earlier one.
THEOREM AnswersAreComplete == Spec => []AnsweredMeansDone
<1>1. IInv => AnsweredMeansDone
  <2> SUFFICES ASSUME StagesDone, NEW c \in Claims, NEW fin \in {1, 2}, NEW try \in Tries,
                      call[<<c, fin, try>>] = "ok"
               PROVE  /\ attempt[c].fin = fin
                      /\ "saved" \in effects[c]
                      /\ KindOf(c, fin) = "complete" => {"woken", "told"} \subseteq effects[c]
                      /\ KindOf(c, fin) = "input" => "told" \in effects[c]
                      /\ attempt[c].status = "awaiting_input"
                         /\ run[attempt[c].run].status = "awaiting_input"
                           => "told" \in effects[c]
    BY DEF IInv, AnsweredMeansDone
  <2>1. StageDone(c, fin, "ok")
    BY DEF StagesDone
  <2> QED BY <2>1 DEF StageDone, PauseOver
<1> QED BY <1>1, IInvHolds, PTL

\* Neither a repeated request nor a late failure report changes an attempt that
\* was finalized, or undoes the completion of its run.
THEOREM FinalizationsStand == Spec => ResultsStand
<1> DEFINE Stand == \A c \in Claims : attempt[c].fin # 0 =>
                      /\ attempt'[c] = attempt[c]
                      /\ attempt[c].status = "completed" =>
                           run'[attempt[c].run].status = "completed"
<1>1. IInv /\ [Next]_vars => Stand
  <2> SUFFICES ASSUME IInv, [Next]_vars, NEW c \in Claims, attempt[c].fin # 0
               PROVE  /\ attempt'[c] = attempt[c]
                      /\ attempt[c].status = "completed" =>
                           run'[attempt[c].run].status = "completed"
    OBVIOUS
  <2>1. RowsStep /\ Finalized /\ AttemptsNumbered
    BY Inductive DEF IInv, RowInv
  <2> QED BY <2>1 DEF RowsStep, Finalized, AttemptsNumbered
<1> QED BY <1>1, IInvHolds, PTL DEF Spec, ResultsStand

\* The terminal session never goes back from a later attempt of a run to an
\* earlier one (UpdateWorkerSessionForFinalization).
THEOREM SessionsGoForward == Spec => SessionKeepsNewest
<1> DEFINE Forward == session'.by # session.by /\ session.by # NoClaim /\ session'.by # NoClaim
                        /\ attempt[session.by].run = attempt[session'.by].run
                      => attempt[session'.by].no > attempt[session.by].no
<1>1. IInv /\ [Next]_vars => Forward
  <2> SUFFICES ASSUME IInv, [Next]_vars, session'.by # session.by
               PROVE  session.by # NoClaim /\ session'.by # NoClaim
                        /\ attempt[session.by].run = attempt[session'.by].run
                      => attempt[session'.by].no > attempt[session.by].no
    OBVIOUS
  <2>1. session \in [run : Runs \cup {NoRun}, by : Claims \cup {NoClaim}]
    BY DEF IInv, TypeOK
  <2>2. \E c \in Claims : /\ session'.by = c /\ attempt[c].status # "absent"
                          /\ attempt[c].no >= run[attempt[c].run].attempts
    <3>1. ASSUME NEW c \in Claims, PersistSession(c)
          PROVE  /\ session'.by = c /\ attempt[c].status # "absent"
                 /\ attempt[c].no >= run[attempt[c].run].attempts
      <4>1. session'.by = c
        BY <2>1, <3>1 DEF PersistSession
      <4>2. attempt[c].status = "claimed" /\ attempt[c].no = run[attempt[c].run].attempts
        BY <3>1 DEF PersistSession, Leased, IInv, RowInv, LeasesPaired
      <4>3. attempt[c].no \in Nat
        BY DEF IInv, TypeOK, AttemptRow
      <4> QED BY <4>1, <4>2, <4>3
    <3>2. ASSUME NEW k \in Calls, SaveSession(k[1], k[2], k[3])
          PROVE  /\ session'.by = k[1] /\ attempt[k[1]].status # "absent"
                 /\ attempt[k[1]].no >= run[attempt[k[1]].run].attempts
      <4>1. /\ k[1] \in Claims /\ k[2] \in {1, 2} /\ k[3] \in Tries
            /\ k = <<k[1], k[2], k[3]>>
        BY DEF Calls
      <4>2. attempt[k[1]].fin = k[2]
        BY <3>2, <4>1 DEF SaveSession, IInv, StagesDone, StageDone
      <4>3. attempt[k[1]].status # "absent" /\ attempt[k[1]].run \in Runs
        BY <4>1, <4>2 DEF IInv, RowInv, Finalized, AttemptsNumbered
      <4>4. attempt[k[1]].no \in Nat /\ run[attempt[k[1]].run].attempts \in Nat
        BY <4>1, <4>3 DEF IInv, TypeOK, AttemptRow, RunRow
      <4>5. session'.by = k[1] /\ ~Superseded(k[1])
        BY <2>1, <3>2 DEF SaveSession
      <4> QED BY <4>3, <4>4, <4>5 DEF Superseded
    <3>3. ASSUME NEW r \in Runs, CreateRun(r) \/ CancelRun(r) \/ Tick(r)
          PROVE  FALSE
      BY <3>3 DEF CreateRun, CancelRun, Tick, LeaseAges, BackoffElapses
    <3>4. ASSUME NEW c \in Claims, ServePoll(c) \/ Work(c) \/ Heartbeat(c)
          PROVE  FALSE
      BY <2>1, <3>4 DEF ServePoll, ClaimNext, OpenSession, Deliver, Release, Work, Acknowledge,
                        LeaseLost, Finish, Heartbeat, db
    <3>5. ASSUME NEW k \in Calls, \/ Commit(k[1], k[2], k[3]) \/ FollowUp(k[1], k[2], k[3])
                                  \/ StepFails(k)
          PROVE  FALSE
      BY <3>5 DEF Commit, FollowUp, StepFails, db
    <3>6. CASE \/ Poll \/ PollEmpty \/ GiveUpPoll \/ Answer \/ AnswerLost
               \/ ServerRestart \/ ClientCrash \/ UNCHANGED vars
      BY <3>6
      DEF Poll, PollEmpty, GiveUpPoll, Answer, AnswerLost, ServerRestart, ClientCrash, db, vars
    <3>7. \A k \in Calls : k[1] \in Claims
      BY DEF Calls
    <3> QED BY <3>1, <3>2, <3>3, <3>4, <3>5, <3>6, <3>7 DEF Next, ServeCall
  <2>3. ASSUME NEW c \in Claims, session'.by = c, attempt[c].status # "absent",
               attempt[c].no >= run[attempt[c].run].attempts,
               session.by # NoClaim, attempt[session.by].run = attempt[c].run
        PROVE  attempt[c].no > attempt[session.by].no
    <3>1. PICK b \in Claims : b = session.by
      BY <2>1, <2>3
    <3>2. b # c /\ attempt[b].status # "absent" /\ attempt[b].run = attempt[c].run
      BY <2>3, <3>1 DEF IInv, SessionWritten
    <3>3. /\ attempt[b].run \in Runs /\ attempt[b].no <= run[attempt[b].run].attempts
          /\ attempt[b].no # attempt[c].no
      BY <2>3, <3>2 DEF IInv, RowInv, AttemptsNumbered
    <3>4. attempt[b].no \in Nat /\ attempt[c].no \in Nat /\ run[attempt[b].run].attempts \in Nat
      BY <3>3 DEF IInv, TypeOK, AttemptRow, RunRow
    <3> QED BY <2>3, <3>1, <3>2, <3>3, <3>4
  <2> QED BY <2>2, <2>3
<1> QED BY <1>1, IInvHolds, PTL DEF Spec, SessionKeepsNewest

--------------------------------------------------------------------------------
(* The queue of LeasedWork *)

Kept(r)      == run'[r].status = run[r].status /\ run'[r].claim = run[r].claim
Queued(r)    == run[r].status = "absent" /\ run'[r].status = "queued" /\ run'[r].claim = NoClaim
Returned(r)  == /\ run[r].status = "claimed" /\ run'[r].claim = NoClaim
                /\ run'[r].status \in {"queued", "retry_wait", "awaiting_input", "completed"}
Cancelled(r) == /\ run[r].status \in Unfinished /\ run'[r].status = "cancelled"
                /\ run'[r].claim = NoClaim

\* No lease is handed out.
NoNewLease ==
  /\ \A r \in Runs : Kept(r) \/ Queued(r) \/ Returned(r) \/ Cancelled(r)
  /\ \A c \in Claims : attempt'[c].status = "absent" <=> attempt[c].status = "absent"

LEMMA QuietStep ==
  ASSUME RowInv, RowInv', NoNewLease
  PROVE  Queue!Next
<1>1. ASSUME NEW r \in Runs
      PROVE  /\ JobState(run'[r].status) \in Queue!States
             /\ run'[r].claim \in Claims \cup {NoClaim}
  BY DEF RowInv, RowTypes, RunRow, RunStatuses, JobState, Queue!States
<1>2. ASSUME NEW r \in Runs
      PROVE  ~Queue!Granted(r)
  <2>1. run[r].claim \in Claims => attempt[run[r].claim].status # "absent"
    BY ProtocolAssumption DEF RowInv, LeasesPaired
  <2>2. run'[r].claim = run[r].claim \/ run'[r].claim = NoClaim
    BY DEF NoNewLease, Kept, Queued, Returned, Cancelled
  <2>3. run'[r].claim \notin Claims \ {c \in Claims : attempt[c].status # "absent"}
    BY <2>1, <2>2, ProtocolAssumption
  <2> QED BY <2>3 DEF Queue!Granted
<1>3. ASSUME NEW r \in Runs
      PROVE  Queue!Stays(r) \/ Queue!Enqueued(r) \/ Queue!Settled(r) \/ Queue!Withdrawn(r)
  <2>1. CASE Kept(r)
    BY <2>1 DEF Kept, Queue!Stays
  <2>2. CASE Queued(r)
    BY <2>2 DEF Queued, Queue!Enqueued, JobState
  <2>3. CASE Returned(r)
    BY <2>3 DEF Returned, Queue!Settled, JobState
  <2>4. CASE Cancelled(r)
    BY <2>4 DEF Cancelled, Queue!Withdrawn, JobState, Unfinished
  <2> QED BY <2>1, <2>2, <2>3, <2>4 DEF NoNewLease
<1>4. {c \in Claims : attempt[c].status # "absent"}' = {c \in Claims : attempt[c].status # "absent"}
  BY DEF NoNewLease
<1> HIDE DEF JobState
<1>5. /\ [r \in Runs |-> JobState(run[r].status)]' \in [Runs -> Queue!States]
      /\ [r \in Runs |-> run[r].claim]' \in [Runs -> Claims \cup {NoClaim}]
  BY <1>1
<1>6. {r \in Runs : Queue!Granted(r)} = {}
  BY <1>2
<1> QED BY <1>2, <1>3, <1>4, <1>5, <1>6 DEF Queue!Next

LEMMA ClaimStep ==
  ASSUME RowInv, RowInv', NEW r \in Runs, NEW c \in Claims, ClaimNext(r, c)
  PROVE  Queue!Next
<1>1. run \in [Runs -> RunRow] /\ attempt \in [Claims -> AttemptRow]
  BY DEF RowInv, RowTypes
<1>2. attempt[c].status = "absent" /\ run[r].status \in {"queued", "retry_wait", "claimed"}
  BY DEF ClaimNext, Fresh, Offerable
<1>3. /\ run'[r].status = "claimed" /\ run'[r].claim = c
      /\ \A q \in Runs : q # r => run'[q] = run[q]
  BY <1>1 DEF ClaimNext, RunRow
<1>4. Queue!Granted(r)
  BY <1>2, <1>3 DEF Queue!Granted, JobState
<1>5. ASSUME NEW q \in Runs, q # r
      PROVE  Queue!Stays(q) /\ ~Queue!Granted(q)
  <2>1. run[q].claim \in Claims => attempt[run[q].claim].status # "absent"
    BY ProtocolAssumption DEF RowInv, LeasesPaired
  <2>2. run'[q] = run[q]
    BY <1>3, <1>5
  <2> QED BY <2>1, <2>2 DEF Queue!Stays, Queue!Granted
<1>6. ASSUME NEW q \in Runs
      PROVE  /\ JobState(run'[q].status) \in Queue!States
             /\ run'[q].claim \in Claims \cup {NoClaim}
  BY DEF RowInv, RowTypes, RunRow, RunStatuses, JobState, Queue!States
<1>7. \A b \in Claims : attempt'[b].status # "absent" <=> b = c \/ attempt[b].status # "absent"
  <2>1. ASSUME NEW b \in Claims, b # c, b = run[r].claim
        PROVE  attempt'[b].status = "expired" /\ attempt[b].status # "absent"
    <3>1. attempt[b].status = "claimed"
      BY <2>1, ProtocolAssumption DEF RowInv, LeasesPaired
    <3>2. attempt'[b] = [attempt[b] EXCEPT !.status = "expired"]
      BY <2>1 DEF ClaimNext
    <3> QED BY <1>1, <3>1, <3>2 DEF AttemptRow
  <2>2. ASSUME NEW b \in Claims, b # c, b # run[r].claim
        PROVE  attempt'[b] = attempt[b]
    BY <2>2 DEF ClaimNext
  <2>3. attempt'[c].status = "claimed"
    BY DEF ClaimNext
  <2> QED BY <2>1, <2>2, <2>3
<1>8. {q \in Runs : Queue!Granted(q)} = {r}
  BY <1>4, <1>5
<1>9. {b \in Claims : attempt[b].status # "absent"}'
        = {b \in Claims : attempt[b].status # "absent"} \cup {c}
  BY <1>7
<1> HIDE DEF JobState
<1>10. /\ [q \in Runs |-> JobState(run[q].status)]' \in [Runs -> Queue!States]
       /\ [q \in Runs |-> run[q].claim]' \in [Runs -> Claims \cup {NoClaim}]
  BY <1>6
<1>11. {[q \in Runs |-> run[q].claim]'[j] : j \in {q \in Runs : Queue!Granted(q)}} = {c}
  BY <1>3, <1>8
<1> QED BY <1>4, <1>5, <1>8, <1>9, <1>10, <1>11 DEF Queue!Next

LEMMA QueueNext ==
  ASSUME TypeOK, RowInv, RowsStep, StagesDone, [Next]_vars
  PROVE  NoNewLease \/ \E r \in Runs, c \in Claims : ClaimNext(r, c)
<1>1. run \in [Runs -> RunRow] /\ attempt \in [Claims -> AttemptRow]
  BY DEF TypeOK
<1>2. CASE UNCHANGED <<run, attempt>>
  BY <1>2 DEF NoNewLease, Kept
<1>3. ASSUME NEW r \in Runs, CreateRun(r) \/ CancelRun(r) \/ Tick(r)
      PROVE  NoNewLease
  <2>1. CASE CreateRun(r)
    <3>1. run[r].status = "absent" /\ run' = [run EXCEPT ![r] = [run[r] EXCEPT
                                                !.status = "queued", !.ready = TRUE]]
      BY <2>1 DEF CreateRun
    <3>2. run'[r].status = "queued" /\ run'[r].claim = NoClaim
      BY <1>1, <3>1 DEF RunRow, RowInv, LeasesPaired
    <3>3. \A q \in Runs : q # r => run'[q] = run[q]
      BY <3>1
    <3> QED BY <2>1, <3>1, <3>2, <3>3 DEF CreateRun, NoNewLease, Kept, Queued
  <2>2. CASE CancelRun(r)
    <3>1. /\ run[r].status \in Unfinished
          /\ run'[r].status = "cancelled" /\ run'[r].claim = NoClaim
          /\ \A q \in Runs : q # r => run'[q] = run[q]
      BY <1>1, <2>2 DEF CancelRun, Ended, RunRow
    <3>2. \A c \in Claims : attempt'[c].status = "absent" <=> attempt[c].status = "absent"
      BY <1>1, <2>2 DEF CancelRun, AttemptRow
    <3> QED BY <3>1, <3>2 DEF NoNewLease, Kept, Cancelled
  <2>3. CASE Tick(r)
    <3>1. attempt' = attempt
      BY <2>3 DEF Tick, LeaseAges, BackoffElapses
    <3>2. \A q \in Runs : Kept(q)
      <4>1. CASE LeaseAges(r)
        <5>1. run' = [run EXCEPT ![r] = [run[r] EXCEPT !.age =
                                    IF run[r].age = "fresh" THEN "overdue" ELSE "stale"]]
          BY <4>1 DEF LeaseAges
        <5> QED BY <1>1, <5>1 DEF Kept, RunRow
      <4>2. CASE BackoffElapses(r)
        <5>1. run' = [run EXCEPT ![r] = [run[r] EXCEPT !.ready = TRUE]]
          BY <4>2 DEF BackoffElapses
        <5> QED BY <1>1, <5>1 DEF Kept, RunRow
      <4> QED BY <2>3, <4>1, <4>2 DEF Tick
    <3> QED BY <3>1, <3>2 DEF NoNewLease
  <2> QED BY <1>3, <2>1, <2>2, <2>3
<1>4. ASSUME NEW c \in Claims, Leased(c), Renewed(c)
      PROVE  NoNewLease
  <2>1. PICK r \in Runs : r = attempt[c].run
    BY <1>4 DEF Leased
  <2>2. run' = [run EXCEPT ![r] = [run[r] EXCEPT !.age = "fresh"]]
    BY <1>4, <2>1 DEF Renewed
  <2>3. \A q \in Runs : Kept(q)
    BY <1>1, <2>2 DEF Kept, RunRow
  <2>4. attempt' = [attempt EXCEPT ![c] = [attempt[c] EXCEPT !.acked = TRUE]]
    BY <1>4 DEF Renewed
  <2>5. \A d \in Claims : attempt'[d].status = attempt[d].status
    BY <1>1, <2>4 DEF AttemptRow
  <2> QED BY <2>3, <2>5 DEF NoNewLease
\* The lease of claim c ends.
<1>5. ASSUME NEW c \in Claims, Leased(c), NEW row, NEW over,
             run' = [run EXCEPT ![attempt[c].run] = row], attempt' = [attempt EXCEPT ![c] = over],
             row.status \in {"queued", "retry_wait", "awaiting_input", "completed"},
             row.claim = NoClaim
      PROVE  NoNewLease
  <2>1. PICK r \in Runs : r = attempt[c].run
    BY <1>5 DEF Leased
  <2>2. /\ run[r].status = "claimed" /\ attempt[c].status = "claimed"
        /\ run'[r] = row /\ \A q \in Runs : q # r => run'[q] = run[q]
        /\ \A d \in Claims : d # c => attempt'[d] = attempt[d]
    BY <1>1, <1>5, <2>1 DEF Leased
  <2>3. attempt'[c].status # "absent"
    BY <2>2 DEF RowsStep
  <2> QED BY <1>5, <2>2, <2>3 DEF NoNewLease, Kept, Returned
<1>6. ASSUME NEW c \in Claims, Release(c), ~UNCHANGED <<run, attempt>>
      PROVE  NoNewLease
  <2> DEFINE row  == [Ended(attempt[c].run, "queued") EXCEPT !.ready = TRUE]
             over == [attempt[c] EXCEPT !.status = "released"]
  <2>1. /\ Leased(c)
        /\ run' = [run EXCEPT ![attempt[c].run] = row]
        /\ attempt' = [attempt EXCEPT ![c] = over]
    BY <1>6 DEF Release
  <2>2. run[attempt[c].run] \in RunRow
    BY <1>1, <2>1 DEF Leased
  <2>3. row.status = "queued" /\ row.claim = NoClaim
    BY <2>2 DEF Ended, RunRow
  <2> HIDE DEF row, over
  <2> QED BY <1>5, <2>1, <2>3
<1>7. ASSUME NEW k \in Calls, Commit(k[1], k[2], k[3]), ~UNCHANGED <<run, attempt>>
      PROVE  NoNewLease
  <2>1. PICK c \in Claims, fin \in {1, 2}, try \in Tries :
          k[1] = c /\ k[2] = fin /\ k[3] = try /\ k = <<c, fin, try>>
    BY DEF Calls
  <2> DEFINE kind == KindOf(c, fin)
             row  == Outcome(attempt[c].run, kind)
             over == [attempt[c] EXCEPT !.status = row.status, !.fin = fin]
  <2>2. asked[c] # "none" /\ asked[c] \in Kinds \cup {"none"}
    BY <1>7, <2>1 DEF Commit, StagesDone, StageDone, TypeOK
  <2>3. /\ Leased(c) /\ kind \in {"complete", "input", "fail"}
        /\ run' = [run EXCEPT ![attempt[c].run] = row]
        /\ attempt' = [attempt EXCEPT ![c] = over]
    BY <1>7, <2>1, <2>2 DEF Commit, Kinds, KindOf
  <2>4. run[attempt[c].run] \in RunRow
    BY <1>1, <2>3 DEF Leased
  <2> HIDE DEF kind
  <2>5. row.claim = NoClaim /\ row.status \in {"retry_wait", "awaiting_input", "completed"}
    BY <2>3, <2>4 DEF Outcome, Ended, RunRow
  <2> HIDE DEF row, over
  <2> QED BY <1>5, <2>3, <2>5
<1>8. ASSUME NEW c \in Claims, ServePoll(c) \/ Work(c) \/ Heartbeat(c) \/ PersistSession(c),
             ~UNCHANGED <<run, attempt>>
      PROVE  NoNewLease \/ \E r \in Runs, d \in Claims : ClaimNext(r, d)
  <2>1. \/ \E r \in Runs : ClaimNext(r, c)
        \/ Release(c)
        \/ Leased(c) /\ Renewed(c)
    BY <1>8 DEF ServePoll, OpenSession, Deliver, Work, Acknowledge, LeaseLost, Finish, Heartbeat,
                PersistSession, db
  <2> QED BY <1>4, <1>6, <1>8, <2>1
<1>9. ASSUME NEW k \in Calls, ServeCall(k) \/ StepFails(k), ~UNCHANGED <<run, attempt>>
      PROVE  NoNewLease
  BY <1>7, <1>9 DEF ServeCall, SaveSession, FollowUp, StepFails, db
<1>10. CASE \/ Poll \/ PollEmpty \/ GiveUpPoll \/ Answer \/ AnswerLost
            \/ ServerRestart \/ ClientCrash \/ UNCHANGED vars
  <2>1. UNCHANGED <<run, attempt>>
    BY <1>10
    DEF Poll, PollEmpty, GiveUpPoll, Answer, AnswerLost, ServerRestart, ClientCrash, db, vars
  <2> QED BY <1>2, <2>1
<1> QED BY <1>2, <1>3, <1>8, <1>9, <1>10 DEF Next

\* Whatever requests are lost, repeated or late and whichever process restarts,
\* the protocol hands out and settles runs as the queue of LeasedWork does.
THEOREM ProtocolImplementsQueue == Spec => ImplementsLeasedWork
<1>1. Init => Queue!Init
  BY DEF Init, Queue!Init, JobState, BlankRun, BlankAttempt
<1>2. IInv /\ [Next]_vars => [Queue!Next]_(Queue!vars)
  <2> SUFFICES ASSUME IInv, [Next]_vars
               PROVE  Queue!Next
    OBVIOUS
  <2>1. TypeOK /\ RowInv /\ RowInv' /\ RowsStep /\ StagesDone
    BY Inductive DEF IInv
  <2> QED BY <2>1, QueueNext, QuietStep, ClaimStep
<1> QED BY <1>1, <1>2, IInvHolds, PTL DEF Spec, ImplementsLeasedWork, Queue!Spec

--------------------------------------------------------------------------------
(* The failures a run is charged with *)

FinalizedAsked == \A c \in Claims : attempt[c].fin # 0 => asked[c] # "none"

Failed(r) ==
  {c \in Claims : attempt[c].run = r /\ attempt[c].fin # 0 /\ KindOf(c, attempt[c].fin) = "fail"}

FailuresAreReports == \A r \in Runs : run[r].failures = Cardinality(Failed(r))

\* A step that finalizes nothing.
NoReport ==
  /\ \A c \in Claims : attempt[c].fin = 0 => attempt'[c].fin = 0
  /\ \A c \in Claims : attempt[c].fin # 0 => asked'[c] = asked[c]
  /\ \A r \in Runs : run'[r].failures = run[r].failures

\* A step that applies finalization fin of claim c.
Reported(c, fin) ==
  /\ Leased(c)
  /\ KindOf(c, fin) \in {"complete", "input", "fail"} /\ asked[c] # "none"
  /\ run' = [run EXCEPT ![attempt[c].run] = Outcome(attempt[c].run, KindOf(c, fin))]
  /\ attempt' = [attempt EXCEPT ![c] =
                   [attempt[c] EXCEPT !.status = Outcome(attempt[c].run, KindOf(c, fin)).status,
                                      !.fin = fin]]
  /\ asked' = asked

LEMMA EndedFailures ==
  ASSUME run \in [Runs -> RunRow], NEW r \in Runs, NEW status
  PROVE  /\ Ended(r, status).failures = run[r].failures
         /\ [Ended(r, status) EXCEPT !.ready = TRUE].failures = run[r].failures
BY DEF Ended, RunRow

LEMMA ReportsNext ==
  ASSUME IInv, FinalizedAsked, [Next]_vars
  PROVE  NoReport \/ \E c \in Claims, fin \in {1, 2} : Reported(c, fin)
<1>1. run \in [Runs -> RunRow] /\ attempt \in [Claims -> AttemptRow] /\ RowsStep
  BY Inductive DEF IInv, TypeOK
<1>2. ASSUME UNCHANGED <<run, attempt, asked>>
      PROVE  NoReport
  BY <1>2 DEF NoReport
<1>3. ASSUME NEW r \in Runs, CreateRun(r) \/ CancelRun(r) \/ Tick(r)
      PROVE  NoReport
  <2>1. asked' = asked
    BY <1>3 DEF CreateRun, CancelRun, Tick, LeaseAges, BackoffElapses
  <2>2. \A q \in Runs : run'[q].failures = run[q].failures
    <3>1. CASE CancelRun(r)
      <4>1. run' = [run EXCEPT ![r] = Ended(r, "cancelled")]
        BY <3>1 DEF CancelRun
      <4> QED BY <1>1, <4>1, EndedFailures
    <3>2. CASE CreateRun(r) \/ Tick(r)
      BY <1>1, <3>2 DEF CreateRun, Tick, LeaseAges, BackoffElapses, RunRow
    <3> QED BY <1>3, <3>1, <3>2
  <2>3. \A c \in Claims : attempt'[c].fin = attempt[c].fin
    BY <1>1, <1>3 DEF CreateRun, CancelRun, Tick, LeaseAges, BackoffElapses, AttemptRow
  <2> QED BY <2>1, <2>2, <2>3 DEF NoReport
<1>4. ASSUME NEW c \in Claims, ServePoll(c)
      PROVE  NoReport
  <2>1. asked' = asked
    BY <1>4 DEF ServePoll, ClaimNext, OpenSession, Deliver, Release
  <2>2. ASSUME NEW r \in Runs, ClaimNext(r, c)
        PROVE  NoReport
    <3>1. \A q \in Runs : run'[q].failures = run[q].failures
      BY <1>1, <2>2 DEF ClaimNext, RunRow
    <3>2. \A d \in Claims : attempt[d].fin = 0 => attempt'[d].fin = 0
      BY <1>1, <2>2 DEF ClaimNext, AttemptRow
    <3> QED BY <2>1, <3>1, <3>2 DEF NoReport
  <2>3. CASE OpenSession(c) \/ Deliver(c)
    BY <1>2, <2>1, <2>3 DEF OpenSession, Deliver, db
  <2>4. CASE Release(c)
    <3>1. \A q \in Runs : run'[q].failures = run[q].failures
      <4>1. CASE UNCHANGED run
        BY <4>1
      <4>2. CASE ~UNCHANGED run
        <5>1. PICK r \in Runs : run' = [run EXCEPT ![r] = [Ended(r, "queued") EXCEPT !.ready = TRUE]]
          BY <2>4, <4>2 DEF Release, Leased
        <5> QED BY <1>1, <5>1, EndedFailures
      <4> QED BY <4>1, <4>2
    <3>2. \A d \in Claims : attempt'[d].fin = attempt[d].fin
      BY <1>1, <2>4 DEF Release, AttemptRow
    <3> QED BY <2>1, <3>1, <3>2 DEF NoReport
  <2> QED BY <1>4, <2>2, <2>3, <2>4 DEF ServePoll
<1>5. ASSUME NEW c \in Claims, Work(c) \/ Heartbeat(c) \/ PersistSession(c)
      PROVE  NoReport
  <2>1. CASE Leased(c) /\ Renewed(c) /\ UNCHANGED asked
    <3>1. \A q \in Runs : run'[q].failures = run[q].failures
      BY <1>1, <2>1 DEF Renewed, Leased, RunRow
    <3>2. \A d \in Claims : attempt'[d].fin = attempt[d].fin
      BY <1>1, <2>1 DEF Renewed, AttemptRow
    <3> QED BY <2>1, <3>1, <3>2 DEF NoReport
  <2>2. ASSUME NEW kind \in Kinds, Finish(c, kind)
        PROVE  NoReport
    <3>1. client.claim = c /\ client.phase = "working"
          /\ asked' = [asked EXCEPT ![c] = kind] /\ UNCHANGED <<run, attempt>>
      BY <2>2 DEF Finish, db
    <3>2. attempt[c].fin = 0
      <4>1. asked[c] = "none"
        BY <3>1, ProtocolAssumption DEF IInv, ClaimsFresh, NotYetReported
      <4> QED BY <4>1 DEF FinalizedAsked
    <3> QED BY <3>1, <3>2 DEF NoReport, IInv, TypeOK
  <2>3. \/ Leased(c) /\ Renewed(c) /\ UNCHANGED asked
        \/ UNCHANGED <<run, attempt, asked>>
        \/ \E kind \in Kinds : Finish(c, kind)
    BY <1>5 DEF Work, Acknowledge, LeaseLost, Heartbeat, PersistSession, db
  <2> QED BY <1>2, <2>1, <2>2, <2>3
<1>6. ASSUME NEW k \in Calls, ServeCall(k) \/ StepFails(k)
      PROVE  NoReport \/ \E c \in Claims, fin \in {1, 2} : Reported(c, fin)
  <2>1. CASE UNCHANGED <<run, attempt, asked>>
    BY <1>2, <2>1
  <2>2. CASE ~UNCHANGED <<run, attempt, asked>>
    <3>1. PICK c \in Claims, fin \in {1, 2}, try \in Tries : Commit(c, fin, try)
      BY <1>6, <2>2 DEF ServeCall, SaveSession, FollowUp, StepFails, Calls, db
    <3>2. asked[c] # "none" /\ asked[c] \in Kinds \cup {"none"}
      BY <3>1 DEF Commit, IInv, StagesDone, StageDone, TypeOK
    <3>3. ~UNCHANGED <<run, attempt>> /\ asked' = asked
      BY <2>2, <3>1 DEF Commit
    <3>4. KindOf(c, fin) \in {"complete", "input", "fail"}
      BY <3>1, <3>2, <3>3 DEF Commit, KindOf, Kinds
    <3>5. Reported(c, fin)
      BY <3>1, <3>2, <3>3, <3>4 DEF Commit, Reported
    <3> QED BY <3>5
  <2> QED BY <2>1, <2>2
<1>7. CASE \/ Poll \/ PollEmpty \/ GiveUpPoll \/ Answer \/ AnswerLost
           \/ ServerRestart \/ ClientCrash \/ UNCHANGED vars
  <2>1. UNCHANGED <<run, attempt, asked>>
    BY <1>7
    DEF Poll, PollEmpty, GiveUpPoll, Answer, AnswerLost, ServerRestart, ClientCrash, db, vars
  <2> QED BY <1>2, <2>1
<1> QED BY <1>3, <1>4, <1>5, <1>6, <1>7 DEF Next

\* What a finalization is charged.
LEMMA Charges ==
  ASSUME IInv, NEW c \in Claims, NEW fin \in {1, 2}, Reported(c, fin)
  PROVE  /\ \A r \in Runs : run'[r].failures =
              run[r].failures + IF r = attempt[c].run /\ KindOf(c, fin) = "fail" THEN 1 ELSE 0
         /\ attempt'[c].fin = fin /\ attempt'[c].run = attempt[c].run
         /\ attempt[c].fin = 0 /\ attempt[c].run \in Runs
         /\ \A d \in Claims : d # c => attempt'[d] = attempt[d]
<1>1. run \in [Runs -> RunRow] /\ attempt \in [Claims -> AttemptRow]
  BY DEF IInv, TypeOK
<1>2. attempt[c].fin = 0 /\ attempt[c].run \in Runs
  BY DEF Reported, Leased, IInv, RowInv, Finalized
<1> DEFINE r == attempt[c].run
           kind == KindOf(c, fin)
<1>3. \A q \in Runs : run[q].failures \in Nat
  BY <1>1 DEF RunRow
<1>4. Outcome(r, kind).failures = run[r].failures + IF kind = "fail" THEN 1 ELSE 0
  <2> HIDE DEF r, kind
  <2>0. r \in Runs /\ run[r] \in RunRow
    BY <1>1, <1>2 DEF r
  <2>1. CASE kind \in {"complete", "input"}
    BY <1>1, <1>3, <2>0, <2>1, EndedFailures DEF Outcome
  <2>2. CASE kind = "fail"
    BY <1>3, <2>0, <2>2 DEF Outcome, Ended, RunRow
  <2>3. kind \in {"complete", "input", "fail"}
    BY DEF Reported, kind
  <2> QED BY <2>1, <2>2, <2>3
<1>5. run' = [run EXCEPT ![r] = Outcome(r, kind)]
  BY DEF Reported
<1>6. \A q \in Runs : run'[q].failures = run[q].failures + IF q = r /\ kind = "fail" THEN 1 ELSE 0
  <2> HIDE DEF r, kind
  <2> QED BY <1>1, <1>3, <1>4, <1>5
<1>7. /\ attempt'[c].fin = fin /\ attempt'[c].run = attempt[c].run
      /\ \A d \in Claims : d # c => attempt'[d] = attempt[d]
  BY <1>1 DEF Reported, AttemptRow
<1> QED BY <1>2, <1>6, <1>7

LEMMA FailuresNext ==
  ASSUME IInv, FinalizedAsked, FailuresAreReports, [Next]_vars
  PROVE  FinalizedAsked' /\ FailuresAreReports'
<1>1. RowsStep /\ Finalized
  BY Inductive DEF IInv, RowInv
<1>2. \A c \in Claims : attempt[c].fin # 0 => attempt'[c] = attempt[c]
  BY <1>1 DEF RowsStep, Finalized
<1>3. CASE NoReport
  <2>1. FinalizedAsked'
    BY <1>2, <1>3 DEF NoReport, FinalizedAsked
  <2>2. ASSUME NEW r \in Runs
        PROVE  Failed(r)' = Failed(r)
    BY <1>2, <1>3 DEF NoReport, Failed, KindOf
  <2> QED BY <1>3, <2>1, <2>2 DEF FailuresAreReports, NoReport
<1>4. ASSUME NEW c \in Claims, NEW fin \in {1, 2}, Reported(c, fin)
      PROVE  FinalizedAsked' /\ FailuresAreReports'
  <2>1. asked' = asked /\ asked[c] # "none"
    BY <1>4 DEF Reported
  <2>2. FinalizedAsked'
    BY <1>4, <2>1, Charges DEF FinalizedAsked
  <2>3. ASSUME NEW r \in Runs
        PROVE  run'[r].failures = Cardinality(Failed(r)')
    <3>1. IsFiniteSet(Failed(r)) /\ c \notin Failed(r)
      <4>1. IsFiniteSet(Claims)
        BY FS_Interval, ProtocolAssumption DEF Claims
      <4>2. IsFiniteSet(Failed(r))
        BY <4>1, FS_Subset DEF Failed
      <4>3. c \notin Failed(r)
        BY <1>4, Charges DEF Failed
      <4> QED BY <4>2, <4>3
    <3>2. CASE r = attempt[c].run /\ KindOf(c, fin) = "fail"
      <4>1. Failed(r)' = Failed(r) \cup {c}
        BY <1>4, <2>1, <3>2, Charges DEF Failed, KindOf
      <4>2. Cardinality(Failed(r) \cup {c}) = Cardinality(Failed(r)) + 1
        BY <3>1, FS_AddElement
      <4>3. run'[r].failures = run[r].failures + 1
        BY <1>4, <3>2, Charges
      <4> QED BY <4>1, <4>2, <4>3 DEF FailuresAreReports
    <3>3. CASE ~(r = attempt[c].run /\ KindOf(c, fin) = "fail")
      <4>1. Failed(r)' = Failed(r)
        BY <1>4, <2>1, <3>3, Charges DEF Failed, KindOf
      <4>2. run'[r].failures = run[r].failures
        <5>1. run[r].failures \in Nat
          BY DEF IInv, TypeOK, RunRow
        <5> QED BY <1>4, <3>3, <5>1, Charges
      <4> QED BY <4>1, <4>2 DEF FailuresAreReports
    <3> QED BY <3>2, <3>3
  <2> QED BY <2>2, <2>3 DEF FailuresAreReports
<1> QED BY <1>3, <1>4, ReportsNext

\* A run is charged with its failure reports, each once, and with nothing else,
\* and goes on only below workerMaxFailures (FailWorkerRun).
THEOREM FailuresAreCounted == Spec => []FailuresCounted
<1>1. Init => FinalizedAsked /\ FailuresAreReports
  <2> SUFFICES ASSUME Init
               PROVE  FinalizedAsked /\ FailuresAreReports
    OBVIOUS
  <2>1. \A c \in Claims : attempt[c].fin = 0
    BY DEF Init, BlankAttempt
  <2>2. \A r \in Runs : run[r].failures = 0 /\ Failed(r) = {}
    BY <2>1 DEF Init, BlankRun, Failed
  <2> QED BY <2>1, <2>2, FS_EmptySet DEF FinalizedAsked, FailuresAreReports
<1>2. IInv /\ FinalizedAsked /\ FailuresAreReports /\ [Next]_vars
        => FinalizedAsked' /\ FailuresAreReports'
  BY FailuresNext
<1>3. IInv /\ FailuresAreReports => FailuresCounted
  <2> SUFFICES ASSUME IInv, FailuresAreReports, NEW r \in Runs
               PROVE  /\ run[r].failures = Cardinality(Failed(r))
                      /\ run[r].failures = MaxFailures =>
                           run[r].status \in {"awaiting_input", "cancelled"}
    BY DEF FailuresCounted, Failed
  <2>1. MaxFailures \in Nat
    BY ProtocolAssumption
  <2> QED BY <2>1 DEF FailuresAreReports, IInv, RowInv, FailuresLeft
<1> QED BY <1>1, <1>2, <1>3, IInvHolds, PTL DEF Spec
================================================================================
