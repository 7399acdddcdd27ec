---------------------------- MODULE KnowledgeProofs ----------------------------
(***************************************************************************)
(* Proofs about what the company's material becomes: the index of files,   *)
(* the knowledge and its points, the event monitor of a group, the files   *)
(* that are uploaded, and the summary of a conversation.  Each component   *)
(* is proved on its own: the types of its rows and copies, the invariant   *)
(* that makes its property inductive, one lemma per operation, and the     *)
(* theorem.  The theorems hold for every number of indexers, embedders,    *)
(* analyses, uploads and folds at a time, and for every bound of the       *)
(* model.                                                                  *)
(***************************************************************************)
EXTENDS FileStore, FileIndex, Knowledge, GroupMonitor, Transcript,
        FiniteSetTheorems, SequenceTheorems, WellFoundedInduction, TLAPS

--------------------------------------------------------------------------------
(* The index of files *)

IndexStates == {"none", "pending", "processing", "indexed", "empty", "failed", "unsupported",
                "unavailable", "gone"}
IndexRows == [status : IndexStates, tries : Nat, by : Nat, claim : Indexers \cup {0}, open : BOOLEAN]

IndexTypeOK ==
  /\ text \in [Documents -> IndexRows]
  /\ vector \in [Documents -> IndexRows]
  /\ indexer \in [Indexers -> [pc : {"idle", "extract", "embed", "mark"}, jobs : SUBSET [file : Documents, tries : Nat, by : Nat]]]
  /\ installed \in [extractors : Versions, model : Versions]
  /\ DOMAIN absences = Documents \X Versions

\* No row is ahead of the model that is installed.
NoneAhead == \A d \in Documents : vector[d].by <= installed.model

\* Whoever may mark a file as indexed by the model in use has written its points.
MarkersWrote ==
  \A i \in Indexers, d \in Documents :
    /\ indexer[i].pc = "mark" /\ JobOf(i).file = d
    /\ Owns(vector[d], i)
    /\ HasChunks(d) /\ vector[d].by = installed.model
    => <<d, installed.model>> \in chunkPoints

IndexInv == IndexTypeOK /\ NoneAhead /\ MarkersWrote /\ MarkedIsFindable

LEMMA IndexInitial == FileIndexInit => IndexInv
<1> SUFFICES ASSUME FileIndexInit PROVE IndexInv
  OBVIOUS
<1>1. IndexTypeOK
  BY FileIndexAssumption DEF FileIndexInit, IndexTypeOK, IndexRows, IndexStates, NewRow, NoPass, Versions
<1>2. NoneAhead
  BY DEF FileIndexInit, NoneAhead, NewRow
<1>3. MarkersWrote
  BY DEF FileIndexInit, MarkersWrote, NoPass
<1>4. MarkedIsFindable
  BY DEF FileIndexInit, MarkedIsFindable, HasChunks, NewRow
<1> QED BY <1>1, <1>2, <1>3, <1>4 DEF IndexInv

\* What a claim and the end of an exhausted row make of a row.
LEMMA ExhaustedRow ==
  ASSUME NEW was \in IndexRows, NEW v \in Nat
  PROVE  /\ ExhaustIndexRow(was, v) \in IndexRows
         /\ ExhaustIndexRow(was, v).by = was.by
         /\ ExhaustIndexRow(was, v) # was => ExhaustIndexRow(was, v).status = "failed"
BY DEF ExhaustIndexRow, IndexRows, IndexStates

LEMMA ClaimedRow ==
  ASSUME NEW was \in IndexRows, NEW v \in Nat, NEW i \in Indexers
  PROVE  /\ ClaimedBy(i, was, v) \in IndexRows
         /\ ClaimedBy(i, was, v).by = v
         /\ ClaimedBy(i, was, v).status = "processing"
         /\ ClaimedBy(i, was, v).claim = i
BY DEF ClaimedBy, IndexRows, IndexStates

\* How a step may change one file without making it findable or losing its points.
VectorKept(d) ==
  \/ vector'[d] = vector[d]
  \/ /\ vector'[d].status # "indexed" \/ text'[d].status # "indexed"
     /\ vector'[d].by <= installed.model
     /\ \A j \in Indexers : Owns(vector'[d], j) /\ indexer'[j].pc = "mark"
          => Owns(vector[d], j) /\ vector'[d].by = vector[d].by
TextKept(d) ==
  \/ text'[d].status = "indexed" => text[d].status = "indexed"
  \/ vector'[d].status \notin {"indexed", "processing"}
PointsKept(d) == HasChunks(d) /\ <<d, installed.model>> \in chunkPoints => <<d, installed.model>> \in chunkPoints'

LEMMA FileKept ==
  ASSUME IndexInv, IndexTypeOK', UNCHANGED installed,
         \A d \in Documents : VectorKept(d) /\ TextKept(d) /\ PointsKept(d),
         \A i \in Indexers : indexer'[i].pc = "mark" => indexer'[i] = indexer[i]
  PROVE  IndexInv'
<1> USE DEF IndexInv
<1>1. NoneAhead'
  BY DEF NoneAhead, VectorKept
<1>2. MarkersWrote'
  <2> SUFFICES ASSUME NEW i \in Indexers, NEW d \in Documents,
                      indexer'[i].pc = "mark", JobOf(i)'.file = d, Owns(vector'[d], i),
                      HasChunks(d)', vector'[d].by = installed.model
               PROVE  <<d, installed.model>> \in chunkPoints'
    BY DEF MarkersWrote
  <2>1. indexer'[i] = indexer[i] /\ JobOf(i)' = JobOf(i)
    BY DEF JobOf
  <2>2. HasChunks(d) /\ vector[d].by = installed.model /\ Owns(vector[d], i)
    BY DEF HasChunks, TextKept, VectorKept, Owns
  <2> QED BY <2>1, <2>2 DEF MarkersWrote, PointsKept
<1>3. MarkedIsFindable'
  <2> SUFFICES ASSUME NEW d \in Documents, HasChunks(d)', vector'[d].status = "indexed",
                      vector'[d].by = installed.model
               PROVE  <<d, installed.model>> \in chunkPoints'
    BY DEF MarkedIsFindable
  <2>1. HasChunks(d) /\ vector[d].by = installed.model /\ vector[d].status = "indexed"
    BY DEF HasChunks, TextKept, VectorKept
  <2> QED BY <2>1 DEF MarkedIsFindable, PointsKept
<1> QED BY <1>1, <1>2, <1>3

\* The model in use is a number, and so are the rows'.
LEMMA IndexTypes ==
  ASSUME IndexInv
  PROVE  /\ installed.model \in Nat /\ installed.extractors \in Nat
         /\ \A d \in Documents : text[d] \in IndexRows /\ vector[d] \in IndexRows
         /\ \A d \in Documents : vector[d].by \in Nat /\ vector[d].by <= installed.model
BY DEF IndexInv, IndexTypeOK, NoneAhead, IndexRows, Versions

Passes == [pc : {"idle", "extract", "embed", "mark"}, jobs : SUBSET [file : Documents, tries : Nat, by : Nat]]

LEMMA PassTypes ==
  ASSUME IndexInv, NEW i \in Indexers
  PROVE  /\ indexer[i] \in Passes /\ Without(i) \in Passes /\ Without(i).pc = indexer[i].pc
         /\ NextJob(i) \in Passes /\ NextJob(i).pc \in {"idle", "embed"}
         /\ NoPass \in Passes /\ NoPass.pc = "idle"
<1>1. indexer[i] \in Passes
  BY DEF IndexInv, IndexTypeOK, Passes, indexPoints
<1>2. Without(i) \in Passes /\ Without(i).pc = indexer[i].pc
  BY <1>1 DEF Without, Passes
<1>3. NoPass \in Passes /\ NoPass.pc = "idle"
  BY DEF NoPass, Passes
<1>4. NextJob(i) \in Passes /\ NextJob(i).pc \in {"idle", "embed"}
  <2> DEFINE w == Without(i)
  <2>1. [w EXCEPT !.pc = "embed"] \in Passes /\ [w EXCEPT !.pc = "embed"].pc = "embed"
    <3> HIDE DEF w
    <3> QED BY <1>2 DEF Passes, w
  <2> QED BY <1>3, <2>1 DEF NextJob
<1> QED BY <1>1, <1>2, <1>3, <1>4

\* A pass goes on to something else than marking.
LEMMA PassMoves ==
  ASSUME IndexInv, NEW i \in Indexers, NEW p \in Passes, Pass(i, p), p.pc # "mark"
  PROVE  /\ indexer' \in [Indexers -> Passes]
         /\ \A j \in Indexers : indexer'[j].pc = "mark" => indexer'[j] = indexer[j]
BY DEF Pass, IndexInv, IndexTypeOK, Passes

LEMMA ContentClaimSound ==
  ASSUME IndexInv, NEW i \in Indexers, ClaimFilesForContentIndex(i) PROVE IndexInv'
<1> DEFINE ended == [d \in Documents |-> ExhaustIndexRow(text[d], installed.extractors)]
           taken == FirstTwo({d \in Documents : TextIsDue(ended[d])})
           claimed(d) == ClaimedBy(i, ended[d], installed.extractors)
           p == [pc |-> "extract",
                 jobs |-> {[file |-> d, tries |-> claimed(d).tries, by |-> claimed(d).by] : d \in taken}]
<1>1. \A d \in Documents : ended[d] \in IndexRows
  BY IndexTypes, ExhaustedRow
<1>2. \A d \in Documents : claimed(d) \in IndexRows /\ claimed(d).status = "processing"
  BY <1>1, IndexTypes, ClaimedRow
<1>3. taken \subseteq Documents
  BY DEF FirstTwo
<1>4. /\ text' = [d \in Documents |-> IF d \in taken THEN claimed(d) ELSE ended[d]]
      /\ Pass(i, p)
      /\ UNCHANGED <<vector, indexPoints, installed>>
  BY DEF ClaimFilesForContentIndex
<1>5. p \in Passes /\ p.pc = "extract"
  <2>1. \A d \in taken : d \in Documents /\ claimed(d).tries \in Nat /\ claimed(d).by \in Nat
    BY <1>2, <1>3 DEF IndexRows
  <2> HIDE DEF claimed, taken
  <2> QED BY <2>1 DEF Passes
<1>6. \A d \in Documents : ended[d].status = "indexed" => text[d].status = "indexed"
  BY IndexTypes, ExhaustedRow
<1> HIDE DEF taken, ended, claimed, p
<1>7. text' \in [Documents -> IndexRows] /\ \A d \in Documents : TextKept(d)
  BY <1>1, <1>2, <1>4, <1>6 DEF TextKept
<1>8. indexer' \in [Indexers -> Passes] /\ \A j \in Indexers : indexer'[j].pc = "mark" => indexer'[j] = indexer[j]
  BY <1>4, <1>5, PassMoves
<1>9. IndexTypeOK'
  BY <1>4, <1>7, <1>8 DEF IndexInv, IndexTypeOK, Passes, indexPoints
<1> QED BY <1>4, <1>7, <1>8, <1>9, FileKept DEF VectorKept, PointsKept, indexPoints

LEMMA VectorClaimSound ==
  ASSUME IndexInv, NEW i \in Indexers, ClaimFilesForVectorIndex(i) PROVE IndexInv'
<1> DEFINE ended == [d \in Documents |-> ExhaustIndexRow(vector[d], installed.model)]
           taken == FirstTwo({d \in Documents : HasChunks(d) /\ VectorIsDue(ended[d])})
           claimed(d) == ClaimedBy(i, ended[d], installed.model)
           p == IF taken = {} THEN NoPass
                ELSE [pc |-> "embed",
                      jobs |-> {[file |-> d, tries |-> claimed(d).tries, by |-> claimed(d).by] : d \in taken}]
<1>1. \A d \in Documents : ended[d] \in IndexRows /\ ended[d].by = vector[d].by
                             /\ (ended[d] # vector[d] => ended[d].status = "failed")
  BY IndexTypes, ExhaustedRow
<1>2. \A d \in Documents : /\ claimed(d) \in IndexRows /\ claimed(d).status = "processing"
                           /\ claimed(d).claim = i /\ claimed(d).by = installed.model
  BY <1>1, IndexTypes, ClaimedRow
<1>3. taken \subseteq Documents
  BY DEF FirstTwo
<1>4. /\ vector' = [d \in Documents |-> IF d \in taken THEN claimed(d) ELSE ended[d]]
      /\ Pass(i, p)
      /\ UNCHANGED <<text, indexPoints, installed>>
  BY DEF ClaimFilesForVectorIndex
<1>5. p \in Passes /\ p.pc \in {"embed", "idle"}
  <2>1. \A d \in taken : d \in Documents /\ claimed(d).tries \in Nat /\ claimed(d).by \in Nat
    BY <1>2, <1>3 DEF IndexRows
  <2> HIDE DEF claimed, taken
  <2> QED BY <2>1 DEF Passes, NoPass
<1> HIDE DEF taken, ended, claimed, p
<1>6. vector' \in [Documents -> IndexRows]
  BY <1>1, <1>2, <1>4
<1>7. indexer' \in [Indexers -> Passes] /\ \A j \in Indexers : indexer'[j].pc = "mark" => indexer'[j] = indexer[j]
  BY <1>4, <1>5, PassMoves
<1>8. IndexTypeOK'
  BY <1>4, <1>6, <1>7 DEF IndexInv, IndexTypeOK, Passes, indexPoints
<1>9. indexer'[i].pc # "mark"
  BY <1>4, <1>5 DEF Pass, IndexInv, IndexTypeOK
<1>10. \A d \in Documents : VectorKept(d)
  <2> TAKE d \in Documents
  <2>1. CASE d \in taken
    <3>1. vector'[d] = claimed(d)
      BY <1>4, <2>1
    <3>2. \A j \in Indexers : ~(Owns(vector'[d], j) /\ indexer'[j].pc = "mark")
      BY <1>2, <1>9, <3>1 DEF Owns
    <3> QED BY <1>2, <3>1, <3>2, IndexTypes DEF VectorKept
  <2>2. CASE d \notin taken
    <3>1. vector'[d] = ended[d]
      BY <1>4, <2>2
    <3> QED BY <1>1, <3>1, IndexTypes DEF VectorKept, Owns
  <2> QED BY <2>1, <2>2
<1> QED BY <1>4, <1>7, <1>8, <1>10, FileKept DEF TextKept, PointsKept, indexPoints


\* What the statements make of a row.
LEMMA DueRow ==
  ASSUME NEW was \in IndexRows, NEW s \in IndexStates
  PROVE  /\ [was EXCEPT !.status = s, !.tries = 0, !.claim = 0, !.open = TRUE] \in IndexRows
         /\ [was EXCEPT !.status = s, !.tries = 0, !.claim = 0, !.open = TRUE].status = s
         /\ [was EXCEPT !.status = s, !.tries = 0, !.claim = 0, !.open = TRUE].by = was.by
BY DEF IndexRows

LEMMA RefusedRow ==
  ASSUME NEW was \in IndexRows, NEW s \in IndexStates
  PROVE  /\ [was EXCEPT !.status = s, !.claim = 0, !.open = FALSE] \in IndexRows
         /\ [was EXCEPT !.status = s, !.claim = 0, !.open = FALSE].status = s
         /\ [was EXCEPT !.status = s, !.claim = 0, !.open = FALSE].by = was.by
BY DEF IndexRows

LEMMA MarkedRow ==
  ASSUME NEW was \in IndexRows, NEW s \in IndexStates
  PROVE  /\ [was EXCEPT !.status = s, !.claim = 0] \in IndexRows
         /\ [was EXCEPT !.status = s, !.claim = 0].status = s
         /\ [was EXCEPT !.status = s, !.claim = 0].by = was.by
BY DEF IndexRows

LEMMA OnlyStatus ==
  ASSUME NEW was \in IndexRows, NEW s \in IndexStates
  PROVE  /\ [was EXCEPT !.status = s] \in IndexRows
         /\ [was EXCEPT !.status = s].status = s
         /\ [was EXCEPT !.status = s].by = was.by
BY DEF IndexRows

\* A set of natural numbers has a least element.
LEMMA LeastNumber ==
  ASSUME NEW S, S \subseteq Nat, S # {}
  PROVE  \E m \in S : \A n \in S : m <= n
<1>1. PICK s \in S : s \in Nat
  OBVIOUS
<1> DEFINE I == 0 .. s
           T == {0 .. i : i \in S \cap I}
<1>2. T \subseteq FiniteSubsetsOf(I) /\ T # {}
  <2>1. IsFiniteSet(I)
    BY <1>1, FS_Interval
  <2>2. ASSUME NEW i \in S \cap I PROVE 0 .. i \in FiniteSubsetsOf(I)
    <3>1. 0 .. i \subseteq I
      BY <1>1
    <3>2. IsFiniteSet(0 .. i)
      BY <2>1, <3>1, FS_Subset
    <3> QED BY <3>1, <3>2 DEF FiniteSubsetsOf
  <2>3. s \in S \cap I
    BY <1>1
  <2> QED BY <2>2, <2>3
<1>3. IsFiniteSet(I)
  BY <1>1, FS_Interval
<1>4. PICK X \in T : \A Y \in T : <<Y, X>> \notin StrictSubsetOrdering(I)
  <2> HIDE DEF T, I
  <2> QED BY <1>2, <1>3, WFMin, FS_StrictSubsetOrderingWellFounded
<1>5. PICK m \in S \cap I : X = 0 .. m
  OBVIOUS
<1>6. ASSUME NEW n \in S, ~(m <= n) PROVE FALSE
  <2>1. n \in Nat /\ m \in Nat /\ m <= s /\ n < m
    BY <1>1, <1>6
  <2>2. n \in S \cap I /\ 0 .. n \subseteq X /\ m \in X /\ m \notin 0 .. n /\ X \subseteq I
    BY <1>1, <1>5, <2>1
  <2>3. 0 .. n \in T
    BY <2>2
  <2> DEFINE Y == 0 .. n
  <2>4. Y \subseteq X /\ Y # X
    BY <2>2
  <2> HIDE DEF Y
  <2>5. <<Y, X>> \in StrictSubsetOrdering(I)
    BY <2>2, <2>4 DEF StrictSubsetOrdering
  <2> QED BY <1>4, <2>3, <2>5 DEF Y
<1> QED BY <1>6

\* The job a pass is at is one of its jobs.
LEMMA JobIsOne ==
  ASSUME IndexInv, NEW i \in Indexers, indexer[i].jobs # {}
  PROVE  JobOf(i) \in indexer[i].jobs /\ JobOf(i).file \in Documents /\ JobOf(i).by \in Nat
<1> DEFINE J == indexer[i].jobs
           S == {j.file : j \in J}
<1>1. J \subseteq [file : Documents, tries : Nat, by : Nat]
  BY DEF IndexInv, IndexTypeOK
<1>2. S \subseteq Nat /\ S # {}
  BY <1>1, FileIndexAssumption
<1>3. PICK m \in S : \A n \in S : m <= n
  BY <1>2, LeastNumber
<1>4. PICK j \in J : j.file = m
  OBVIOUS
<1>5. \A k \in J : j.file <= k.file
  BY <1>3, <1>4
<1>6. JobOf(i) \in J
  BY <1>4, <1>5 DEF JobOf
<1> QED BY <1>1, <1>6

\* The end of an extraction: the chunks of the text are new, so its vectors are not.
LEMMA TextEnds ==
  ASSUME IndexInv, NEW i \in Indexers, indexer[i].jobs # {}, indexer[i].pc = "extract",
         Pass(i, Without(i)), UNCHANGED <<indexPoints, installed>>,
         (\E found \in {"indexed", "empty"} : CompleteText(i, found)) \/ \E retry \in BOOLEAN : FailText(i, retry)
  PROVE  IndexInv'
<1> DEFINE d == JobOf(i).file
<1>1. d \in Documents /\ JobOf(i).by \in Nat
  BY JobIsOne
<1>2. /\ text \in [Documents -> IndexRows] /\ vector \in [Documents -> IndexRows]
      /\ text[d] \in IndexRows /\ vector[d] \in IndexRows
  BY <1>1 DEF IndexInv, IndexTypeOK
<1>3. indexer' \in [Indexers -> Passes] /\ \A j \in Indexers : indexer'[j].pc = "mark" => indexer'[j] = indexer[j]
  BY PassTypes, PassMoves
<1>4. ASSUME text' \in [Documents -> IndexRows], vector' \in [Documents -> IndexRows],
             \A e \in Documents : e # d => text'[e] = text[e] /\ vector'[e] = vector[e],
             VectorKept(d), TextKept(d)
      PROVE  IndexInv'
  <2>1. IndexTypeOK'
    BY <1>3, <1>4 DEF IndexInv, IndexTypeOK, Passes, indexPoints
  <2>2. \A e \in Documents : VectorKept(e) /\ TextKept(e)
    <3> TAKE e \in Documents
    <3> HIDE DEF d
    <3>1. CASE e = d
      BY <1>4, <3>1
    <3>2. CASE e # d
      BY <1>4, <3>2 DEF VectorKept, TextKept
    <3> QED BY <3>1, <3>2
  <2> QED BY <1>3, <2>1, <2>2, FileKept DEF PointsKept, indexPoints
<1>5. CASE ~Owns(text[d], i)
  <2>1. UNCHANGED indexRows
    BY <1>5 DEF CompleteText, FailText
  <2> QED BY <1>2, <1>4, <2>1 DEF indexRows, VectorKept, TextKept
<1>6. ASSUME NEW u \in IndexRows, text' = [text EXCEPT ![d] = u],
             \/ vector' = vector /\ u.status # "indexed"
             \/ \E v \in IndexRows : /\ vector' = [vector EXCEPT ![d] = v]
                                     /\ v.by = vector[d].by
                                     /\ \/ v.status = "pending"
                                        \/ v.status \in {"unavailable", "indexed"} /\ u.status # "indexed"
      PROVE  IndexInv'
  <2>1. /\ text' \in [Documents -> IndexRows] /\ vector' \in [Documents -> IndexRows]
        /\ text'[d] = u /\ \A e \in Documents : e # d => text'[e] = text[e] /\ vector'[e] = vector[e]
    BY <1>1, <1>2, <1>6
  <2>2. VectorKept(d) /\ TextKept(d)
    <3>1. CASE vector' = vector /\ u.status # "indexed"
      BY <2>1, <3>1 DEF VectorKept, TextKept
    <3>2. ASSUME NEW v \in IndexRows, vector' = [vector EXCEPT ![d] = v], v.by = vector[d].by,
                 \/ v.status = "pending"
                 \/ v.status \in {"unavailable", "indexed"} /\ u.status # "indexed"
          PROVE  VectorKept(d) /\ TextKept(d)
      <4>1. vector'[d] = v /\ v.by <= installed.model
        BY <1>1, <1>2, <3>2, IndexTypes
      <4>2. \A j \in Indexers : ~Owns(vector'[d], j)
        BY <3>2, <4>1 DEF Owns
      <4>3. VectorKept(d)
        BY <2>1, <3>2, <4>1, <4>2 DEF VectorKept
      <4>4. TextKept(d)
        BY <2>1, <3>2, <4>1 DEF TextKept
      <4> QED BY <4>3, <4>4
    <3> QED BY <1>6, <3>1, <3>2
  <2> QED BY <1>4, <2>1, <2>2
<1>7. ASSUME Owns(text[d], i), NEW found \in {"indexed", "empty"}, CompleteText(i, found) PROVE IndexInv'
  <2> DEFINE r == text[d]
             q == vector[d]
             n == JobOf(i).by
             s == IF found = "empty" THEN "indexed" ELSE "pending"
             u == [r EXCEPT !.status = found, !.by = n, !.claim = 0]
             v == [q EXCEPT !.status = s, !.tries = 0, !.claim = 0, !.open = TRUE]
  <2>1. text' = [text EXCEPT ![d] = u] /\ vector' = [vector EXCEPT ![d] = v]
    BY <1>7 DEF CompleteText
  <2>2. /\ found \in IndexStates /\ s \in IndexStates
        /\ r \in IndexRows /\ q \in IndexRows /\ n \in Nat
    BY <1>1, <1>2 DEF IndexStates
  <2>3. u \in IndexRows /\ u.status = found
    <3> HIDE DEF r, n
    <3> QED BY <2>2 DEF IndexRows, u
  <2>4. v \in IndexRows /\ v.status = s /\ v.by = vector[d].by
    <3>1. v \in IndexRows /\ v.status = s /\ v.by = q.by
      <4> HIDE DEF q, s
      <4> QED BY <2>2, DueRow DEF v
    <3> QED BY <3>1
  <2>5. s = "pending" \/ (s \in {"unavailable", "indexed"} /\ found # "indexed")
    OBVIOUS
  <2> HIDE DEF u, v, s
  <2> QED BY <1>6, <2>1, <2>3, <2>4, <2>5
<1>8. ASSUME Owns(text[d], i), NEW retry \in BOOLEAN, FailText(i, retry) PROVE IndexInv'
  <2> DEFINE s == IF retry THEN "failed" ELSE "unsupported"
             o == ~retry \/ JobOf(i).tries >= MaxIndexAttempts
             r == text[d]
             q == vector[d]
             n == JobOf(i).by
             u == [r EXCEPT !.status = s, !.by = n, !.claim = 0, !.open = o]
             v == [q EXCEPT !.status = "unavailable"]
  <2>1. text' = [text EXCEPT ![d] = u] /\ vector' = IF retry THEN vector ELSE [vector EXCEPT ![d] = v]
    BY <1>8 DEF FailText
  <2>2. /\ s \in IndexStates /\ s # "indexed" /\ o \in BOOLEAN /\ "unavailable" \in IndexStates
        /\ r \in IndexRows /\ q \in IndexRows /\ n \in Nat
    BY <1>1, <1>2 DEF IndexStates
  <2>3. u \in IndexRows /\ u.status = s
    <3> HIDE DEF r, n, s, o
    <3> QED BY <2>2 DEF IndexRows, u
  <2>4. v \in IndexRows /\ v.status = "unavailable" /\ v.by = vector[d].by
    <3>1. v \in IndexRows /\ v.status = "unavailable" /\ v.by = q.by
      <4> HIDE DEF q
      <4> QED BY <2>2, OnlyStatus DEF v
    <3> QED BY <3>1
  <2> HIDE DEF u, v, s, o
  <2>5. CASE retry
    BY <1>6, <2>1, <2>2, <2>3, <2>5
  <2>6. CASE ~retry
    BY <1>6, <2>1, <2>2, <2>3, <2>4, <2>6
  <2> QED BY <2>5, <2>6
<1> HIDE DEF d
<1>9. CASE Owns(text[d], i)
  BY <1>7, <1>8, <1>9
<1> QED BY <1>5, <1>9

LEMMA ExtractSound ==
  ASSUME IndexInv, NEW i \in Indexers, Extract(i) \/ ExtractFails(i) PROVE IndexInv'
BY TextEnds DEF Extract, ExtractFails

\* Points are written under the model in use, whatever the claim was made for.
LEMMA EmbedSound ==
  ASSUME IndexInv, NEW i \in Indexers, Embed(i) PROVE IndexInv'
<1>1. /\ chunkPoints' = chunkPoints \cup {<<JobOf(i).file, installed.model>>}
      /\ indexer' = [indexer EXCEPT ![i] = [indexer[i] EXCEPT !.pc = "mark"]]
      /\ UNCHANGED <<text, vector, absences, installed>>
  BY DEF Embed, Pass, indexRows
<1>2. indexer \in [Indexers -> Passes] /\ indexer[i] \in Passes
  BY PassTypes DEF IndexInv, IndexTypeOK, Passes
<1>3. [indexer[i] EXCEPT !.pc = "mark"] \in Passes /\ [indexer[i] EXCEPT !.pc = "mark"].jobs = indexer[i].jobs
  BY <1>2 DEF Passes
<1>4. /\ indexer' \in [Indexers -> Passes] /\ indexer'[i].jobs = indexer[i].jobs
      /\ \A j \in Indexers : j # i => indexer'[j] = indexer[j]
  BY <1>1, <1>2, <1>3
<1>5. IndexTypeOK'
  BY <1>1, <1>4 DEF IndexInv, IndexTypeOK, Passes
<1>6. NoneAhead'
  BY <1>1 DEF IndexInv, NoneAhead
<1>7. MarkedIsFindable'
  BY <1>1 DEF IndexInv, MarkedIsFindable, HasChunks
<1>8. JobOf(i)' = JobOf(i)
  BY <1>4 DEF JobOf
<1>9. MarkersWrote'
  <2> SUFFICES ASSUME NEW j \in Indexers, NEW d \in Documents,
                      indexer'[j].pc = "mark", JobOf(j)'.file = d, Owns(vector'[d], j),
                      HasChunks(d)', vector'[d].by = installed.model
               PROVE  <<d, installed.model>> \in chunkPoints'
    BY <1>1 DEF MarkersWrote
  <2>1. CASE j = i
    BY <1>1, <1>8, <2>1
  <2>2. CASE j # i
    <3>1. indexer'[j] = indexer[j] /\ JobOf(j)' = JobOf(j)
      BY <1>4, <2>2 DEF JobOf
    <3> QED BY <1>1, <3>1 DEF IndexInv, MarkersWrote, HasChunks, Owns
  <2> QED BY <2>1, <2>2
<1> QED BY <1>5, <1>6, <1>7, <1>9 DEF IndexInv

\* Who marks a file still owns its row, so the points of the row's model are there.
LEMMA MarkSound ==
  ASSUME IndexInv, NEW i \in Indexers, CompleteFileVectorIndex(i) PROVE IndexInv'
<1> DEFINE d == JobOf(i).file
           v == [vector[d] EXCEPT !.status = "indexed", !.claim = 0]
<1>1. /\ indexer[i].pc = "mark"
      /\ vector' = IF Owns(vector[d], i) THEN [vector EXCEPT ![d] = v] ELSE vector
      /\ Pass(i, NextJob(i))
      /\ UNCHANGED <<text, chunkPoints, absences, installed>>
  BY DEF CompleteFileVectorIndex, indexPoints
<1>2. /\ indexer' \in [Indexers -> Passes] /\ indexer'[i].pc # "mark"
      /\ \A j \in Indexers : indexer'[j].pc = "mark" => indexer'[j] = indexer[j]
  <2>1. NextJob(i) \in Passes /\ NextJob(i).pc # "mark"
    BY PassTypes
  <2>2. /\ indexer' \in [Indexers -> Passes]
        /\ \A j \in Indexers : indexer'[j].pc = "mark" => indexer'[j] = indexer[j]
    BY <1>1, <2>1, PassMoves
  <2>3. indexer'[i] = NextJob(i)
    BY <1>1 DEF Pass, IndexInv, IndexTypeOK
  <2> QED BY <2>1, <2>2, <2>3
<1>3. CASE d \notin Documents \/ ~Owns(vector[d], i)
  <2>1. vector' = vector
    BY <1>1, <1>3 DEF IndexInv, IndexTypeOK
  <2>2. IndexTypeOK'
    BY <1>1, <1>2, <2>1 DEF IndexInv, IndexTypeOK, Passes
  <2> QED BY <1>1, <1>2, <2>1, <2>2, FileKept DEF VectorKept, TextKept, PointsKept
<1>4. CASE d \in Documents /\ Owns(vector[d], i)
  <2>1. vector \in [Documents -> IndexRows] /\ vector[d] \in IndexRows
    BY <1>4 DEF IndexInv, IndexTypeOK
  <2>2. v \in IndexRows /\ v.status = "indexed" /\ v.by = vector[d].by
    BY <2>1, MarkedRow DEF IndexStates
  <2>3. vector' = [vector EXCEPT ![d] = v]
    BY <1>1, <1>4
  <2>4. HasChunks(d) /\ vector[d].by = installed.model => <<d, installed.model>> \in chunkPoints
    BY <1>1, <1>4 DEF IndexInv, MarkersWrote
  <2> HIDE DEF d, v
  <2>5. /\ vector' \in [Documents -> IndexRows] /\ vector'[d] = v
        /\ \A e \in Documents : e # d => vector'[e] = vector[e]
    BY <2>1, <2>2, <2>3, <1>4
  <2>6. IndexTypeOK'
    BY <1>1, <1>2, <2>5 DEF IndexInv, IndexTypeOK, Passes
  <2>7. NoneAhead'
    BY <1>1, <2>2, <2>5 DEF IndexInv, NoneAhead
  <2>8. MarkedIsFindable'
    BY <1>1, <2>2, <2>4, <2>5 DEF IndexInv, MarkedIsFindable, HasChunks
  <2>9. MarkersWrote'
    <3> SUFFICES ASSUME NEW j \in Indexers, NEW e \in Documents,
                        indexer'[j].pc = "mark", JobOf(j)'.file = e, Owns(vector'[e], j),
                        HasChunks(e)', vector'[e].by = installed.model
                 PROVE  <<e, installed.model>> \in chunkPoints'
      BY <1>1 DEF MarkersWrote
    <3>1. e # d
      BY <2>2, <2>5 DEF Owns
    <3>2. indexer'[j] = indexer[j] /\ JobOf(j)' = JobOf(j)
      BY <1>2 DEF JobOf
    <3> QED BY <1>1, <2>5, <3>1, <3>2 DEF IndexInv, MarkersWrote, HasChunks, Owns
  <2> QED BY <2>6, <2>7, <2>8, <2>9 DEF IndexInv
<1> QED BY <1>3, <1>4

LEMMA EmbedFailsSound ==
  ASSUME IndexInv, NEW i \in Indexers, EmbedFails(i) PROVE IndexInv'
<1> DEFINE d == JobOf(i).file
           r == vector[d]
           v == [r EXCEPT !.status = "failed", !.claim = 0, !.open = FALSE]
<1>1. /\ vector' = IF Owns(vector[d], i) THEN [vector EXCEPT ![d] = v] ELSE vector
      /\ Pass(i, NextJob(i))
      /\ UNCHANGED <<text, chunkPoints, absences, installed>>
  BY DEF EmbedFails, indexPoints
<1>2. /\ indexer' \in [Indexers -> Passes]
      /\ \A j \in Indexers : indexer'[j].pc = "mark" => indexer'[j] = indexer[j]
  BY <1>1, PassTypes, PassMoves
<1>3. vector \in [Documents -> IndexRows]
  BY DEF IndexInv, IndexTypeOK
<1>4. vector' \in [Documents -> IndexRows] /\ \A e \in Documents : VectorKept(e)
  <2>1. CASE vector' = vector
    BY <1>3, <2>1 DEF VectorKept
  <2>2. CASE d \in Documents /\ vector' = [vector EXCEPT ![d] = v]
    <3>1. v \in IndexRows /\ v.status = "failed" /\ v.by = r.by
      <4>1. r \in IndexRows /\ "failed" \in IndexStates
        BY <1>3, <2>2 DEF IndexStates
      <4> HIDE DEF r
      <4> QED BY <4>1, RefusedRow DEF v
    <3>2. v.by <= installed.model
      BY <2>2, <3>1, IndexTypes
    <3> HIDE DEF d, v, r
    <3>3. /\ vector' \in [Documents -> IndexRows] /\ vector'[d] = v
          /\ \A e \in Documents : e # d => vector'[e] = vector[e]
      BY <1>3, <2>2, <3>1
    <3>4. VectorKept(d)
      BY <3>1, <3>2, <3>3 DEF VectorKept, Owns
    <3> QED BY <3>3, <3>4 DEF VectorKept
  <2> QED BY <1>1, <1>3, <2>1, <2>2
<1>5. IndexTypeOK'
  BY <1>1, <1>2, <1>4 DEF IndexInv, IndexTypeOK, Passes
<1> QED BY <1>1, <1>2, <1>4, <1>5, FileKept DEF TextKept, PointsKept

\* Rows that came, went or only waited for something.
LEMMA FreshRow ==
  ASSUME NEW was \in IndexRows, NEW o \in BOOLEAN
  PROVE  /\ [was EXCEPT !.status = "pending"] \in IndexRows
         /\ [was EXCEPT !.status = "pending"].status = "pending"
         /\ [was EXCEPT !.status = "pending"].by = was.by
         /\ [was EXCEPT !.open = o] \in IndexRows
         /\ [was EXCEPT !.open = o].status = was.status
         /\ [was EXCEPT !.open = o].by = was.by
         /\ [was EXCEPT !.open = o].claim = was.claim
         /\ [NewRow EXCEPT !.status = "gone"] \in IndexRows
         /\ [NewRow EXCEPT !.status = "gone"].status = "gone"
         /\ [NewRow EXCEPT !.status = "gone"].by = 0
BY DEF IndexRows, IndexStates, NewRow

\* A step that sets the rows of one file and marks nothing.
LEMMA RowsSet ==
  ASSUME IndexInv, NEW d \in Documents, NEW u \in IndexRows, NEW v \in IndexRows,
         text' = [text EXCEPT ![d] = u], vector' = [vector EXCEPT ![d] = v],
         UNCHANGED <<indexer, chunkPoints, absences, installed>>,
         u.status = "indexed" => text[d].status = "indexed",
         v = vector[d] \/ v.status # "indexed",
         v.by = vector[d].by \/ v.by = 0,
         v.status = "processing" =>
           vector[d].status = "processing" /\ v.claim = vector[d].claim /\ v.by = vector[d].by
  PROVE  IndexInv'
<1>1. /\ text \in [Documents -> IndexRows] /\ vector \in [Documents -> IndexRows]
      /\ vector[d].by <= installed.model /\ installed.model \in Nat
  BY IndexTypes DEF IndexInv, IndexTypeOK
<1>2. /\ text' \in [Documents -> IndexRows] /\ vector' \in [Documents -> IndexRows]
      /\ text'[d] = u /\ vector'[d] = v
      /\ \A e \in Documents : e # d => text'[e] = text[e] /\ vector'[e] = vector[e]
  BY <1>1
<1>3. IndexTypeOK'
  BY <1>2 DEF IndexInv, IndexTypeOK
<1>4. v.by <= installed.model
  BY <1>1
<1>5. \A e \in Documents : TextKept(e)
  BY <1>2 DEF TextKept
<1>6. VectorKept(d)
  <2>1. CASE v = vector[d]
    BY <1>2, <2>1 DEF VectorKept
  <2>2. CASE v # vector[d] /\ v.status # "processing"
    BY <1>2, <1>4, <2>2 DEF VectorKept, Owns
  <2>3. CASE /\ v.status = "processing" /\ vector[d].status = "processing"
             /\ v.claim = vector[d].claim /\ v.by = vector[d].by
    BY <1>2, <1>4, <2>3 DEF VectorKept, Owns
  <2> QED BY <2>1, <2>2, <2>3
<1>7. \A e \in Documents : VectorKept(e)
  BY <1>2, <1>6 DEF VectorKept
<1> QED BY <1>3, <1>5, <1>7, FileKept DEF PointsKept

LEMMA UploadSound ==
  ASSUME IndexInv, NEW d \in Documents, UploadDocument(d) PROVE IndexInv'
<1> DEFINE r == text[d]
           q == vector[d]
           u == [r EXCEPT !.status = "pending"]
           v == [q EXCEPT !.status = "pending"]
<1>1. r \in IndexRows /\ q \in IndexRows
  BY IndexTypes
<1>2. /\ text' = [text EXCEPT ![d] = u] /\ vector' = [vector EXCEPT ![d] = v]
      /\ UNCHANGED <<indexer, chunkPoints, absences, installed>>
  BY DEF UploadDocument, indexPoints
<1>3. u \in IndexRows /\ u.status = "pending" /\ v \in IndexRows /\ v.status = "pending" /\ v.by = q.by
  <2> HIDE DEF r, q
  <2> QED BY <1>1, FreshRow
<1> HIDE DEF u, v
<1> QED BY <1>2, <1>3, RowsSet

LEMMA DeleteSound ==
  ASSUME IndexInv, NEW d \in Documents, DeleteDocument(d) PROVE IndexInv'
<1> DEFINE v == [NewRow EXCEPT !.status = "gone"]
<1>1. /\ text' = [text EXCEPT ![d] = v] /\ vector' = [vector EXCEPT ![d] = v]
      /\ UNCHANGED <<indexer, chunkPoints, absences, installed>>
  BY DEF DeleteDocument, indexPoints
<1>2. v \in IndexRows /\ v.status = "gone" /\ v.by = 0
  BY DEF IndexRows, IndexStates, NewRow
<1> HIDE DEF v
<1> QED BY <1>1, <1>2, RowsSet

LEMMA TimeSound ==
  ASSUME IndexInv, NEW d \in Documents, TimePasses(d) PROVE IndexInv'
<1> DEFINE r == text[d]
           q == vector[d]
           u == [r EXCEPT !.open = TRUE]
           v == [q EXCEPT !.open = TRUE]
<1>1. /\ text \in [Documents -> IndexRows] /\ vector \in [Documents -> IndexRows]
      /\ r \in IndexRows /\ q \in IndexRows
  BY DEF IndexInv, IndexTypeOK
<1>2. /\ u \in IndexRows /\ u.status = r.status
      /\ v \in IndexRows /\ v.status = q.status /\ v.by = q.by /\ v.claim = q.claim
  <2> HIDE DEF r, q
  <2> QED BY <1>1, FreshRow
<1>3. /\ UNCHANGED <<indexer, chunkPoints, absences, installed>>
      /\ \/ text' = [text EXCEPT ![d] = u] /\ vector' = vector
         \/ text' = text /\ vector' = [vector EXCEPT ![d] = v] /\ q.status \in {"failed", "processing"}
  BY DEF TimePasses, indexPoints
<1>4. CASE text' = [text EXCEPT ![d] = u] /\ vector' = vector
  <2>1. vector' = [vector EXCEPT ![d] = q]
    BY <1>1, <1>4
  <2> HIDE DEF u, v
  <2> QED BY <1>1, <1>2, <1>3, <1>4, <2>1, RowsSet
<1>5. CASE text' = text /\ vector' = [vector EXCEPT ![d] = v] /\ q.status \in {"failed", "processing"}
  <2>1. text' = [text EXCEPT ![d] = r]
    BY <1>1, <1>5
  <2> HIDE DEF u, v
  <2> QED BY <1>1, <1>2, <1>3, <1>5, <2>1, RowsSet
<1> QED BY <1>3, <1>4, <1>5

\* A new model is ahead of every row.
LEMMA UpgradeSound ==
  ASSUME IndexInv, NEW what \in {"extractors", "model"}, Upgrade(what) PROVE IndexInv'
<1>1. /\ installed' = [installed EXCEPT ![what] = installed[what] + 1] /\ installed[what] <= MaxUpgrades
      /\ UNCHANGED <<text, vector, chunkPoints, absences, indexer>>
  BY DEF Upgrade, indexRows, indexPoints
<1>2. installed.model \in Versions /\ installed.extractors \in Versions
      /\ installed \in [extractors : Versions, model : Versions]
  BY DEF IndexInv, IndexTypeOK
<1>3. CASE what = "extractors"
  <2>1. installed'.model = installed.model /\ installed' \in [extractors : Versions, model : Versions]
    BY <1>1, <1>2, <1>3, FileIndexAssumption DEF Versions
  <2>2. IndexTypeOK'
    BY <1>1, <2>1 DEF IndexInv, IndexTypeOK
  <2>3. NoneAhead' /\ MarkedIsFindable'
    BY <1>1, <2>1 DEF IndexInv, NoneAhead, MarkedIsFindable, HasChunks
  <2>4. MarkersWrote'
    BY <1>1, <2>1 DEF IndexInv, MarkersWrote, HasChunks, JobOf, Owns
  <2> QED BY <2>2, <2>3, <2>4 DEF IndexInv
<1>4. CASE what = "model"
  <2>1. /\ installed'.model = installed.model + 1
        /\ installed' \in [extractors : Versions, model : Versions]
    BY <1>1, <1>2, <1>4, FileIndexAssumption DEF Versions
  <2>2. \A d \in Documents : vector'[d].by <= installed'.model /\ vector'[d].by # installed'.model
    BY <1>1, <2>1, IndexTypes
  <2>3. IndexTypeOK'
    BY <1>1, <2>1 DEF IndexInv, IndexTypeOK
  <2>4. NoneAhead' /\ MarkedIsFindable' /\ MarkersWrote'
    BY <2>2 DEF NoneAhead, MarkedIsFindable, MarkersWrote
  <2> QED BY <2>3, <2>4 DEF IndexInv
<1> QED BY <1>3, <1>4

\* The clean-up forgets only points whose chunk it did not find.
LEMMA CleanupSound ==
  ASSUME IndexInv, CleanupVectorIndex PROVE IndexInv'
<1> DEFINE listed == {p \in chunkPoints : p[2] = installed.model}
           counted == [p \in DOMAIN absences |->
                         IF p \notin listed THEN absences[p] ELSE IF HasChunks(p[1]) THEN 0 ELSE absences[p] + 1]
           stale == {p \in listed : counted[p] >= 2}
<1>1. /\ chunkPoints' = chunkPoints \ stale
      /\ absences' = [p \in DOMAIN absences |-> IF p \in stale THEN 0 ELSE counted[p]]
      /\ UNCHANGED <<text, vector, indexer, installed>>
  BY DEF CleanupVectorIndex, indexRows
<1>2. DOMAIN absences = Documents \X Versions /\ installed.model \in Versions
  BY DEF IndexInv, IndexTypeOK
<1>3. \A d \in Documents : HasChunks(d) => <<d, installed.model>> \notin stale
  <2> SUFFICES ASSUME NEW d \in Documents, HasChunks(d), <<d, installed.model>> \in listed
               PROVE  ~(counted[<<d, installed.model>>] >= 2)
    OBVIOUS
  <2>1. counted[<<d, installed.model>>] = 0
    BY <1>2
  <2> QED BY <2>1
<1> HIDE DEF listed, counted, stale
<1>4. IndexTypeOK'
  BY <1>1 DEF IndexInv, IndexTypeOK
<1>5. \A d \in Documents : PointsKept(d)
  BY <1>1, <1>3 DEF PointsKept
<1> QED BY <1>1, <1>4, <1>5, FileKept DEF VectorKept, TextKept

LEMMA RestartSound ==
  ASSUME IndexInv, NEW i \in Indexers, IndexerRestart(i) PROVE IndexInv'
<1>1. /\ Pass(i, NoPass) /\ absences' = [p \in DOMAIN absences |-> 0]
      /\ UNCHANGED <<text, vector, chunkPoints, installed>>
  BY DEF IndexerRestart, indexRows
<1>2. /\ indexer' \in [Indexers -> Passes]
      /\ \A j \in Indexers : indexer'[j].pc = "mark" => indexer'[j] = indexer[j]
  BY <1>1, PassTypes, PassMoves
<1>3. IndexTypeOK'
  BY <1>1, <1>2 DEF IndexInv, IndexTypeOK, Passes
<1> QED BY <1>1, <1>2, <1>3, FileKept DEF VectorKept, TextKept, PointsKept

LEMMA IndexStep == IndexInv /\ [FileIndexNext]_fileIndexVars => IndexInv'
<1> SUFFICES ASSUME IndexInv, [FileIndexNext]_fileIndexVars PROVE IndexInv'
  OBVIOUS
<1>1. ASSUME NEW i \in Indexers, RunOnce(i) \/ ExtractFails(i) \/ EmbedFails(i) \/ IndexerRestart(i)
      PROVE  IndexInv'
  BY <1>1, ContentClaimSound, ExtractSound, VectorClaimSound, EmbedSound, MarkSound, EmbedFailsSound,
     RestartSound DEF RunOnce
<1>2. ASSUME NEW d \in Documents, UploadDocument(d) \/ DeleteDocument(d) \/ WaitEnds(d) \/ Stalls(d)
      PROVE  IndexInv'
  BY <1>2, UploadSound, DeleteSound, TimeSound DEF WaitEnds, Stalls
<1>3. ASSUME NEW what \in {"extractors", "model"}, Upgrade(what) PROVE IndexInv'
  BY <1>3, UpgradeSound
<1>4. ASSUME CleanupVectorIndex PROVE IndexInv'
  BY <1>4, CleanupSound
<1>5. CASE UNCHANGED fileIndexVars
  BY <1>5 DEF fileIndexVars, indexRows, indexPoints, IndexInv, IndexTypeOK, NoneAhead, MarkersWrote,
              MarkedIsFindable, HasChunks, JobOf, Owns
<1> QED BY <1>1, <1>2, <1>3, <1>4, <1>5 DEF FileIndexNext

\* A file that is marked as indexed by the model in use has its points in the collection
\* of that model, whatever passes, clean-ups, upgrades and restarts ran side by side:
\* CompleteFileVectorIndex marks only for the claim that still stands.
THEOREM MarkedFilesAreFound == FileIndexSpec => []MarkedIsFindable
<1>1. IndexInv => MarkedIsFindable
  BY DEF IndexInv
<1> QED BY <1>1, IndexInitial, IndexStep, PTL DEF FileIndexSpec

--------------------------------------------------------------------------------
(* Knowledge and its points *)

\* Who is there, or is active, has a text that was written, and so has every copy.
Written == Nat \ {0}

MemoryRows  == [kind : {"none", "fact", "policy", "gone"}, text : Nat, active : BOOLEAN, marked : BOOLEAN]
GoodRows    == {r \in MemoryRows : /\ r.kind \in {"fact", "policy"} => r.text \in Written
                                   /\ r.active => r.kind \in {"fact", "policy"}}
VersionRows == [text : Written, active : BOOLEAN]
IndexedTexts == [id : Entries, text : Written]
Embeddings  == [pc : {"compare", "upsert", "mark"}, id : Entries, text : Written]

TextsWritten ==
  /\ texts \in Nat
  /\ memory \in [Entries -> GoodRows]
  /\ versions \in [Entries -> Seq(VersionRows)]
  /\ embedder \in [EmbedSlots -> Embeddings \cup {NoEmbedder}]
  /\ sweep \in [pc : {"idle", "compare", "upsert", "mark"}, page : SUBSET IndexedTexts, changed : SUBSET IndexedTexts]
  /\ point \in [Entries -> Nat]

\* The misses of a point are at most the complete scans in a row that did not find its
\* row, and a point that is about to go was missed by two of them.
MissesCounted ==
  /\ missing \in [Entries -> 0 .. 2] /\ unlisted \in [Entries -> 0 .. 2]
  /\ \A k \in Entries : missing[k] <= unlisted[k]
  /\ \A k \in Entries : point[k] = 0 => missing[k] = 0
  /\ cleaner.pc = "delete" => cleaner.stale \subseteq {k \in Entries : unlisted[k] = 2}

PointInv == TextsWritten /\ MissesCounted /\ HealthyPointsStay

LEMMA PointInitial == KnowledgeInit => PointInv
<1> SUFFICES ASSUME KnowledgeInit PROVE PointInv
  OBVIOUS
<1>1. NoEntry \in GoodRows /\ <<>> \in Seq(VersionRows)
  BY DEF NoEntry, GoodRows, MemoryRows
<1>2. TextsWritten
  BY <1>1 DEF KnowledgeInit, TextsWritten, NoSweep
<1>3. MissesCounted
  BY DEF KnowledgeInit, MissesCounted, NoCleaner
<1>4. HealthyPointsStay
  BY DEF KnowledgeInit, HealthyPointsStay
<1> QED BY <1>2, <1>3, <1>4 DEF PointInv

\* A step that does not scan, and takes no point away.
LEMMA ScansKept ==
  ASSUME PointInv, TextsWritten', UNCHANGED cleanerVars,
         \A k \in Entries : point'[k] = 0 => point[k] = 0
  PROVE  PointInv'
<1>1. UNCHANGED <<cleaner, missing, unlisted, bereft>>
  BY DEF cleanerVars
<1>2. MissesCounted'
  BY <1>1 DEF PointInv, MissesCounted
<1> QED BY <1>1, <1>2 DEF PointInv, HealthyPointsStay

\* embedAsync starts with a text that was written.
LEMMA EmbedLaterSound ==
  ASSUME TextsWritten, NEW k \in Entries, NEW x \in Written, EmbedLater(k, x)
  PROVE  embedder' \in [EmbedSlots -> Embeddings \cup {NoEmbedder}]
<1>1. embedder \in [EmbedSlots -> Embeddings \cup {NoEmbedder}]
  BY DEF TextsWritten
<1> DEFINE e == [pc |-> "compare", id |-> k, text |-> x]
           s == CHOOSE f \in EmbedSlots : embedder[f].pc = "idle"
<1>2. e \in Embeddings
  BY DEF Embeddings
<1>3. embedder' = embedder \/ embedder' = [embedder EXCEPT ![s] = e]
  BY DEF EmbedLater
<1> HIDE DEF e, s
<1> QED BY <1>1, <1>2, <1>3

\* A row that is written with a text keeps its kind.
LEMMA Rewritten ==
  ASSUME NEW r \in GoodRows, r.kind \in {"fact", "policy"}, NEW x \in Written, NEW active \in BOOLEAN
  PROVE  /\ [r EXCEPT !.text = x, !.marked = FALSE] \in GoodRows
         /\ [r EXCEPT !.active = active, !.marked = FALSE] \in GoodRows
         /\ [r EXCEPT !.text = x, !.active = active, !.marked = FALSE] \in GoodRows
         /\ r.text \in Written
         /\ Content(r) \in VersionRows
BY DEF GoodRows, MemoryRows, Content, VersionRows, Written

LEMMA MarkedRows ==
  ASSUME NEW r \in GoodRows PROVE [r EXCEPT !.marked = TRUE] \in GoodRows
BY DEF GoodRows, MemoryRows

\* A transaction that replaces a row, with its snapshot, and may embed it.
LEMMA ReplaceSound ==
  ASSUME PointInv, NEW k \in Entries, There(k), NEW r \in GoodRows, NEW x \in Written,
         Replace(k, r), MayWrite, EmbedLater(k, x) \/ UNCHANGED embedder,
         UNCHANGED <<point, sweep, cleanerVars>>
  PROVE  PointInv'
<1>1. /\ memory \in [Entries -> GoodRows] /\ versions \in [Entries -> Seq(VersionRows)] /\ texts \in Nat
      /\ memory[k] \in GoodRows
  BY DEF PointInv, TextsWritten
<1>2. memory' \in [Entries -> GoodRows]
  BY <1>1 DEF Replace
<1>3. versions' \in [Entries -> Seq(VersionRows)]
  <2> DEFINE c == Content(memory[k])
             vs == Append(versions[k], c)
  <2>1. c \in VersionRows
    BY <1>1, Rewritten DEF There, Written
  <2>2. versions[k] \in Seq(VersionRows)
    BY <1>1
  <2> HIDE DEF c
  <2>3. vs \in Seq(VersionRows)
    BY <2>1, <2>2, AppendProperties
  <2>4. versions' = [versions EXCEPT ![k] = vs]
    BY DEF Replace, c
  <2> HIDE DEF vs
  <2> QED BY <1>1, <2>3, <2>4
<1>4. embedder' \in [EmbedSlots -> Embeddings \cup {NoEmbedder}]
  BY EmbedLaterSound DEF PointInv, TextsWritten
<1>5. texts' \in Nat
  BY <1>1 DEF MayWrite
<1>6. TextsWritten'
  BY <1>2, <1>3, <1>4, <1>5 DEF PointInv, TextsWritten
<1> QED BY <1>6, ScansKept

LEMMA CreateSound ==
  ASSUME PointInv, NEW k \in Entries, NEW kind \in {"fact", "policy"}, CreateKnowledge(k, kind) PROVE PointInv'
<1> DEFINE r == [kind |-> kind, text |-> texts + 1, active |-> TRUE, marked |-> FALSE]
<1>1. texts \in Nat /\ texts + 1 \in Written /\ texts' = texts + 1
  BY DEF PointInv, TextsWritten, CreateKnowledge, MayWrite, Written
<1>2. r \in GoodRows
  BY <1>1 DEF GoodRows, MemoryRows, Written
<1>3. memory' = [memory EXCEPT ![k] = r] /\ EmbedLater(k, texts + 1)
      /\ UNCHANGED <<versions, point, sweep, cleanerVars>>
  BY DEF CreateKnowledge
<1> HIDE DEF r
<1>4. TextsWritten'
  BY <1>1, <1>2, <1>3, EmbedLaterSound DEF PointInv, TextsWritten
<1> QED BY <1>3, <1>4, ScansKept

LEMMA WriteSound ==
  ASSUME PointInv, NEW k \in Entries,
         \/ UpsertRule(k)
         \/ \E b \in BOOLEAN : UpdateKnowledge(k, b) \/ SetKnowledgeActive(k, b)
         \/ \E v \in 1 .. Len(versions[k]) : RollbackKnowledge(k, v)
  PROVE  PointInv'
<1> DEFINE m == memory[k]
           n == texts + 1
<1>1. m \in GoodRows /\ n \in Written /\ versions[k] \in Seq(VersionRows)
  BY DEF PointInv, TextsWritten, Written
<1>2. CASE UpsertRule(k)
  <2>1. CASE \E j \in ActiveRows : memory[j].kind = "policy"
    <3> DEFINE r == [m EXCEPT !.text = n, !.marked = FALSE]
    <3>1. m.kind = "policy" /\ MayWrite /\ Replace(k, r) /\ EmbedLater(k, n)
          /\ UNCHANGED <<point, sweep, cleanerVars>>
      BY <1>2, <2>1 DEF UpsertRule
    <3> HIDE DEF m, n
    <3>2. r \in GoodRows
      BY <1>1, <3>1, Rewritten
    <3>3. There(k)
      BY <3>1 DEF There, m
    <3> HIDE DEF r
    <3> QED BY <1>1, <3>1, <3>2, <3>3, ReplaceSound
  <2>2. CASE ~\E j \in ActiveRows : memory[j].kind = "policy"
    BY <1>2, <2>2, CreateSound DEF UpsertRule
  <2> QED BY <2>1, <2>2
<1>3. ASSUME NEW b \in BOOLEAN, UpdateKnowledge(k, b) PROVE PointInv'
  <2> DEFINE r == [m EXCEPT !.text = n, !.marked = FALSE]
  <2>1. m.kind = "fact" /\ MayWrite /\ Replace(k, r) /\ (EmbedLater(k, n) \/ UNCHANGED embedder)
        /\ UNCHANGED <<point, sweep, cleanerVars>>
    BY <1>3 DEF UpdateKnowledge
  <2> HIDE DEF m, n
  <2>2. r \in GoodRows
    BY <1>1, <2>1, Rewritten
  <2>3. There(k)
    BY <2>1 DEF There, m
  <2> HIDE DEF r
  <2> QED BY <1>1, <2>1, <2>2, <2>3, ReplaceSound
<1>4. ASSUME NEW b \in BOOLEAN, SetKnowledgeActive(k, b) PROVE PointInv'
  <2> DEFINE r == [m EXCEPT !.active = b, !.marked = FALSE]
  <2>1. There(k) /\ MayWrite /\ Replace(k, r) /\ (EmbedLater(k, m.text) \/ UNCHANGED embedder)
        /\ UNCHANGED <<point, sweep, cleanerVars>>
    BY <1>4 DEF SetKnowledgeActive
  <2>2. m.kind \in {"fact", "policy"}
    BY <2>1 DEF There
  <2> HIDE DEF m, n
  <2>3. r \in GoodRows /\ m.text \in Written
    BY <1>1, <2>2, Rewritten
  <2> HIDE DEF r
  <2> QED BY <1>1, <2>1, <2>3, ReplaceSound
<1>5. ASSUME NEW v \in 1 .. Len(versions[k]), RollbackKnowledge(k, v) PROVE PointInv'
  <2> DEFINE t == versions[k][v].text
             a == versions[k][v].active
             r == [m EXCEPT !.text = t, !.active = a, !.marked = FALSE]
  <2>1. There(k) /\ MayWrite /\ Replace(k, r) /\ EmbedLater(k, t) /\ UNCHANGED <<point, sweep, cleanerVars>>
    BY <1>5 DEF RollbackKnowledge
  <2>2. t \in Written /\ a \in BOOLEAN
    <3>1. versions[k][v] \in VersionRows
      BY <1>1, ElementOfSeq
    <3> QED BY <3>1 DEF VersionRows
  <2>3. m.kind \in {"fact", "policy"}
    BY <2>1 DEF There
  <2> HIDE DEF m, n, t, a
  <2>4. r \in GoodRows
    BY <1>1, <2>2, <2>3, Rewritten
  <2> HIDE DEF r
  <2> QED BY <1>1, <2>1, <2>2, <2>4, ReplaceSound
<1> QED BY <1>2, <1>3, <1>4, <1>5

LEMMA ForgetSound ==
  ASSUME PointInv, NEW k \in Entries, DeleteKnowledge(k) PROVE PointInv'
<1> DEFINE r == [NoEntry EXCEPT !.kind = "gone"]
<1>1. r \in GoodRows
  BY DEF NoEntry, GoodRows, MemoryRows
<1>2. /\ memory' = [memory EXCEPT ![k] = r] /\ versions' = [versions EXCEPT ![k] = <<>>]
      /\ UNCHANGED <<texts, point, embedder, sweep, cleanerVars>>
  BY DEF DeleteKnowledge
<1> HIDE DEF r
<1>3. <<>> \in Seq(VersionRows)
  OBVIOUS
<1>4. TextsWritten'
  BY <1>1, <1>2, <1>3 DEF PointInv, TextsWritten
<1> QED BY <1>2, <1>4, ScansKept

\* Marks change no text.
LEMMA MarksSound ==
  ASSUME TextsWritten, NEW ids, memory' = Marked(ids) PROVE memory' \in [Entries -> GoodRows]
BY MarkedRows DEF TextsWritten, Marked

LEMMA EmbedOneSound ==
  ASSUME PointInv, NEW s \in EmbedSlots, EmbedOne(s) \/ EmbedderFails(s) PROVE PointInv'
<1> DEFINE e == embedder[s]
<1>1. e \in Embeddings \cup {NoEmbedder} /\ embedder \in [EmbedSlots -> Embeddings \cup {NoEmbedder}]
  BY DEF PointInv, TextsWritten
<1>2. CASE CompareOne(s)
  <2> DEFINE f == [e EXCEPT !.pc = IF point[e.id] = e.text THEN "mark" ELSE "upsert"]
  <2>1. e.pc = "compare" /\ embedder' = [embedder EXCEPT ![s] = f]
        /\ UNCHANGED <<rowVars, point, sweep, cleanerVars>>
    BY <1>2 DEF CompareOne, EmbedStep
  <2>2. f \in Embeddings
    BY <1>1, <2>1 DEF Embeddings, NoEmbedder
  <2> HIDE DEF f
  <2>3. TextsWritten'
    BY <1>1, <2>1, <2>2 DEF PointInv, TextsWritten, rowVars
  <2> QED BY <2>1, <2>3, ScansKept
<1>3. CASE UpsertOne(s)
  <2> DEFINE f == [e EXCEPT !.pc = "mark"]
  <2>1. e.pc = "upsert" /\ embedder' = [embedder EXCEPT ![s] = f] /\ point' = [point EXCEPT ![e.id] = e.text]
        /\ UNCHANGED <<rowVars, sweep, cleanerVars>>
    BY <1>3 DEF UpsertOne, EmbedStep
  <2>2. f \in Embeddings /\ e.id \in Entries /\ e.text \in Written
    BY <1>1, <2>1 DEF Embeddings, NoEmbedder
  <2> HIDE DEF f, e
  <2>3. point' \in [Entries -> Nat] /\ \A k \in Entries : point'[k] = 0 => point[k] = 0
    BY <2>1, <2>2 DEF PointInv, TextsWritten, Written
  <2>4. TextsWritten'
    BY <1>1, <2>1, <2>2, <2>3 DEF PointInv, TextsWritten, rowVars
  <2> QED BY <2>1, <2>3, <2>4, ScansKept
<1>4. CASE MarkOne(s)
  <2>1. memory' = Marked({e.id}) /\ embedder' = [embedder EXCEPT ![s] = NoEmbedder]
        /\ UNCHANGED <<versions, texts, point, sweep, cleanerVars>>
    BY <1>4 DEF MarkOne, EmbedStep
  <2>2. TextsWritten'
    BY <1>1, <2>1, MarksSound DEF PointInv, TextsWritten
  <2> QED BY <2>1, <2>2, ScansKept
<1>5. CASE EmbedderFails(s)
  <2>1. embedder' = [embedder EXCEPT ![s] = NoEmbedder] /\ UNCHANGED <<rowVars, point, sweep, cleanerVars>>
    BY <1>5 DEF EmbedderFails, EmbedStep
  <2>2. TextsWritten'
    BY <1>1, <2>1 DEF PointInv, TextsWritten, rowVars
  <2> QED BY <2>1, <2>2, ScansKept
<1> QED BY <1>2, <1>3, <1>4, <1>5 DEF EmbedOne

Sweeps == [pc : {"idle", "compare", "upsert", "mark"}, page : SUBSET IndexedTexts, changed : SUBSET IndexedTexts]

LEMMA SweepMoves ==
  ASSUME NEW w \in Sweeps, NEW S \in SUBSET IndexedTexts, NEW p \in {"upsert", "mark"}
  PROVE  /\ [w EXCEPT !.pc = p, !.changed = S] \in Sweeps
         /\ [w EXCEPT !.pc = p, !.page = S] \in Sweeps
BY DEF Sweeps

LEMMA PageShrinks ==
  ASSUME NEW w \in Sweeps, NEW S \in SUBSET IndexedTexts
  PROVE  [w EXCEPT !.page = S] \in Sweeps
BY DEF Sweeps

LEMMA SweepSound ==
  ASSUME PointInv,
         \/ \E reconcile \in BOOLEAN : Sweep(reconcile)
         \/ CompareAll \/ MarkNext \/ SweepFails
         \/ \E failed \in SUBSET sweep.changed : UpsertAll(failed)
  PROVE  PointInv'
<1>1. sweep \in Sweeps /\ sweep.page \subseteq IndexedTexts /\ sweep.changed \subseteq IndexedTexts
      /\ memory \in [Entries -> GoodRows] /\ point \in [Entries -> Nat]
  BY DEF PointInv, TextsWritten, Sweeps
<1>2. ASSUME NEW reconcile \in BOOLEAN, Sweep(reconcile) PROVE PointInv'
  <2> DEFINE R == RowsToSweep(reconcile)
  <2>1. \A k \in R : k \in Entries /\ memory[k].text \in Written
    BY <1>1 DEF RowsToSweep, ActiveRows, GoodRows
  <2>2. sweep' = [pc |-> "compare", page |-> PageOf(R), changed |-> {}]
        /\ UNCHANGED <<rowVars, point, embedder, cleanerVars>>
    BY <1>2 DEF Sweep
  <2> HIDE DEF R
  <2>3. PageOf(R) \subseteq IndexedTexts
    BY <2>1 DEF PageOf, IndexedTexts
  <2>4. sweep' \in Sweeps
    BY <2>2, <2>3 DEF Sweeps
  <2>5. TextsWritten'
    BY <2>2, <2>4 DEF PointInv, TextsWritten, rowVars, Sweeps
  <2> QED BY <2>2, <2>5, ScansKept
<1>3. CASE CompareAll
  <2> DEFINE S == {d \in sweep.page : point[d.id] # d.text}
  <2>1. sweep' = [sweep EXCEPT !.pc = "upsert", !.changed = S] /\ UNCHANGED <<rowVars, point, embedder, cleanerVars>>
    BY <1>3 DEF CompareAll
  <2>2. S \in SUBSET IndexedTexts
    BY <1>1
  <2> HIDE DEF S
  <2>3. sweep' \in Sweeps
    BY <1>1, <2>1, <2>2, SweepMoves
  <2>4. TextsWritten'
    BY <2>1, <2>3 DEF PointInv, TextsWritten, rowVars, Sweeps
  <2> QED BY <2>1, <2>4, ScansKept
<1>4. CASE MarkNext
  <2>1. /\ UNCHANGED <<versions, texts, point, embedder, cleanerVars>>
        /\ \/ sweep' = NoSweep /\ memory' = memory
           \/ \E d \in sweep.page : memory' = Marked({d.id}) /\ sweep' = [sweep EXCEPT !.page = sweep.page \ {d}]
    BY <1>4 DEF MarkNext
  <2>2. memory' \in [Entries -> GoodRows]
    BY <1>1, <2>1, MarksSound DEF PointInv
  <2>3. sweep' \in Sweeps
    <3>1. ASSUME NEW d \in sweep.page, sweep' = [sweep EXCEPT !.page = sweep.page \ {d}] PROVE sweep' \in Sweeps
      <4> DEFINE S == sweep.page \ {d}
      <4>1. S \in SUBSET IndexedTexts
        BY <1>1
      <4>2. sweep' = [sweep EXCEPT !.page = S]
        BY <3>1
      <4> HIDE DEF S
      <4> QED BY <1>1, <4>1, <4>2, PageShrinks
    <3>2. CASE sweep' = NoSweep
      BY <3>2 DEF Sweeps, NoSweep
    <3> QED BY <2>1, <3>1, <3>2
  <2>4. TextsWritten'
    BY <2>1, <2>2, <2>3 DEF PointInv, TextsWritten, Sweeps
  <2> QED BY <2>1, <2>4, ScansKept
<1>5. CASE SweepFails
  <2>1. sweep' = NoSweep /\ UNCHANGED <<rowVars, point, embedder, cleanerVars>>
    BY <1>5 DEF SweepFails
  <2>2. TextsWritten'
    BY <2>1 DEF PointInv, TextsWritten, rowVars, NoSweep
  <2> QED BY <2>1, <2>2, ScansKept
<1>6. ASSUME NEW failed \in SUBSET sweep.changed, UpsertAll(failed) PROVE PointInv'
  <2> DEFINE S == sweep.page \ failed
             D(k) == {d \in sweep.changed : d.id = k}
             pick(k) == CHOOSE d \in sweep.changed : d.id = k
  <2>1. /\ sweep' = [sweep EXCEPT !.pc = "mark", !.page = S]
        /\ point' = [k \in Entries |-> IF \E d \in sweep.changed \ failed : d.id = k THEN pick(k).text ELSE point[k]]
        /\ UNCHANGED <<rowVars, embedder, cleanerVars>>
    BY <1>6 DEF UpsertAll
  <2>2. S \in SUBSET IndexedTexts
    BY <1>1
  <2>3. \A k \in Entries : (\E d \in sweep.changed \ failed : d.id = k) => pick(k).text \in Written
    <3> TAKE k \in Entries
    <3> HAVE \E d \in sweep.changed \ failed : d.id = k
    <3>1. pick(k) \in sweep.changed
      OBVIOUS
    <3> QED BY <1>1, <3>1 DEF IndexedTexts
  <2> HIDE DEF S, pick
  <2>4. point' \in [Entries -> Nat] /\ \A k \in Entries : point'[k] = 0 => point[k] = 0
    BY <1>1, <2>1, <2>3 DEF Written
  <2>5. sweep' \in Sweeps
    BY <1>1, <2>1, <2>2, SweepMoves
  <2>6. TextsWritten'
    BY <2>1, <2>4, <2>5 DEF PointInv, TextsWritten, rowVars, Sweeps
  <2> QED BY <2>1, <2>4, <2>6, ScansKept
<1> QED BY <1>2, <1>3, <1>4, <1>5, <1>6

\* What is counted as missed was missed by the whole scan.
LEMMA CountSound ==
  ASSUME PointInv, CountMissing PROVE PointInv'
<1> DEFINE listed == {k \in Entries : point[k] # 0}
           counted == [k \in Entries |-> IF k \notin listed THEN missing[k]
                                         ELSE IF k \in cleaner.valid THEN 0
                                         ELSE IF missing[k] = 2 THEN 2 ELSE missing[k] + 1]
           seen == [k \in Entries |-> IF k \in cleaner.valid THEN 0
                                      ELSE IF unlisted[k] = 2 THEN 2 ELSE unlisted[k] + 1]
           S == {k \in listed \ cleaner.valid : Gone(k, counted[k])}
<1>1. /\ missing' = counted /\ unlisted' = seen
      /\ cleaner' = [cleaner EXCEPT !.pc = "delete", !.stale = S]
      /\ UNCHANGED <<rowVars, point, embedder, sweep, bereft>>
  BY DEF CountMissing
<1>2. /\ missing \in [Entries -> 0 .. 2] /\ unlisted \in [Entries -> 0 .. 2]
      /\ \A k \in Entries : missing[k] <= unlisted[k] /\ (point[k] = 0 => missing[k] = 0)
  BY DEF PointInv, MissesCounted
<1>3. counted \in [Entries -> 0 .. 2] /\ seen \in [Entries -> 0 .. 2]
  BY <1>2
<1>4. \A k \in Entries : counted[k] <= seen[k]
  BY <1>2
<1>5. \A k \in Entries : point[k] = 0 => counted[k] = 0
  BY <1>2
<1>6. \A k \in S : k \in Entries /\ seen[k] = 2
  BY <1>3, <1>4 DEF Gone
<1>7. cleaner'.stale \subseteq S
  BY <1>1
<1> HIDE DEF counted, seen, S
<1>8. TextsWritten'
  BY <1>1 DEF PointInv, TextsWritten, rowVars
<1>9. MissesCounted'
  BY <1>1, <1>3, <1>4, <1>5, <1>6, <1>7 DEF MissesCounted
<1> QED BY <1>1, <1>8, <1>9 DEF PointInv, HealthyPointsStay

LEMMA DeletePointsSound ==
  ASSUME PointInv, DeletePoints PROVE PointInv'
<1>1. /\ point' = [k \in Entries |-> IF k \in cleaner.stale THEN 0 ELSE point[k]]
      /\ missing' = [k \in Entries |-> IF k \in cleaner.stale THEN 0 ELSE missing[k]]
      /\ bereft' = bereft \cup {k \in cleaner.stale \cap ActiveRows : unlisted[k] < 2}
      /\ cleaner.pc = "delete" /\ cleaner' = NoCleaner
      /\ UNCHANGED <<rowVars, embedder, sweep, unlisted>>
  BY DEF DeletePoints
<1>2. HealthyPointsStay'
  BY <1>1 DEF PointInv, HealthyPointsStay, MissesCounted
<1>3. MissesCounted'
  BY <1>1 DEF PointInv, MissesCounted, NoCleaner
<1>4. TextsWritten'
  BY <1>1 DEF PointInv, TextsWritten, rowVars
<1> QED BY <1>2, <1>3, <1>4 DEF PointInv

LEMMA ScanSound ==
  ASSUME PointInv, ReadValid \/ CleanerFails \/ KnowledgeRestart PROVE PointInv'
<1>1. /\ cleaner'.pc # "delete" /\ UNCHANGED <<rowVars, point, unlisted, bereft>>
      /\ missing' = missing \/ missing' = [k \in Entries |-> 0]
  BY DEF ReadValid, CleanerFails, KnowledgeRestart, NoCleaner
<1>2. /\ embedder' = embedder \/ embedder' = [s \in EmbedSlots |-> NoEmbedder]
      /\ sweep' = sweep \/ sweep' = NoSweep
  BY DEF ReadValid, CleanerFails, KnowledgeRestart
<1>3. TextsWritten'
  BY <1>1, <1>2 DEF PointInv, TextsWritten, rowVars, NoSweep
<1>4. MissesCounted'
  BY <1>1 DEF PointInv, MissesCounted
<1> QED BY <1>1, <1>3, <1>4 DEF PointInv, HealthyPointsStay

LEMMA KnowledgeStep == PointInv /\ [KnowledgeNext]_knowledgeVars => PointInv'
<1> SUFFICES ASSUME PointInv, [KnowledgeNext]_knowledgeVars PROVE PointInv'
  OBVIOUS
<1>1. ASSUME KnowledgeNext PROVE PointInv'
  BY <1>1, CreateSound, WriteSound, ForgetSound, EmbedOneSound, SweepSound, CountSound, DeletePointsSound, ScanSound
     DEF KnowledgeNext
<1>2. CASE UNCHANGED knowledgeVars
  BY <1>2 DEF knowledgeVars, rowVars, cleanerVars, PointInv, TextsWritten, MissesCounted, HealthyPointsStay
<1> QED BY <1>1, <1>2

\* No active row loses its point unless two complete scans in a row missed the row,
\* whatever is written, restored, rolled back, embedded late or restarted meanwhile.
THEOREM PointsStay == KnowledgeSpec => []HealthyPointsStay
<1>1. PointInv => HealthyPointsStay
  BY DEF PointInv
<1> QED BY <1>1, PointInitial, KnowledgeStep, PTL DEF KnowledgeSpec

--------------------------------------------------------------------------------
(* The event monitor of a group *)

Verdicts   == {"alert", "quiet"}
BatchRows  == [through : Nat, last : Nat, result : Verdicts \cup {"none"}]
MonRows    == [enabled : BOOLEAN, config : Nat, pending : BOOLEAN, owner : Nat, through : Nat, leaseOver : BOOLEAN,
               batch : BatchRows, since : Nat, last : Nat]
JudgeRows  == [pc : {"none", "judge", "facts", "alert", "finish"}, config : Nat, through : Nat, from : Nat,
               last : Nat, result : Verdicts \cup {"none"}, ok : BOOLEAN]
FlushRows  == [pc : {"none", "read"}, seen : Nat]

MonTypeOK ==
  /\ mon \in MonRows
  /\ judge \in [Analyses -> JudgeRows]
  /\ flush \in FlushRows
  /\ {recorded, batches, monConfigs, instance} \subseteq Nat

\* The row: the cursor is on captured messages, a claim is on the batch that is kept, a
\* kept batch has a message behind the cursor, and a page is read while nothing is claimed.
RowHolds ==
  /\ mon.since <= recorded /\ mon.last <= recorded /\ mon.batch.last <= recorded
  /\ mon.config <= monConfigs
  /\ mon.batch.through <= batches
  /\ mon.through # 0 => mon.batch.through = mon.through
  /\ mon.batch.through # 0 => Lowest < mon.batch.last
  /\ flush.pc = "read" => mon.through = 0

\* An analysis of the kept batch holds its claim, and is of its messages and its result.
AtWork(j)   == judge[j].pc # "none"
OnBatch(j)  == AtWork(j) /\ judge[j].through = mon.batch.through
JudgesHold ==
  /\ \A j \in Analyses : AtWork(j) => judge[j].through \in 1 .. batches
  /\ \A j \in Analyses : judge[j].pc \in {"facts", "alert"} => judge[j].result \in Verdicts
  /\ \A i, j \in Analyses : AtWork(i) /\ AtWork(j) /\ judge[i].through = judge[j].through => i = j
  /\ \A j \in Analyses : OnBatch(j) =>
       /\ mon.through = judge[j].through /\ ~mon.leaseOver
       /\ judge[j].config = mon.config /\ judge[j].from = Lowest + 1 /\ judge[j].last = mon.batch.last
       /\ judge[j].pc # "finish" => judge[j].result = mon.batch.result

\* What was stored of a batch is its result.
FactsHold ==
  /\ \A f \in findings : f[1] \in 1 .. batches /\ f[2] \in Verdicts /\ f = <<f[1], f[2]>>
  /\ \A f \in findings : f[1] = mon.batch.through => f[2] = mon.batch.result
  /\ \A f \in findings, j \in Analyses :
       judge[j].pc = "facts" /\ f[1] = judge[j].through => f[2] = judge[j].result
  /\ \A f, g \in findings : f[1] = g[1] => f = g

\* Pages that were or may be alerted of begin at the cursor's next message at most, and
\* only the kept batch begins there; pages of one configuration begin at different ones.
PageUnder(j)   == <<judge[j].from, judge[j].config, judge[j].through>>
Pages       == alerts \cup {PageUnder(j) : j \in {i \in Analyses : AtWork(i)}}
PagesHold ==
  /\ \A x \in Pages : x \in Nat \X Nat \X Nat /\ x[3] \in 1 .. batches /\ x[2] <= mon.config
  /\ \A x \in Pages : x[2] = mon.config =>
       x[1] <= Lowest \/ (x[1] = Lowest + 1 /\ x[3] = mon.batch.through)
  /\ \A x, y \in Pages : x[1] = y[1] /\ x[2] = y[2] => x[3] = y[3]

MonInv == MonTypeOK /\ RowHolds /\ JudgesHold /\ FactsHold /\ PagesHold /\ CursorFollowsJudgement

LEMMA MonInitial == MonitorInit => MonInv
<1> SUFFICES ASSUME MonitorInit PROVE MonInv
  OBVIOUS
<1> USE DEF MonitorInit, NoBatch, NoFlush, NoJudge
<1>1. MonTypeOK
  BY DEF MonTypeOK, MonRows, BatchRows, JudgeRows, FlushRows, Verdicts
<1>2. RowHolds
  BY DEF RowHolds, Lowest
<1>3. JudgesHold
  BY DEF JudgesHold, AtWork, OnBatch
<1>4. FactsHold
  BY DEF FactsHold
<1>5. PagesHold
  BY DEF PagesHold, Pages, AtWork
<1>6. CursorFollowsJudgement
  BY DEF CursorFollowsJudgement
<1> QED BY <1>1, <1>2, <1>3, <1>4, <1>5, <1>6 DEF MonInv

\* The numbers of the invariant.
LEMMA MonNumbers ==
  ASSUME MonInv
  PROVE  /\ recorded \in Nat /\ batches \in Nat /\ monConfigs \in Nat /\ instance \in Nat
         /\ mon.config \in Nat /\ mon.owner \in Nat /\ mon.through \in Nat /\ mon.since \in Nat /\ mon.last \in Nat
         /\ mon.batch \in BatchRows /\ mon.batch.through \in Nat /\ mon.batch.last \in Nat
         /\ Lowest \in Nat /\ mon \in MonRows
         /\ \A j \in Analyses : /\ judge[j] \in JudgeRows /\ judge[j].through \in Nat /\ judge[j].from \in Nat
                                /\ judge[j].last \in Nat /\ judge[j].config \in Nat
BY DEF MonInv, MonTypeOK, MonRows, BatchRows, JudgeRows, Lowest

\* A step that only captures, wakes, ends analyses, or lets a claim nobody works under go.
LEMMA QuietKeeps ==
  ASSUME MonInv, MonTypeOK', recorded <= recorded',
         UNCHANGED <<batches, monConfigs, judged, findings, alerts>>,
         \A j \in Analyses : AtWork(j)' => judge'[j] = judge[j],
         mon'.batch = mon.batch, mon'.since = mon.since, mon'.last = mon.last, mon'.config = mon.config,
         \/ mon'.through = mon.through
         \/ mon'.through = 0 /\ \A j \in Analyses : AtWork(j)' => judge[j].through # mon.through,
         mon'.leaseOver => \/ mon.leaseOver
                           \/ \A j \in Analyses : AtWork(j)' => judge[j].through # mon.through,
         flush'.pc = "read" => mon'.through = 0
  PROVE  MonInv'
<1>1. Lowest' = Lowest
  BY DEF Lowest
<1>2. recorded \in Nat /\ recorded' \in Nat /\ mon.since \in Nat /\ mon.last \in Nat /\ mon.batch.last \in Nat
  BY MonNumbers DEF MonTypeOK
<1>3. RowHolds'
  BY <1>1, <1>2 DEF MonInv, RowHolds
<1>a. \A j \in Analyses : AtWork(j)' => AtWork(j) /\ (OnBatch(j)' => OnBatch(j))
  BY DEF AtWork, OnBatch
<1>b. \A j \in Analyses : judge'[j].pc # "none" <=> AtWork(j)'
  BY DEF AtWork
<1>4. JudgesHold'
  <2>1. \A j \in Analyses : OnBatch(j)' => OnBatch(j) /\ AtWork(j)'
    BY <1>a DEF OnBatch
  <2>2. \A j \in Analyses : OnBatch(j)' => mon'.through = mon.through /\ ~mon'.leaseOver
    BY <2>1 DEF MonInv, JudgesHold, OnBatch
  <2>3. \A j \in Analyses : judge'[j].pc \in {"facts", "alert"} => judge'[j].result \in Verdicts
    BY <1>b DEF MonInv, JudgesHold
  <2>4. \A j \in Analyses : AtWork(j)' => judge'[j].through \in 1 .. batches'
    BY <1>a DEF MonInv, JudgesHold
  <2>5. \A i, j \in Analyses : AtWork(i)' /\ AtWork(j)' /\ judge'[i].through = judge'[j].through => i = j
    BY <1>a DEF MonInv, JudgesHold
  <2>6. \A j \in Analyses : OnBatch(j)' =>
          /\ mon'.through = judge'[j].through /\ ~mon'.leaseOver
          /\ judge'[j].config = mon'.config /\ judge'[j].from = Lowest' + 1 /\ judge'[j].last = mon'.batch.last
          /\ judge'[j].pc # "finish" => judge'[j].result = mon'.batch.result
    BY <1>1, <2>1, <2>2 DEF MonInv, JudgesHold
  <2> QED BY <2>3, <2>4, <2>5, <2>6 DEF JudgesHold
<1>5. FactsHold'
  <2>1. \A f \in findings', j \in Analyses :
           judge'[j].pc = "facts" /\ f[1] = judge'[j].through => f[2] = judge'[j].result
    BY <1>b DEF MonInv, FactsHold
  <2> QED BY <2>1 DEF MonInv, FactsHold
<1>6. \A x \in Pages' : x \in Pages
  BY <1>a DEF Pages, PageUnder
<1>7. PagesHold'
  BY <1>1, <1>6 DEF MonInv, PagesHold
<1>8. CursorFollowsJudgement'
  BY DEF MonInv, CursorFollowsJudgement
<1> QED BY <1>3, <1>4, <1>5, <1>7, <1>8 DEF MonInv

\* A step after which no batch is kept and every page is behind the cursor.
LEMMA BatchDropped ==
  ASSUME MonInv, MonTypeOK', recorded' = recorded,
         UNCHANGED <<batches, findings, alerts>>,
         \A j \in Analyses : AtWork(j)' => judge'[j] = judge[j],
         mon'.batch = NoBatch, mon'.through = 0,
         mon'.since <= recorded, mon'.last <= recorded,
         mon.config <= mon'.config, mon'.config <= monConfigs',
         \A x \in Pages : x[2] = mon'.config => x[1] <= Lowest',
         CursorFollowsJudgement'
  PROVE  MonInv'
<1>1. NoBatch.through = 0 /\ NoBatch.last = 0
  BY DEF NoBatch
<1>2. recorded \in Nat /\ mon.config \in Nat /\ mon'.config \in Nat /\ batches \in Nat
  BY MonNumbers DEF MonTypeOK, MonRows
<1>3. RowHolds'
  BY <1>1, <1>2 DEF RowHolds
<1>a. \A j \in Analyses : AtWork(j)' => AtWork(j)
  BY DEF AtWork
<1>b. \A j \in Analyses : judge'[j].pc # "none" <=> AtWork(j)'
  BY DEF AtWork
<1>4. JudgesHold'
  <2>1. \A j \in Analyses : AtWork(j)' => judge'[j].through \in 1 .. batches'
    BY <1>a DEF MonInv, JudgesHold
  <2>2. \A j \in Analyses : ~OnBatch(j)'
    BY <1>1, <2>1 DEF OnBatch
  <2>3. \A j \in Analyses : judge'[j].pc \in {"facts", "alert"} => judge'[j].result \in Verdicts
    BY <1>b DEF MonInv, JudgesHold
  <2>4. \A i, j \in Analyses : AtWork(i)' /\ AtWork(j)' /\ judge'[i].through = judge'[j].through => i = j
    BY <1>a DEF MonInv, JudgesHold
  <2> QED BY <2>1, <2>2, <2>3, <2>4 DEF JudgesHold
<1>5. FactsHold'
  <2>1. \A f \in findings', j \in Analyses :
           judge'[j].pc = "facts" /\ f[1] = judge'[j].through => f[2] = judge'[j].result
    BY <1>b DEF MonInv, FactsHold
  <2>2. \A f \in findings' : f[1] # mon'.batch.through
    BY <1>1 DEF MonInv, FactsHold
  <2> QED BY <2>1, <2>2 DEF MonInv, FactsHold
<1>6. \A x \in Pages' : x \in Pages
  BY <1>a DEF Pages, PageUnder
<1>7. PagesHold'
  <2>1. \A x \in Pages : x[2] <= mon'.config
    BY <1>2 DEF MonInv, PagesHold
  <2> QED BY <1>6, <2>1 DEF MonInv, PagesHold
<1> QED BY <1>3, <1>4, <1>5, <1>7 DEF MonInv

\* An analysis goes on to the alert, or to its end, storing its result and alerting at most.
LEMMA JudgeAdvances ==
  ASSUME MonInv, MonTypeOK', NEW j \in Analyses, AtWork(j), AtWork(j)',
         UNCHANGED <<mon, recorded, batches, monConfigs, judged>>, flush' = flush,
         \A i \in Analyses \ {j} : judge'[i] = judge[i],
         /\ judge'[j].config = judge[j].config /\ judge'[j].through = judge[j].through
         /\ judge'[j].from = judge[j].from /\ judge'[j].last = judge[j].last,
         \/ judge'[j].pc = "finish"
         \/ judge'[j].pc = "alert" /\ judge[j].pc = "facts" /\ judge'[j].result = judge[j].result,
         \/ findings' = findings
         \/ judge[j].pc = "facts" /\ findings' = findings \cup {<<judge[j].through, judge[j].result>>},
         alerts' \subseteq alerts \cup {PageUnder(j)}
  PROVE  MonInv'
<1>1. Lowest' = Lowest
  BY DEF Lowest
<1>3. RowHolds'
  BY <1>1 DEF MonInv, RowHolds
<1>a. \A i \in Analyses : /\ AtWork(i)' = AtWork(i) /\ OnBatch(i)' = OnBatch(i)
                          /\ judge'[i].through = judge[i].through /\ judge'[i].config = judge[i].config
                          /\ judge'[i].from = judge[i].from /\ judge'[i].last = judge[i].last
  BY DEF AtWork, OnBatch
<1>b. \A i \in Analyses : judge'[i].pc \in {"judge", "facts"} => i # j /\ judge'[i] = judge[i]
  OBVIOUS
<1>4. JudgesHold'
  <2>1. \A i \in Analyses : AtWork(i)' => judge'[i].through \in 1 .. batches'
    BY <1>a DEF MonInv, JudgesHold
  <2>3. \A i \in Analyses : judge'[i].pc \in {"facts", "alert"} => judge'[i].result \in Verdicts
    BY DEF MonInv, JudgesHold
  <2>4. \A i, k \in Analyses : AtWork(i)' /\ AtWork(k)' /\ judge'[i].through = judge'[k].through => i = k
    BY <1>a DEF MonInv, JudgesHold
  <2>5. \A i \in Analyses : OnBatch(i)' =>
          /\ mon'.through = judge'[i].through /\ ~mon'.leaseOver
          /\ judge'[i].config = mon'.config /\ judge'[i].from = Lowest' + 1 /\ judge'[i].last = mon'.batch.last
    BY <1>1, <1>a DEF MonInv, JudgesHold
  <2>6. \A i \in Analyses : OnBatch(i)' /\ judge'[i].pc # "finish" => judge'[i].result = mon'.batch.result
    BY <1>a DEF MonInv, JudgesHold
  <2> QED BY <2>1, <2>3, <2>4, <2>5, <2>6 DEF JudgesHold
<1>5. FactsHold'
  <2>1. CASE findings' = findings
    <3>1. \A f \in findings', i \in Analyses :
             judge'[i].pc = "facts" /\ f[1] = judge'[i].through => f[2] = judge'[i].result
      BY <1>b, <2>1 DEF MonInv, FactsHold
    <3> QED BY <2>1, <3>1 DEF MonInv, FactsHold
  <2>2. CASE judge[j].pc = "facts" /\ findings' = findings \cup {<<judge[j].through, judge[j].result>>}
    <3> DEFINE new == <<judge[j].through, judge[j].result>>
    <3>1. judge[j].through \in 1 .. batches /\ judge[j].result \in Verdicts
      BY <2>2 DEF MonInv, JudgesHold
    <3>2. new[1] = judge[j].through /\ new[2] = judge[j].result
      OBVIOUS
    <3>3. judge[j].through = mon.batch.through => judge[j].result = mon.batch.result
      BY <2>2 DEF MonInv, JudgesHold, OnBatch
    <3>4. \A f \in findings : f[1] = judge[j].through => f = new
      BY <2>2 DEF MonInv, FactsHold
    <3>5. \A i \in Analyses : judge'[i].pc = "facts" => judge[i].through # judge[j].through /\ judge'[i] = judge[i]
      BY <1>b, <2>2 DEF MonInv, JudgesHold, AtWork
    <3>6. \A f \in findings' : f \in findings \/ f = new
      BY <2>2
    <3> HIDE DEF new
    <3>7. \A f \in findings' : f[1] \in 1 .. batches' /\ f[2] \in Verdicts /\ f = <<f[1], f[2]>>
      BY <3>1, <3>2, <3>6 DEF MonInv, FactsHold, new
    <3>8. \A f \in findings' : f[1] = mon'.batch.through => f[2] = mon'.batch.result
      BY <3>2, <3>3, <3>6 DEF MonInv, FactsHold
    <3>9. \A f \in findings', i \in Analyses :
             judge'[i].pc = "facts" /\ f[1] = judge'[i].through => f[2] = judge'[i].result
      BY <3>2, <3>5, <3>6 DEF MonInv, FactsHold
    <3>10. \A f, g \in findings' : f[1] = g[1] => f = g
      BY <3>2, <3>4, <3>6 DEF MonInv, FactsHold
    <3> QED BY <3>7, <3>8, <3>9, <3>10 DEF FactsHold
  <2> QED BY <2>1, <2>2
<1>6. \A x \in Pages' : x \in Pages
  <2>1. \A i \in Analyses : PageUnder(i)' = PageUnder(i)
    BY <1>a DEF PageUnder
  <2> QED BY <1>a, <2>1 DEF Pages
<1>7. PagesHold'
  BY <1>1, <1>6 DEF MonInv, PagesHold
<1>8. CursorFollowsJudgement'
  BY DEF MonInv, CursorFollowsJudgement
<1> QED BY <1>3, <1>4, <1>5, <1>7, <1>8 DEF MonInv

LEMMA UnownedRow ==
  ASSUME NEW m \in MonRows
  PROVE  /\ Unowned(m) \in MonRows
         /\ Unowned(m).through = 0 /\ Unowned(m).leaseOver = FALSE /\ Unowned(m).owner = 0
         /\ Unowned(m).enabled = m.enabled /\ Unowned(m).pending = m.pending
         /\ Unowned(m).batch = m.batch /\ Unowned(m).since = m.since /\ Unowned(m).last = m.last
         /\ Unowned(m).config = m.config
BY DEF Unowned, MonRows

\* Nobody works under a claim whose lease ran out.
LEMMA LeaseOfTheGone ==
  ASSUME MonInv, mon.leaseOver, mon.through # 0
  PROVE  \A j \in Analyses : AtWork(j) => judge[j].through # mon.through
BY DEF MonInv, RowHolds, JudgesHold, OnBatch

LEMMA TimerFiresKeeps == MonInv /\ TimerFires => MonInv'
<1> SUFFICES ASSUME MonInv, TimerFires PROVE MonInv'
  OBVIOUS
<1>1. /\ UNCHANGED <<mon, recorded, flush, judge, instance, monConfigs, batches, judged, findings, alerts>>
  BY DEF TimerFires, history
<1>2. MonTypeOK' /\ \A j \in Analyses : AtWork(j)' => judge'[j] = judge[j]
  BY <1>1 DEF MonInv, MonTypeOK
<1>3. recorded <= recorded' /\ (flush'.pc = "read" => mon'.through = 0)
  BY <1>1, MonNumbers DEF MonInv, RowHolds
<1> QED BY <1>1, <1>2, <1>3, QuietKeeps

LEMMA CaptureKeeps == MonInv /\ Capture => MonInv'
<1> SUFFICES ASSUME MonInv, Capture PROVE MonInv'
  OBVIOUS
<1>1. /\ UNCHANGED <<mon, flush, judge, instance, monConfigs, batches, judged, findings, alerts>>
      /\ recorded' = recorded + 1
  BY DEF Capture, history
<1>2. MonTypeOK' /\ \A j \in Analyses : AtWork(j)' => judge'[j] = judge[j]
  BY <1>1 DEF MonInv, MonTypeOK
<1>3. recorded <= recorded' /\ (flush'.pc = "read" => mon'.through = 0)
  BY <1>1, MonNumbers DEF MonInv, RowHolds
<1> QED BY <1>1, <1>2, <1>3, QuietKeeps

LEMMA ObserveKeeps == MonInv /\ Observe => MonInv'
<1> SUFFICES ASSUME MonInv, Observe PROVE MonInv'
  OBVIOUS
<1>1. UNCHANGED <<recorded, flush, judge, instance, monConfigs, batches, judged, findings, alerts>>
  BY DEF Observe, history
<1>2. mon' = mon \/ mon' = [mon EXCEPT !.pending = TRUE]
  BY DEF Observe
<1>3. mon \in MonRows
  BY MonNumbers
<1>4. /\ mon' \in MonRows /\ mon'.through = mon.through /\ mon'.leaseOver = mon.leaseOver /\ mon'.batch = mon.batch
      /\ mon'.since = mon.since /\ mon'.last = mon.last /\ mon'.config = mon.config
  <2>1. CASE mon' = [mon EXCEPT !.pending = TRUE]
    BY <1>3, <2>1 DEF MonRows
  <2> QED BY <1>2, <1>3, <2>1
<1>5. MonTypeOK' /\ \A j \in Analyses : AtWork(j)' => judge'[j] = judge[j]
  BY <1>1, <1>4 DEF MonInv, MonTypeOK
<1>6. recorded <= recorded'
  BY <1>1, MonNumbers
<1>7. flush'.pc = "read" => mon'.through = 0
  BY <1>1, <1>4 DEF MonInv, RowHolds
<1> QED BY <1>1, <1>4, <1>5, <1>6, <1>7, QuietKeeps

LEMMA MonLeaseEndsKeeps == MonInv /\ MonLeaseEnds => MonInv'
<1> SUFFICES ASSUME MonInv, MonLeaseEnds PROVE MonInv'
  OBVIOUS
<1>1. /\ UNCHANGED <<recorded, flush, judge, instance, monConfigs, batches, judged, findings, alerts>>
      /\ mon' = [mon EXCEPT !.leaseOver = TRUE]
      /\ \A j \in Analyses : AtWork(j)' => judge[j].through # mon.through
  BY DEF MonLeaseEnds, history, AtWork
<1>3. mon \in MonRows
  BY MonNumbers
<1>4. /\ mon' \in MonRows /\ mon'.through = mon.through /\ mon'.batch = mon.batch
      /\ mon'.since = mon.since /\ mon'.last = mon.last /\ mon'.config = mon.config
  BY <1>1, <1>3 DEF MonRows
<1>5. MonTypeOK' /\ \A j \in Analyses : AtWork(j)' => judge'[j] = judge[j]
  BY <1>1, <1>4 DEF MonInv, MonTypeOK
<1>6. recorded <= recorded'
  BY <1>1, MonNumbers
<1>7. flush'.pc = "read" => mon'.through = 0
  BY <1>1, <1>4 DEF MonInv, RowHolds
<1> QED BY <1>1, <1>4, <1>5, <1>6, <1>7, QuietKeeps

LEMMA FlushBeginsKeeps == MonInv /\ FlushBegins => MonInv'
<1> SUFFICES ASSUME MonInv, FlushBegins PROVE MonInv'
  OBVIOUS
<1> DEFINE TakenDown == [Unowned(mon) EXCEPT !.pending = TRUE]
<1>1. UNCHANGED <<recorded, judge, instance, monConfigs, batches, judged, findings, alerts>> /\ flush = NoFlush
  BY DEF FlushBegins, history
<1>2. \/ UNCHANGED <<mon, flush>>
      \/ /\ mon.enabled /\ mon.through # 0 /\ mon.leaseOver
         /\ mon' = TakenDown
         /\ flush' = IF mon'.enabled /\ mon'.pending THEN [pc |-> "read", seen |-> mon'.config] ELSE NoFlush
      \/ /\ ~(mon.enabled /\ mon.through # 0)
         /\ mon' = mon
         /\ flush' = IF mon.enabled /\ mon.pending THEN [pc |-> "read", seen |-> mon.config] ELSE NoFlush
  BY DEF FlushBegins
<1>3. mon \in MonRows /\ flush \in FlushRows /\ mon.config \in Nat /\ recorded <= recorded'
  BY <1>1, MonNumbers DEF MonInv, MonTypeOK
<1>4. flush.pc = "none"
  BY <1>1 DEF NoFlush
<1>5. CASE UNCHANGED <<mon, flush>>
  <2>1. MonTypeOK' /\ \A j \in Analyses : AtWork(j)' => judge'[j] = judge[j]
    BY <1>1, <1>5 DEF MonInv, MonTypeOK
  <2> QED BY <1>1, <1>3, <1>4, <1>5, <2>1, QuietKeeps
<1>6. CASE /\ mon.enabled /\ mon.through # 0 /\ mon.leaseOver
           /\ mon' = TakenDown
           /\ flush' = IF mon'.enabled /\ mon'.pending THEN [pc |-> "read", seen |-> mon'.config] ELSE NoFlush
  <2>1. /\ mon' \in MonRows /\ mon'.through = 0 /\ mon'.leaseOver = FALSE /\ mon'.batch = mon.batch
        /\ mon'.since = mon.since /\ mon'.last = mon.last /\ mon'.config = mon.config
    <3>1. Unowned(mon) \in MonRows /\ mon' = [Unowned(mon) EXCEPT !.pending = TRUE]
      BY <1>3, <1>6, UnownedRow
    <3> QED BY <1>3, <3>1, UnownedRow DEF MonRows
  <2>2. flush' \in FlushRows
    BY <1>3, <1>6, <2>1 DEF FlushRows, NoFlush
  <2>3. MonTypeOK' /\ \A j \in Analyses : AtWork(j)' => judge'[j] = judge[j]
    BY <1>1, <2>1, <2>2 DEF MonInv, MonTypeOK
  <2>4. \A j \in Analyses : AtWork(j)' => judge[j].through # mon.through
    BY <1>1, <1>6, LeaseOfTheGone DEF AtWork
  <2> QED BY <1>1, <1>3, <2>1, <2>3, <2>4, QuietKeeps
<1>7. CASE /\ ~(mon.enabled /\ mon.through # 0)
           /\ mon' = mon
           /\ flush' = IF mon.enabled /\ mon.pending THEN [pc |-> "read", seen |-> mon.config] ELSE NoFlush
  <2>2. flush' \in FlushRows /\ (flush'.pc = "read" => mon'.through = 0)
    BY <1>3, <1>7 DEF FlushRows, NoFlush
  <2>3. MonTypeOK' /\ \A j \in Analyses : AtWork(j)' => judge'[j] = judge[j]
    BY <1>1, <1>7, <2>2 DEF MonInv, MonTypeOK
  <2> QED BY <1>1, <1>3, <1>7, <2>2, <2>3, QuietKeeps
<1> QED BY <1>2, <1>5, <1>6, <1>7

LEMMA PersistFactsKeeps == ASSUME NEW j \in Analyses, MonInv, PersistFacts(j) PROVE MonInv'
<1> DEFINE Next(s) == judge' = [judge EXCEPT ![j] = s]
<1>1. /\ UNCHANGED <<mon, recorded, flush, instance, batches, monConfigs, judged, alerts>>
      /\ judge[j].pc = "facts"
  BY DEF PersistFacts
<1>2. \/ Next([judge[j] EXCEPT !.pc = "finish"]) /\ findings' = findings
      \/ /\ findings' = findings \cup {<<judge[j].through, judge[j].result>>}
         /\ \/ Next([judge[j] EXCEPT !.pc = "alert"])
            \/ Next([judge[j] EXCEPT !.pc = "finish", !.ok = TRUE])
  BY DEF PersistFacts, Judges
<1>3. judge[j] \in JudgeRows /\ judge \in [Analyses -> JudgeRows]
  BY DEF MonInv, MonTypeOK
<1>4. /\ judge' \in [Analyses -> JudgeRows]
      /\ \A i \in Analyses \ {j} : judge'[i] = judge[i]
      /\ judge'[j].config = judge[j].config /\ judge'[j].through = judge[j].through
      /\ judge'[j].from = judge[j].from /\ judge'[j].last = judge[j].last
      /\ \/ judge'[j].pc = "finish"
         \/ judge'[j].pc = "alert" /\ judge'[j].result = judge[j].result
  <2>1. CASE Next([judge[j] EXCEPT !.pc = "finish"])
    BY <1>3, <2>1 DEF JudgeRows
  <2>2. CASE Next([judge[j] EXCEPT !.pc = "alert"])
    BY <1>3, <2>2 DEF JudgeRows
  <2>3. CASE Next([judge[j] EXCEPT !.pc = "finish", !.ok = TRUE])
    BY <1>3, <2>3 DEF JudgeRows
  <2> QED BY <1>2, <2>1, <2>2, <2>3
<1>5. MonTypeOK'
  BY <1>1, <1>4 DEF MonInv, MonTypeOK
<1>6. AtWork(j) /\ AtWork(j)'
  BY <1>1, <1>4 DEF AtWork
<1>7. \/ findings' = findings
      \/ judge[j].pc = "facts" /\ findings' = findings \cup {<<judge[j].through, judge[j].result>>}
  BY <1>1, <1>2
<1> QED BY <1>1, <1>4, <1>5, <1>6, <1>7, JudgeAdvances

LEMMA AlertKeeps == ASSUME NEW j \in Analyses, MonInv, Alert(j) PROVE MonInv'
<1> DEFINE Next(s) == judge' = [judge EXCEPT ![j] = s]
<1>1. /\ UNCHANGED <<mon, recorded, flush, instance, batches, monConfigs, judged, findings>>
      /\ judge[j].pc = "alert"
      /\ alerts' \subseteq alerts \cup {PageUnder(j)}
  BY DEF Alert, PageUnder
<1>2. \/ Next([judge[j] EXCEPT !.pc = "finish"])
      \/ Next([judge[j] EXCEPT !.pc = "finish", !.ok = TRUE])
  BY DEF Alert, Judges
<1>3. judge[j] \in JudgeRows /\ judge \in [Analyses -> JudgeRows]
  BY DEF MonInv, MonTypeOK
<1>4. /\ judge' \in [Analyses -> JudgeRows]
      /\ \A i \in Analyses \ {j} : judge'[i] = judge[i]
      /\ judge'[j].config = judge[j].config /\ judge'[j].through = judge[j].through
      /\ judge'[j].from = judge[j].from /\ judge'[j].last = judge[j].last
      /\ judge'[j].pc = "finish"
  <2>1. CASE Next([judge[j] EXCEPT !.pc = "finish"])
    BY <1>3, <2>1 DEF JudgeRows
  <2>3. CASE Next([judge[j] EXCEPT !.pc = "finish", !.ok = TRUE])
    BY <1>3, <2>3 DEF JudgeRows
  <2> QED BY <1>2, <2>1, <2>3
<1>5. MonTypeOK'
  BY <1>1, <1>4 DEF MonInv, MonTypeOK
<1>6. AtWork(j) /\ AtWork(j)'
  BY <1>1, <1>4 DEF AtWork
<1> QED BY <1>1, <1>4, <1>5, <1>6, JudgeAdvances

\* An analysis that still owns its batch is of the batch that is kept.
LEMMA OwnerIsOnBatch ==
  ASSUME NEW j \in Analyses, MonInv, AtWork(j), mon.through = judge[j].through
  PROVE  OnBatch(j) /\ mon.through # 0 /\ mon.batch.through = mon.through
<1>1. judge[j].through \in 1 .. batches /\ mon.through \in Nat
  BY MonNumbers DEF MonInv, JudgesHold
<1> QED BY <1>1 DEF MonInv, RowHolds, OnBatch

LEMMA JudgeKeeps == ASSUME NEW j \in Analyses, MonInv, Judge(j) PROVE MonInv'
<1> DEFINE Next(s) == judge' = [judge EXCEPT ![j] = s]
<1>1. /\ UNCHANGED <<recorded, flush, instance, batches, monConfigs, judged, findings, alerts>>
      /\ judge[j].pc = "judge"
  BY DEF Judge, history
<1>2. \/ Next([judge[j] EXCEPT !.pc = "finish"]) /\ mon' = mon
      \/ Next([judge[j] EXCEPT !.pc = "finish", !.ok = TRUE]) /\ mon' = mon
      \/ /\ mon.through = judge[j].through
         /\ \E result \in IF judge[j].result # "none" THEN {judge[j].result} ELSE Verdicts :
              /\ Next([judge[j] EXCEPT !.pc = "facts", !.result = result])
              /\ mon' = [mon EXCEPT !.batch.result = result]
  BY DEF Judge, Judges, OwnsBatch, Verdicts
<1>3. judge[j] \in JudgeRows /\ judge \in [Analyses -> JudgeRows] /\ mon \in MonRows /\ mon.batch \in BatchRows
  BY MonNumbers DEF MonInv, MonTypeOK
<1>4. AtWork(j)
  BY <1>1 DEF AtWork
<1>5. CASE /\ mon' = mon
           /\ \/ Next([judge[j] EXCEPT !.pc = "finish"])
              \/ Next([judge[j] EXCEPT !.pc = "finish", !.ok = TRUE])
  <2>1. /\ judge' \in [Analyses -> JudgeRows]
        /\ \A i \in Analyses \ {j} : judge'[i] = judge[i]
        /\ judge'[j].config = judge[j].config /\ judge'[j].through = judge[j].through
        /\ judge'[j].from = judge[j].from /\ judge'[j].last = judge[j].last
        /\ judge'[j].pc = "finish"
    <3>1. CASE Next([judge[j] EXCEPT !.pc = "finish"])
      BY <1>3, <3>1 DEF JudgeRows
    <3>2. CASE Next([judge[j] EXCEPT !.pc = "finish", !.ok = TRUE])
      BY <1>3, <3>2 DEF JudgeRows
    <3> QED BY <1>5, <3>1, <3>2
  <2>2. MonTypeOK'
    BY <1>1, <1>5, <2>1 DEF MonInv, MonTypeOK
  <2>3. AtWork(j)' /\ alerts' \subseteq alerts \cup {PageUnder(j)}
    BY <1>1, <2>1 DEF AtWork
  <2> QED BY <1>1, <1>4, <1>5, <2>1, <2>2, <2>3, JudgeAdvances
<1>6. CASE /\ mon.through = judge[j].through
           /\ \E result \in IF judge[j].result # "none" THEN {judge[j].result} ELSE Verdicts :
                /\ Next([judge[j] EXCEPT !.pc = "facts", !.result = result])
                /\ mon' = [mon EXCEPT !.batch.result = result]
  <2>1. PICK result \in IF judge[j].result # "none" THEN {judge[j].result} ELSE Verdicts :
          /\ Next([judge[j] EXCEPT !.pc = "facts", !.result = result])
          /\ mon' = [mon EXCEPT !.batch.result = result]
    BY <1>6
  <2>2. OnBatch(j) /\ mon.through # 0 /\ mon.batch.through = mon.through
    BY <1>4, <1>6, OwnerIsOnBatch
  <2>3. judge[j].result = mon.batch.result
    BY <1>1, <2>2 DEF MonInv, JudgesHold
  <2>4. result \in Verdicts /\ (mon.batch.result # "none" => result = mon.batch.result)
    BY <1>3, <2>1, <2>3 DEF JudgeRows, Verdicts
  <2>5. /\ mon' \in MonRows /\ mon'.batch.through = mon.batch.through /\ mon'.batch.last = mon.batch.last
        /\ mon'.batch.result = result
        /\ mon'.through = mon.through /\ mon'.leaseOver = mon.leaseOver /\ mon'.since = mon.since
        /\ mon'.last = mon.last /\ mon'.config = mon.config
    BY <1>3, <2>1, <2>4 DEF MonRows, BatchRows
  <2>6. /\ judge' \in [Analyses -> JudgeRows]
        /\ \A i \in Analyses \ {j} : judge'[i] = judge[i]
        /\ judge'[j].config = judge[j].config /\ judge'[j].through = judge[j].through
        /\ judge'[j].from = judge[j].from /\ judge'[j].last = judge[j].last
        /\ judge'[j].pc = "facts" /\ judge'[j].result = result
    BY <1>3, <2>1, <2>4 DEF JudgeRows
  <2>7. MonTypeOK'
    BY <1>1, <2>5, <2>6 DEF MonInv, MonTypeOK
  <2>8. Lowest' = Lowest
    BY <2>5 DEF Lowest
  <2>9. RowHolds'
    BY <1>1, <2>5, <2>8 DEF MonInv, RowHolds
  <2>a. \A i \in Analyses : /\ AtWork(i)' = AtWork(i) /\ OnBatch(i)' = OnBatch(i)
                            /\ judge'[i].through = judge[i].through /\ judge'[i].config = judge[i].config
                            /\ judge'[i].from = judge[i].from /\ judge'[i].last = judge[i].last
    BY <1>1, <2>5, <2>6 DEF AtWork, OnBatch
  <2>b. \A i \in Analyses \ {j} : ~OnBatch(i)
    BY <2>2 DEF MonInv, JudgesHold, OnBatch
  <2>10. JudgesHold'
    <3>1. \A i \in Analyses : AtWork(i)' => judge'[i].through \in 1 .. batches'
      BY <1>1, <2>a DEF MonInv, JudgesHold
    <3>2. \A i \in Analyses : judge'[i].pc \in {"facts", "alert"} => judge'[i].result \in Verdicts
      BY <2>4, <2>6 DEF MonInv, JudgesHold
    <3>3. \A i, k \in Analyses : AtWork(i)' /\ AtWork(k)' /\ judge'[i].through = judge'[k].through => i = k
      BY <2>a DEF MonInv, JudgesHold
    <3>4. \A i \in Analyses : OnBatch(i)' =>
            /\ mon'.through = judge'[i].through /\ ~mon'.leaseOver
            /\ judge'[i].config = mon'.config /\ judge'[i].from = Lowest' + 1 /\ judge'[i].last = mon'.batch.last
      BY <2>5, <2>8, <2>a DEF MonInv, JudgesHold
    <3>5. \A i \in Analyses : OnBatch(i)' => judge'[i].result = mon'.batch.result
      BY <2>5, <2>6, <2>a, <2>b
    <3> QED BY <3>1, <3>2, <3>3, <3>4, <3>5 DEF JudgesHold
  <2>c. mon.batch.through = judge[j].through
    BY <1>6, <2>2
  <2>11. \A f \in findings : f[1] = mon.batch.through => f[2] = result
    BY <2>4 DEF MonInv, FactsHold, Verdicts
  <2>12. FactsHold'
    <3>1. \A f \in findings', i \in Analyses :
             judge'[i].pc = "facts" /\ f[1] = judge'[i].through => f[2] = judge'[i].result
      BY <1>1, <2>6, <2>11, <2>c DEF MonInv, FactsHold
    <3> QED BY <1>1, <2>5, <2>11, <3>1 DEF MonInv, FactsHold
  <2>13. \A x \in Pages' : x \in Pages
    <3>1. \A i \in Analyses : PageUnder(i)' = PageUnder(i)
      BY <2>a DEF PageUnder
    <3> QED BY <1>1, <2>a, <3>1 DEF Pages
  <2>14. PagesHold'
    BY <1>1, <2>5, <2>8, <2>13 DEF MonInv, PagesHold
  <2>15. CursorFollowsJudgement'
    BY <1>1, <2>5 DEF MonInv, CursorFollowsJudgement
  <2> QED BY <2>7, <2>9, <2>10, <2>12, <2>14, <2>15 DEF MonInv
<1> QED BY <1>2, <1>5, <1>6

\* Where the row has dropped its batch every page is behind the cursor.
LEMMA NoPageAhead ==
  ASSUME MonInv, mon.batch.through = 0
  PROVE  \A x \in Pages : x[2] = mon.config => x[1] <= Lowest
<1>1. \A x \in Pages : x[3] # 0
  BY DEF MonInv, PagesHold
<1> QED BY <1>1 DEF MonInv, PagesHold

LEMMA ConfigureKeeps == MonInv /\ Configure => MonInv'
<1> SUFFICES ASSUME MonInv, Configure PROVE MonInv'
  OBVIOUS
<1>1. /\ UNCHANGED <<recorded, flush, judge, instance, batches, judged, findings, alerts>>
      /\ monConfigs' = monConfigs + 1
  BY DEF Configure, history
<1>2. PICK on \in BOOLEAN :
        LET reset == [Unowned(mon) EXCEPT !.batch = NoBatch, !.config = monConfigs + 1, !.enabled = on] IN
        mon' = IF ~on THEN [reset EXCEPT !.pending = FALSE]
               ELSE IF mon.enabled THEN [reset EXCEPT !.pending = @ \/ mon.through # 0]
               ELSE [reset EXCEPT !.pending = FALSE, !.since = recorded, !.last = 0]
  BY DEF Configure
<1>3. mon \in MonRows /\ recorded \in Nat /\ monConfigs \in Nat /\ mon.config \in Nat
  BY MonNumbers
<1> DEFINE reset == [Unowned(mon) EXCEPT !.batch = NoBatch, !.config = monConfigs + 1, !.enabled = on]
<1>4. NoBatch \in BatchRows
  BY DEF NoBatch, BatchRows
<1>5. /\ reset \in MonRows /\ reset.batch = NoBatch /\ reset.config = monConfigs + 1 /\ reset.through = 0
      /\ reset.since = mon.since /\ reset.last = mon.last
  <2>1. Unowned(mon) \in MonRows
    BY <1>3, UnownedRow
  <2>2. monConfigs + 1 \in Nat
    BY <1>3
  <2> QED BY <1>3, <1>4, <2>1, <2>2, UnownedRow DEF MonRows
<1>6. mon' = [reset EXCEPT !.pending = mon'.pending] \/ mon' = [reset EXCEPT !.pending = FALSE, !.since = recorded, !.last = 0]
  <2> HIDE DEF reset
  <2>1. CASE ~on
    BY <1>2, <1>5, <2>1 DEF reset, MonRows
  <2>2. CASE on /\ mon.enabled
    BY <1>2, <1>5, <2>2 DEF reset, MonRows
  <2>3. CASE on /\ ~mon.enabled
    BY <1>2, <2>3 DEF reset
  <2> QED BY <2>1, <2>2, <2>3
<1>7. mon'.pending \in BOOLEAN
  <2>1. (mon.through # 0) \in BOOLEAN /\ reset.pending \in BOOLEAN
    <3>1. reset.pending \in BOOLEAN
      BY <1>5 DEF MonRows
    <3> QED BY <3>1
  <2> HIDE DEF reset
  <2>2. CASE ~on
    BY <1>2, <1>5, <2>2 DEF reset, MonRows
  <2>3. CASE on /\ mon.enabled
    BY <1>2, <1>5, <2>1, <2>3 DEF reset, MonRows
  <2>4. CASE on /\ ~mon.enabled
    BY <1>2, <1>5, <2>4 DEF reset, MonRows
  <2> QED BY <2>2, <2>3, <2>4
<1> HIDE DEF reset
<1>8. /\ mon' \in MonRows /\ mon'.batch = NoBatch /\ mon'.through = 0 /\ mon'.config = monConfigs + 1
      /\ \/ mon'.since = mon.since /\ mon'.last = mon.last
         \/ mon'.since = recorded /\ mon'.last = 0
  <2>1. CASE mon' = [reset EXCEPT !.pending = mon'.pending]
    BY <1>5, <1>7, <2>1 DEF MonRows
  <2>2. CASE mon' = [reset EXCEPT !.pending = FALSE, !.since = recorded, !.last = 0]
    BY <1>3, <1>5, <2>2 DEF MonRows
  <2> QED BY <1>6, <2>1, <2>2
<1>9. MonTypeOK' /\ \A j \in Analyses : AtWork(j)' => judge'[j] = judge[j]
  BY <1>1, <1>3, <1>8 DEF MonInv, MonTypeOK
<1>10. mon'.since <= recorded /\ mon'.last <= recorded /\ mon.config <= monConfigs
  BY <1>3, <1>8 DEF MonInv, RowHolds
<1>11. \A x \in Pages : x[2] # mon'.config
  <2>1. \A x \in Pages : x[2] <= mon.config /\ x[2] \in Nat
    BY DEF MonInv, PagesHold
  <2> QED BY <1>3, <1>8, <1>10, <2>1
<1>12. CursorFollowsJudgement'
  BY <1>1, <1>3, <1>8 DEF MonInv, CursorFollowsJudgement
<1>13. mon.config <= mon'.config /\ mon'.config <= monConfigs'
  BY <1>1, <1>3, <1>8, <1>10
<1> QED BY <1>1, <1>8, <1>9, <1>10, <1>11, <1>12, <1>13, BatchDropped

LEMMA FinishAnalysisKeeps == ASSUME NEW j \in Analyses, MonInv, FinishAnalysis(j) PROVE MonInv'
<1>1. /\ UNCHANGED <<recorded, flush, instance, batches, monConfigs, findings, alerts>>
      /\ judge' = [judge EXCEPT ![j] = NoJudge] /\ judge[j].pc = "finish" /\ flush.pc = "none"
  BY DEF FinishAnalysis, Judges, NoFlush
<1>2. \/ UNCHANGED <<mon, judged>>
      \/ /\ mon' = Finished(j, mon)
         /\ judged' = IF judge[j].ok /\ OwnsBatch(j, mon) THEN judged \cup judge[j].from..judge[j].last ELSE judged
  BY DEF FinishAnalysis
<1>3. judge[j] \in JudgeRows /\ judge \in [Analyses -> JudgeRows] /\ mon \in MonRows /\ mon.batch \in BatchRows
  BY MonNumbers DEF MonInv, MonTypeOK
<1>4. NoJudge \in JudgeRows /\ NoJudge.pc = "none"
  BY DEF NoJudge, JudgeRows
<1>5. /\ judge' \in [Analyses -> JudgeRows]
      /\ \A i \in Analyses : AtWork(i)' => i # j /\ AtWork(i) /\ judge'[i] = judge[i]
  BY <1>1, <1>3, <1>4 DEF AtWork
<1>6. AtWork(j) /\ recorded \in Nat /\ recorded <= recorded' /\ flush'.pc # "read"
  BY <1>1, MonNumbers DEF AtWork
<1>7. CASE UNCHANGED <<mon, judged>>
  <2>1. MonTypeOK'
    BY <1>1, <1>5, <1>7 DEF MonInv, MonTypeOK
  <2> QED BY <1>1, <1>5, <1>6, <1>7, <2>1, QuietKeeps
<1>8. CASE mon.owner = instance /\ mon.through = judge[j].through /\ mon.enabled /\ judge[j].ok
           /\ mon' = Finished(j, mon) /\ judged' = judged \cup judge[j].from..judge[j].last
  <2>1. mon' = [Unowned(mon) EXCEPT !.last = mon.batch.last, !.batch = NoBatch, !.pending = TRUE]
    BY <1>8 DEF Finished
  <2>2. /\ mon' \in MonRows /\ mon'.batch = NoBatch /\ mon'.through = 0 /\ mon'.config = mon.config
        /\ mon'.since = mon.since /\ mon'.last = mon.batch.last
    <3>1. NoBatch \in BatchRows /\ Unowned(mon) \in MonRows /\ mon.batch.last \in Nat
      BY <1>3, UnownedRow, MonNumbers DEF NoBatch, BatchRows
    <3>2. Unowned(mon).through = 0 /\ Unowned(mon).config = mon.config /\ Unowned(mon).since = mon.since
      BY <1>3, UnownedRow
    <3> QED BY <2>1, <3>1, <3>2 DEF MonRows
  <2>3. OnBatch(j) /\ mon.through # 0 /\ mon.batch.through = mon.through
    BY <1>6, <1>8, OwnerIsOnBatch
  <2>4. judge[j].from = Lowest + 1 /\ judge[j].last = mon.batch.last /\ Lowest < mon.batch.last
    BY <2>3 DEF MonInv, JudgesHold, RowHolds
  <2>5. MonTypeOK'
    BY <1>1, <1>5, <2>2 DEF MonInv, MonTypeOK
  <2>6. mon'.since <= recorded /\ mon'.last <= recorded /\ mon.config <= mon'.config /\ mon'.config <= monConfigs'
    BY <1>1, <2>2, MonNumbers DEF MonInv, RowHolds
  <2>7. Lowest' = mon.batch.last /\ Lowest \in Nat /\ mon.batch.last \in Nat
    BY <2>2, <2>4, MonNumbers DEF Lowest
  <2>8. \A x \in Pages : x[2] = mon'.config => x[1] <= Lowest'
    <3>1. \A x \in Pages : x[1] \in Nat
      BY DEF MonInv, PagesHold
    <3>2. \A x \in Pages : x[2] = mon.config => x[1] <= Lowest \/ x[1] = Lowest + 1
      BY DEF MonInv, PagesHold
    <3> QED BY <2>2, <2>4, <2>7, <3>1, <3>2
  <2>9. CursorFollowsJudgement'
    <3>1. mon.last > 0 => (mon.since + 1)..mon.last \subseteq judged
      BY DEF MonInv, CursorFollowsJudgement
    <3>2. judged' = judged \cup (Lowest + 1)..mon.batch.last
      BY <1>8, <2>4
    <3>3. \A n \in (mon.since + 1)..mon.batch.last : n \in judged'
      <4>1. mon.since \in Nat /\ mon.last \in Nat
        BY MonNumbers
      <4> QED BY <2>7, <3>1, <3>2, <4>1 DEF Lowest
    <3> QED BY <2>2, <3>3 DEF CursorFollowsJudgement
  <2> QED BY <1>1, <1>5, <2>2, <2>5, <2>6, <2>8, <2>9, BatchDropped
<1>9. CASE ~(mon.owner = instance /\ mon.through = judge[j].through /\ mon.enabled /\ judge[j].ok)
           /\ mon' = Finished(j, mon) /\ judged' = judged
  <2>1. \/ mon' = mon
        \/ /\ mon.through = judge[j].through
           /\ \/ mon' = [Unowned(mon) EXCEPT !.pending = TRUE]
              \/ mon' = [Unowned(mon) EXCEPT !.pending = FALSE]
    BY <1>9 DEF Finished
  <2>2. CASE mon' = mon
    <3>1. MonTypeOK'
      BY <1>1, <1>5, <2>2 DEF MonInv, MonTypeOK
    <3> QED BY <1>1, <1>5, <1>6, <1>9, <2>2, <3>1, QuietKeeps
  <2>3. CASE /\ mon.through = judge[j].through
             /\ \/ mon' = [Unowned(mon) EXCEPT !.pending = TRUE]
                \/ mon' = [Unowned(mon) EXCEPT !.pending = FALSE]
    <3>1. /\ mon' \in MonRows /\ mon'.through = 0 /\ mon'.leaseOver = FALSE /\ mon'.batch = mon.batch
          /\ mon'.since = mon.since /\ mon'.last = mon.last /\ mon'.config = mon.config
      <4>1. Unowned(mon) \in MonRows
        BY <1>3, UnownedRow
      <4> QED BY <1>3, <2>3, <4>1, UnownedRow DEF MonRows
    <3>2. MonTypeOK'
      BY <1>1, <1>5, <3>1 DEF MonInv, MonTypeOK
    <3>3. \A i \in Analyses : AtWork(i)' => judge[i].through # mon.through
      BY <1>5, <1>6, <2>3 DEF MonInv, JudgesHold
    <3> QED BY <1>1, <1>5, <1>6, <1>9, <3>1, <3>2, <3>3, QuietKeeps
  <2> QED BY <2>1, <2>2, <2>3
<1> QED BY <1>2, <1>7, <1>8, <1>9 DEF OwnsBatch

LEMMA MonitorRestartKeeps == MonInv /\ MonitorRestart => MonInv'
<1> SUFFICES ASSUME MonInv, MonitorRestart PROVE MonInv'
  OBVIOUS
<1>1. /\ UNCHANGED <<mon, recorded, batches, monConfigs, judged, findings, alerts>>
      /\ judge' = [j \in Analyses |-> NoJudge] /\ flush' = NoFlush /\ instance' = instance + 1
  BY DEF MonitorRestart, history
<1>2. NoJudge \in JudgeRows /\ NoJudge.pc = "none" /\ NoFlush \in FlushRows /\ NoFlush.pc = "none"
  BY DEF NoJudge, JudgeRows, NoFlush, FlushRows
<1>3. MonTypeOK'
  BY <1>1, <1>2 DEF MonInv, MonTypeOK
<1>4. \A j \in Analyses : ~AtWork(j)'
  BY <1>1, <1>2 DEF AtWork
<1>5. recorded <= recorded' /\ flush'.pc # "read"
  BY <1>1, <1>2, MonNumbers
<1> QED BY <1>1, <1>3, <1>4, <1>5, QuietKeeps

LEMMA FlushPageKeeps == MonInv /\ FlushPage => MonInv'
<1> SUFFICES ASSUME MonInv, FlushPage PROVE MonInv'
  OBVIOUS
<1> DEFINE end == Least(Lowest + PageSize, Upmost)
<1>1. /\ UNCHANGED <<recorded, instance, monConfigs, judged, findings, alerts>>
      /\ flush.pc = "read" /\ flush' = NoFlush
  BY DEF FlushPage, history
<1>2. /\ recorded \in Nat /\ recorded <= recorded' /\ mon \in MonRows /\ Lowest \in Nat /\ mon.batch.last \in Nat
      /\ batches \in Nat /\ mon.batch.through \in Nat /\ PageSize \in Nat \ {0} /\ mon.batch \in BatchRows
      /\ mon.config \in Nat /\ instance \in Nat
  BY <1>1, MonNumbers, MonitorAssumption
<1>3. NoFlush \in FlushRows /\ NoFlush.pc = "none"
  BY DEF NoFlush, FlushRows
<1>4. mon.through = 0 /\ \A j \in Analyses : ~OnBatch(j)
  <2>1. mon.through = 0
    BY <1>1 DEF MonInv, RowHolds
  <2>2. \A j \in Analyses : OnBatch(j) => judge[j].through # 0
    BY DEF MonInv, JudgesHold, OnBatch
  <2> QED BY <2>1, <2>2 DEF MonInv, JudgesHold
<1>5. \/ UNCHANGED <<mon, judge, batches>>
      \/ /\ end <= Lowest
         /\ mon' = [mon EXCEPT !.batch = NoBatch, !.since = recorded, !.pending = FALSE]
         /\ UNCHANGED <<judge, batches>>
      \/ /\ end > Lowest
         /\ \E j \in Analyses : judge[j] = NoJudge
         /\ LET j == CHOOSE i \in Analyses : judge[i] = NoJudge
                through == IF mon.batch.through # 0 THEN mon.batch.through ELSE batches + 1 IN
            /\ batches' = IF mon.batch.through # 0 THEN batches ELSE batches + 1
            /\ mon' = [mon EXCEPT !.owner = instance, !.through = through, !.leaseOver = FALSE, !.pending = FALSE,
                                  !.batch = [mon.batch EXCEPT !.through = through, !.last = end]]
            /\ judge' = [judge EXCEPT ![j] =
                 [pc |-> "judge", config |-> mon.config, through |-> through, from |-> Lowest + 1,
                  last |-> end, result |-> mon.batch.result, ok |-> FALSE]]
  BY DEF FlushPage, Judges
<1>6. Upmost \in Nat /\ Upmost <= recorded /\ (mon.batch.last > 0 => Upmost = mon.batch.last)
  BY <1>2 DEF MonInv, RowHolds, Upmost
<1>7. /\ end \in Nat /\ end <= recorded
      /\ end = Lowest + PageSize \/ end = Upmost
  <2>1. Lowest + PageSize \in Nat
    BY <1>2
  <2>2. end = IF Lowest + PageSize < Upmost THEN Lowest + PageSize ELSE Upmost
    BY DEF Least
  <2> QED BY <1>2, <1>6, <2>1, <2>2
<1> HIDE DEF end
<1>8. CASE UNCHANGED <<mon, judge, batches>>
  <2>1. MonTypeOK'
    BY <1>1, <1>3, <1>8 DEF MonInv, MonTypeOK
  <2> QED BY <1>1, <1>2, <1>3, <1>8, <2>1, QuietKeeps
<1>9. CASE /\ end <= Lowest
           /\ mon' = [mon EXCEPT !.batch = NoBatch, !.since = recorded, !.pending = FALSE]
           /\ UNCHANGED <<judge, batches>>
  <2>1. mon.batch.through = 0
    <3>1. mon.batch.through # 0 => Lowest < mon.batch.last
      BY DEF MonInv, RowHolds
    <3>2. Lowest < mon.batch.last => end > Lowest
      BY <1>2, <1>6, <1>7
    <3> QED BY <1>2, <1>7, <1>9, <3>1, <3>2
  <2>2. NoBatch \in BatchRows
    BY DEF NoBatch, BatchRows
  <2>3. /\ mon' \in MonRows /\ mon'.batch = NoBatch /\ mon'.through = 0 /\ mon'.config = mon.config
        /\ mon'.since = recorded /\ mon'.last = mon.last
    BY <1>2, <1>4, <1>9, <2>2 DEF MonRows
  <2>4. MonTypeOK'
    BY <1>1, <1>3, <1>9, <2>3 DEF MonInv, MonTypeOK
  <2>5. mon'.since <= recorded /\ mon'.last <= recorded /\ mon.config <= mon'.config /\ mon'.config <= monConfigs'
    BY <1>1, <1>2, <2>3, MonNumbers DEF MonInv, RowHolds
  <2>6. Lowest <= Lowest' /\ Lowest' \in Nat
    BY <1>2, <2>3, MonNumbers DEF MonInv, RowHolds, Lowest
  <2>7. \A x \in Pages : x[2] = mon'.config => x[1] <= Lowest'
    <3>1. \A x \in Pages : x[1] \in Nat
      BY DEF MonInv, PagesHold
    <3>2. \A x \in Pages : x[2] = mon'.config => x[1] <= Lowest
      BY <2>1, <2>3, NoPageAhead
    <3> QED BY <1>2, <2>6, <3>1, <3>2
  <2>8. CursorFollowsJudgement'
    <3>1. mon.last > 0 => \A n \in (mon.since + 1)..mon.last : n \in judged
      BY DEF MonInv, CursorFollowsJudgement
    <3>2. mon.since <= recorded /\ mon.since \in Nat /\ mon.last \in Nat
      BY MonNumbers DEF MonInv, RowHolds
    <3>3. mon.last > 0 => \A n \in (recorded + 1)..mon.last : n \in judged
      BY <1>2, <3>1, <3>2
    <3> QED BY <1>1, <2>3, <3>3 DEF CursorFollowsJudgement
  <2> QED BY <1>1, <1>9, <2>3, <2>4, <2>5, <2>7, <2>8, BatchDropped
<1>10. CASE /\ end > Lowest
            /\ \E j \in Analyses : judge[j] = NoJudge
            /\ LET j == CHOOSE i \in Analyses : judge[i] = NoJudge
                   through == IF mon.batch.through # 0 THEN mon.batch.through ELSE batches + 1 IN
               /\ batches' = IF mon.batch.through # 0 THEN batches ELSE batches + 1
               /\ mon' = [mon EXCEPT !.owner = instance, !.through = through, !.leaseOver = FALSE, !.pending = FALSE,
                                     !.batch = [mon.batch EXCEPT !.through = through, !.last = end]]
               /\ judge' = [judge EXCEPT ![j] =
                    [pc |-> "judge", config |-> mon.config, through |-> through, from |-> Lowest + 1,
                     last |-> end, result |-> mon.batch.result, ok |-> FALSE]]
  <2>1. PICK j \in Analyses : judge[j] = NoJudge /\ j = CHOOSE i \in Analyses : judge[i] = NoJudge
    BY <1>10
  <2> DEFINE through == IF mon.batch.through # 0 THEN mon.batch.through ELSE batches + 1
             new == [pc |-> "judge", config |-> mon.config, through |-> through, from |-> Lowest + 1,
                     last |-> end, result |-> mon.batch.result, ok |-> FALSE]
  <2>2. /\ through \in 1 .. batches' /\ through \in Nat /\ batches' \in Nat /\ batches <= batches'
        /\ mon.batch.through # 0 => through = mon.batch.through
        /\ mon.batch.through = 0 => through = batches + 1
    <3>1. mon.batch.through <= batches
      BY DEF MonInv, RowHolds
    <3> QED BY <1>2, <1>10, <3>1
  <2>3. mon' = [mon EXCEPT !.owner = instance, !.through = through, !.leaseOver = FALSE, !.pending = FALSE,
                           !.batch = [mon.batch EXCEPT !.through = through, !.last = end]]
        /\ judge' = [judge EXCEPT ![j] = new]
    BY <1>10, <2>1
  <2>4. new.pc = "judge" /\ new.config = mon.config /\ new.through = through /\ new.from = Lowest + 1
        /\ new.last = end /\ new.result = mon.batch.result
    OBVIOUS
  <2>5. new \in JudgeRows
    <3> HIDE DEF through
    <3>1. Lowest + 1 \in Nat
      BY <1>2
    <3>2. mon.batch.result \in Verdicts \cup {"none"}
      BY <1>2 DEF BatchRows
    <3> QED BY <1>2, <1>7, <2>2, <3>1, <3>2 DEF JudgeRows
  <2> HIDE DEF through, new
  <2>6. /\ judge' \in [Analyses -> JudgeRows] /\ judge'[j] = new
        /\ \A i \in Analyses \ {j} : judge'[i] = judge[i]
    BY <2>1, <2>3, <2>5 DEF MonInv, MonTypeOK
  <2>7. /\ mon' \in MonRows /\ mon'.through = through /\ mon'.leaseOver = FALSE /\ mon'.config = mon.config
        /\ mon'.since = mon.since /\ mon'.last = mon.last
        /\ mon'.batch.through = through /\ mon'.batch.last = end /\ mon'.batch.result = mon.batch.result
    <3> DEFINE batch == [mon.batch EXCEPT !.through = through, !.last = end]
    <3>1. batch \in BatchRows /\ batch.through = through /\ batch.last = end /\ batch.result = mon.batch.result
      BY <1>2, <1>7, <2>2 DEF BatchRows
    <3>2. mon' = [mon EXCEPT !.owner = instance, !.through = through, !.leaseOver = FALSE, !.pending = FALSE,
                             !.batch = batch]
      BY <2>3
    <3> HIDE DEF batch
    <3> QED BY <1>2, <2>2, <3>1, <3>2 DEF MonRows
  <2>8. MonTypeOK'
    BY <1>1, <1>3, <2>2, <2>6, <2>7 DEF MonInv, MonTypeOK
  <2>9. Lowest' = Lowest
    BY <2>7 DEF Lowest
  <2>10. RowHolds'
    <3>1. mon.since <= recorded /\ mon.last <= recorded /\ mon.config <= monConfigs
      BY DEF MonInv, RowHolds
    <3>2. mon'.batch.through <= batches'
      BY <2>2, <2>7
    <3>3. mon'.batch.last <= recorded /\ Lowest' < mon'.batch.last
      BY <1>2, <1>7, <1>10, <2>7, <2>9
    <3>4. flush'.pc # "read"
      BY <1>1, <1>3
    <3> QED BY <1>1, <2>7, <3>1, <3>2, <3>3, <3>4 DEF RowHolds
  <2>11. ~AtWork(j) /\ AtWork(j)' /\ \A i \in Analyses \ {j} : AtWork(i)' = AtWork(i)
    BY <2>1, <2>4, <2>6 DEF AtWork, NoJudge
  <2>12. \A i \in Analyses : AtWork(i) => judge[i].through # through /\ judge[i].through \in 1 .. batches'
    <3>1. \A i \in Analyses : AtWork(i) => judge[i].through \in 1 .. batches
      BY DEF MonInv, JudgesHold
    <3>2. \A i \in Analyses : AtWork(i) => judge[i].through # mon.batch.through
      BY <1>4 DEF OnBatch
    <3> QED BY <1>2, <2>2, <3>1, <3>2
  <2>13. JudgesHold'
    <3>1. \A i \in Analyses : AtWork(i)' => judge'[i].through \in 1 .. batches'
      BY <2>2, <2>4, <2>6, <2>11, <2>12
    <3>2. \A i \in Analyses : judge'[i].pc \in {"facts", "alert"} => judge'[i].result \in Verdicts
      BY <2>4, <2>6 DEF MonInv, JudgesHold
    <3>3. \A i, k \in Analyses : AtWork(i)' /\ AtWork(k)' /\ judge'[i].through = judge'[k].through => i = k
      <4>1. \A i \in Analyses \ {j} : AtWork(i)' => judge'[i].through # judge'[j].through
        BY <2>4, <2>6, <2>11, <2>12
      <4> QED BY <2>6, <2>11, <4>1 DEF MonInv, JudgesHold
    <3>4. \A i \in Analyses : OnBatch(i)' => i = j
      BY <2>6, <2>7, <2>11, <2>12 DEF OnBatch
    <3>5. /\ mon'.through = judge'[j].through /\ ~mon'.leaseOver
          /\ judge'[j].config = mon'.config /\ judge'[j].from = Lowest' + 1 /\ judge'[j].last = mon'.batch.last
          /\ judge'[j].result = mon'.batch.result
      BY <2>4, <2>6, <2>7, <2>9
    <3> QED BY <3>1, <3>2, <3>3, <3>4, <3>5 DEF JudgesHold
  <2>14. FactsHold'
    <3>1. \A f \in findings : f[1] \in 1 .. batches /\ f[2] \in Verdicts /\ f = <<f[1], f[2]>>
      BY DEF MonInv, FactsHold
    <3>2. \A f \in findings : f[1] \in 1 .. batches'
      BY <1>2, <2>2, <3>1
    <3>3. \A f \in findings : f[1] = through => mon.batch.through = through
      BY <1>2, <2>2, <3>1
    <3>4. \A f \in findings : f[1] = through => f[2] = mon.batch.result
      BY <3>3 DEF MonInv, FactsHold
    <3>5. \A f \in findings, i \in Analyses :
            judge'[i].pc = "facts" /\ f[1] = judge'[i].through => f[2] = judge'[i].result
      BY <2>4, <2>6 DEF MonInv, FactsHold
    <3>6. \A f, g \in findings : f[1] = g[1] => f = g
      BY DEF MonInv, FactsHold
    <3> QED BY <1>1, <2>7, <3>1, <3>2, <3>4, <3>5, <3>6 DEF FactsHold
  <2> DEFINE page == <<Lowest + 1, mon.config, through>>
  <2>15. \A x \in Pages' : x \in Pages \/ x = page
    <3>1. PageUnder(j)' = page /\ \A i \in Analyses \ {j} : PageUnder(i)' = PageUnder(i)
      BY <2>4, <2>6 DEF PageUnder
    <3>2. \A x \in Pages' : x \in alerts \/ \E i \in Analyses : AtWork(i)' /\ x = PageUnder(i)'
      BY <1>1 DEF Pages
    <3> QED BY <2>11, <3>1, <3>2 DEF Pages
  <2>16. page[1] = Lowest + 1 /\ page[2] = mon.config /\ page[3] = through /\ page \in Nat \X Nat \X Nat
    BY <1>2, <2>2
  <2> HIDE DEF page
  <2>17. \A x \in Pages : /\ x \in Nat \X Nat \X Nat /\ x[3] \in 1 .. batches' /\ x[2] <= mon.config
                          /\ x[2] = mon.config => x[1] <= Lowest \/ (x[1] = Lowest + 1 /\ x[3] = through)
    <3>1. \A x \in Pages : x \in Nat \X Nat \X Nat /\ x[3] \in 1 .. batches /\ x[2] <= mon.config
      BY DEF MonInv, PagesHold
    <3>2. \A x \in Pages : x[3] \in 1 .. batches' /\ x[3] # 0
      BY <1>2, <2>2, <3>1
    <3>3. \A x \in Pages : x[2] = mon.config =>
             x[1] <= Lowest \/ (x[1] = Lowest + 1 /\ x[3] = mon.batch.through)
      BY DEF MonInv, PagesHold
    <3> QED BY <2>2, <3>1, <3>2, <3>3
  <2>18. PagesHold'
    <3>1. \A x \in Pages' : x \in Nat \X Nat \X Nat /\ x[3] \in 1 .. batches' /\ x[2] <= mon'.config
      BY <1>2, <2>2, <2>7, <2>15, <2>16, <2>17
    <3>2. \A x \in Pages' : x[2] = mon'.config =>
             x[1] <= Lowest' \/ (x[1] = Lowest' + 1 /\ x[3] = mon'.batch.through)
      BY <2>7, <2>9, <2>15, <2>16, <2>17
    <3>3. \A x \in Pages : x[1] = Lowest + 1 /\ x[2] = mon.config => x[3] = through
      BY <1>2, <2>17
    <3>4. \A x, y \in Pages' : x[1] = y[1] /\ x[2] = y[2] => x[3] = y[3]
      <4>1. \A x, y \in Pages : x[1] = y[1] /\ x[2] = y[2] => x[3] = y[3]
        BY DEF MonInv, PagesHold
      <4> QED BY <2>15, <2>16, <3>3, <4>1
    <3> QED BY <3>1, <3>2, <3>4 DEF PagesHold
  <2>19. CursorFollowsJudgement'
    BY <1>1, <2>7 DEF MonInv, CursorFollowsJudgement
  <2> QED BY <2>8, <2>10, <2>13, <2>14, <2>18, <2>19 DEF MonInv
<1> QED BY <1>5, <1>8, <1>9, <1>10

LEMMA MonitorStaysInv == MonInv /\ [MonitorNext]_monitorVars => MonInv'
<1> SUFFICES ASSUME MonInv, [MonitorNext]_monitorVars PROVE MonInv'
  OBVIOUS
<1>1. CASE UNCHANGED monitorVars
  <2>1. /\ UNCHANGED <<mon, recorded, flush, judge, instance, monConfigs, batches, judged, findings, alerts>>
    BY <1>1 DEF monitorVars
  <2>2. MonTypeOK' /\ \A j \in Analyses : AtWork(j)' => judge'[j] = judge[j]
    BY <2>1 DEF MonInv, MonTypeOK
  <2>3. recorded <= recorded' /\ (flush'.pc = "read" => mon'.through = 0)
    BY <2>1, MonNumbers DEF MonInv, RowHolds
  <2> QED BY <2>1, <2>2, <2>3, QuietKeeps
<1>2. CASE Capture \/ Configure \/ MonitorRestart
  BY <1>2, CaptureKeeps, ConfigureKeeps, MonitorRestartKeeps
<1>3. CASE TimerFires \/ Observe \/ MonLeaseEnds \/ FlushBegins \/ FlushPage
  BY <1>3, TimerFiresKeeps, ObserveKeeps, MonLeaseEndsKeeps, FlushBeginsKeeps, FlushPageKeeps
<1>4. CASE \E j \in Analyses : Judge(j) \/ PersistFacts(j) \/ Alert(j) \/ FinishAnalysis(j)
  BY <1>4, JudgeKeeps, PersistFactsKeeps, AlertKeeps, FinishAnalysisKeeps
<1> QED BY <1>1, <1>2, <1>3, <1>4 DEF MonitorNext

\* Whatever is reconfigured, retried or restarted while analyses are in progress, however
\* many: the cursor passes a message only when the page that holds it was analysed to the
\* end, a batch's facts come from one result, and under one configuration no message is
\* alerted of twice (flushGroupMonitor, evaluateGroupMonitor, finishGroupMonitorAnalysis).
THEOREM BatchesExact == MonitorSpec => []BatchesAreExact
<1>1. MonInv => BatchesAreExact
  <2> SUFFICES ASSUME MonInv PROVE BatchesAreExact
    OBVIOUS
  <2>1. \A a, b \in findings : a[1] = b[1] => a = b
    BY DEF MonInv, FactsHold
  <2>2. \A a, b \in alerts : a[1] = b[1] /\ a[2] = b[2] => a = b
    <3> SUFFICES ASSUME NEW a \in alerts, NEW b \in alerts, a[1] = b[1] /\ a[2] = b[2] PROVE a = b
      OBVIOUS
    <3>1. a \in Pages /\ b \in Pages
      BY DEF Pages
    <3>2. a[3] = b[3] /\ a \in Nat \X Nat \X Nat /\ b \in Nat \X Nat \X Nat
      BY <3>1 DEF MonInv, PagesHold
    <3> QED BY <3>2
  <2> QED BY <2>1, <2>2 DEF MonInv, BatchesAreExact, JudgedOnce
<1> QED BY MonInitial, MonitorStaysInv, <1>1, PTL DEF MonitorSpec

--------------------------------------------------------------------------------
(* Uploaded files *)

\* Rows and requests.
FileRows   == [status : {"none", "there", "deleted", "discarded"}, old : BOOLEAN, unsure : BOOLEAN]
IntakeRows == [status : {"none", "pending", "failed", "saved"}, file : 0 .. MaxFiles]
CaseRows   == [status : {"none", "received", "completed"}, files : SUBSET Files]
Analysing  == [status : {"none", "queued", "processing", "completed", "ignored"}, files : SUBSET Files, task : BOOLEAN]
Uploading  == [pc : {"idle", "intake", "install", "row", "publish", "discard"}, ref : Refs \cup {"none"},
               old : BOOLEAN, file : 0 .. MaxFiles, canonical : 0 .. MaxFiles]

WellPlaced(up) ==
  /\ up.pc # "idle" => up.ref \in Refs
  /\ up.pc = "intake" => up.ref \in ApiRefs \cup ChatRefs

FilesTyped ==
  /\ blob \in {"absent", "fresh", "old"}
  /\ files \in [Files -> FileRows]
  /\ intakes \in [ApiRefs \cup ChatRefs -> IntakeRows]
  /\ cases \in [CaseNames -> CaseRows]
  /\ analyses \in [1 .. MaxAnalyses -> Analysing]
  /\ artifacts \in [RunRefs -> 0 .. MaxFiles]
  /\ upload \in [Uploaders -> Uploading]
  /\ \A u \in Uploaders : WellPlaced(upload[u])
  /\ answers \in [Refs -> SUBSET Files]

\* The file a handoff is published with.
Named(ref) == IF ref \in RunRefs THEN artifacts[ref] ELSE intakes[ref].file

\* A handoff names a row that is kept, and an intake only once it is saved.
NamesStand ==
  /\ \A ref \in Refs : Named(ref) # 0 => Named(ref) \in Kept
  /\ \A ref \in ApiRefs \cup ChatRefs : intakes[ref].file # 0 => intakes[ref].status = "saved"

\* What was answered is what the handoff names, as long as it is kept.
AnswersNamed ==
  \A ref \in Refs : \A f \in answers[ref] : files[f].status # "none" /\ (f \in Kept => Named(ref) = f)

\* A request has a row of its own, which nobody was told of unless its commit was uncertain.
OwnRow(u) ==
  /\ upload[u].file \in Files
  /\ files[upload[u].file].status # "none"
  /\ \A v \in Uploaders : v # u /\ upload[v].pc \in {"publish", "discard"} => upload[v].file # upload[u].file
  /\ \/ upload[u].pc = "discard" /\ files[upload[u].file].unsure
     \/ \A ref \in Refs : Named(ref) # upload[u].file /\ upload[u].file \notin answers[ref]
OwnRows == \A u \in Uploaders : upload[u].pc \in {"publish", "discard"} => OwnRow(u)

\* The file it will be answered with instead is the one its handoff names.
Answerable(u) ==
  /\ upload[u].pc = "discard"
  /\ files[upload[u].canonical].status # "none"
  /\ upload[u].canonical \in Kept => Named(upload[u].ref) = upload[u].canonical
CanonicalNamed == \A u \in Uploaders : upload[u].canonical # 0 => Answerable(u)

\* Whoever installed a new blob or found a new one still has it, and a pass that saw no row
\* removes the blob of none but those that found it old.
BlobsStay ==
  /\ RowsHaveBlobs
  /\ \A u \in Uploaders :
       /\ \/ upload[u].pc = "row"
          \/ upload[u].pc = "intake" /\ upload[u].ref \notin ChatRefs
       /\ ~upload[u].old
       => blob = "fresh"
  /\ collector.pc = "walk" /\ ~collector.live /\ blob = "old" => \A f \in Kept : files[f].old

\* A case that has files waits for an instruction.
CasesWait == \A c \in CaseNames : cases[c].files # {} => cases[c].status = "received"

FileInv ==
  /\ FilesTyped /\ NamesStand /\ AnswersNamed /\ OwnRows /\ CanonicalNamed /\ BlobsStay
  /\ AnswersStand /\ CasesWait /\ FilesAreFiled /\ AnalysedOnce

LEMMA FileNumbers == Files \subseteq 0 .. MaxFiles /\ 0 \notin Files /\ (0 .. MaxFiles) \ {0} \subseteq Files
BY DEF Files

LEMMA FilesInitial == FilesInit => FileInv
<1> SUFFICES ASSUME FilesInit PROVE FileInv
  OBVIOUS
<1> USE FileAssumption, FileNumbers DEF FilesInit, NoUpload, NoAnalysis, NoCase
<1>1. FilesTyped
  <2>1. files \in [Files -> FileRows] /\ intakes \in [ApiRefs \cup ChatRefs -> IntakeRows]
    BY DEF FileRows, IntakeRows
  <2>2. cases \in [CaseNames -> CaseRows] /\ analyses \in [1 .. MaxAnalyses -> Analysing]
    BY DEF CaseRows, Analysing
  <2>3. upload \in [Uploaders -> Uploading] /\ \A u \in Uploaders : upload[u].pc = "idle"
    BY DEF Uploading
  <2> QED BY <2>1, <2>2, <2>3 DEF FilesTyped, WellPlaced
<1>2. Kept = {}
  BY DEF Kept
<1>3. NamesStand /\ AnswersNamed /\ AnswersStand /\ CasesWait /\ FilesAreFiled
  BY DEF NamesStand, AnswersNamed, AnswersStand, CasesWait, FilesAreFiled, Named, Refs, IsPublished
<1>4. OwnRows /\ CanonicalNamed
  BY DEF OwnRows, CanonicalNamed
<1>5. BlobsStay
  BY <1>2 DEF BlobsStay, RowsHaveBlobs
<1>6. AnalysedOnce
  BY DEF AnalysedOnce
<1> QED BY <1>1, <1>3, <1>4, <1>5, <1>6 DEF FileInv

--------------------------------------------------------------------------------
(* Names *)

\* Somebody is told of a file that his handoff names.
Told ==
  \/ UNCHANGED answers
  \/ \E ref \in Refs, f \in Kept :
       Named(ref) = f /\ f \in Kept' /\ answers' = [answers EXCEPT ![ref] = @ \cup {f}]

\* A step that publishes nothing: rows may go, and their names with them, requests may end
\* or move on to where they have no row.
NamesOnlyGo ==
  /\ Kept' \subseteq Kept
  /\ \A f \in Files :
       /\ files'[f].status = "none" <=> files[f].status = "none"
       /\ files[f].unsure => files'[f].unsure
       /\ files'[f].status = "discarded" =>
            files[f].status = "discarded" \/ files[f].unsure \/ \A ref \in Refs : f \notin answers[ref]
  /\ \A ref \in Refs : Named(ref)' = IF Named(ref) \in Kept' THEN Named(ref) ELSE 0
  /\ \A ref \in ApiRefs \cup ChatRefs : intakes[ref].status = "saved" => intakes'[ref].status = "saved"
  /\ Told
  /\ \A u \in Uploaders :
       upload'[u].pc \in {"publish", "discard"} \/ upload'[u].canonical # 0 => upload'[u] = upload[u]

NamesInv == NamesStand /\ AnswersNamed /\ OwnRows /\ CanonicalNamed /\ AnswersStand

LEMMA NamesGo ==
  ASSUME FileInv, FilesTyped', NamesOnlyGo
  PROVE  NamesInv'
<1> USE FileNumbers
<1>1. \A ref \in Refs : Named(ref)' # 0 => Named(ref)' = Named(ref) /\ Named(ref) \in Kept'
  BY DEF NamesOnlyGo
<1>2. NamesStand'
  <2>1. \A ref \in ApiRefs \cup ChatRefs : intakes'[ref].file # 0 => intakes[ref].file # 0
    <3> TAKE ref \in ApiRefs \cup ChatRefs
    <3>1. ref \in Refs /\ ref \notin RunRefs
      BY FileAssumption DEF Refs
    <3> QED BY <1>1, <3>1 DEF Named
  <2> QED BY <1>1, <2>1 DEF FileInv, NamesStand, NamesOnlyGo
<1>3. \A ref \in Refs : answers[ref] \subseteq Files /\ answers[ref] \subseteq answers'[ref]
  BY ZenonT(60) DEF FileInv, FilesTyped, NamesOnlyGo, Told
<1>4. \A ref \in Refs : \A f \in answers'[ref] : f \in answers[ref] \/ (f \in Kept' /\ Named(ref) = f)
  <2>1. CASE UNCHANGED answers
    BY <2>1
  <2>2. ASSUME NEW r \in Refs, NEW g \in Kept, Named(r) = g, g \in Kept',
               answers' = [answers EXCEPT ![r] = @ \cup {g}]
        PROVE  \A ref \in Refs : \A f \in answers'[ref] : f \in answers[ref] \/ (f \in Kept' /\ Named(ref) = f)
    <3>1. \A ref \in Refs : answers'[ref] = IF ref = r THEN answers[r] \cup {g} ELSE answers[ref]
      BY <2>2 DEF FileInv, FilesTyped
    <3> QED BY <2>2, <3>1
  <2> QED BY <2>1, <2>2 DEF NamesOnlyGo, Told
<1>5. \A f \in Kept' : f \in Files /\ files'[f].status = "there"
  BY DEF Kept
<1>6. AnswersNamed'
  <2> SUFFICES ASSUME NEW ref \in Refs, NEW f \in answers'[ref]
               PROVE  files'[f].status # "none" /\ (f \in Kept' => Named(ref)' = f)
    BY DEF AnswersNamed
  <2>1. CASE f \in answers[ref]
    <3>1. f \in Files /\ files[f].status # "none" /\ (f \in Kept => Named(ref) = f)
      BY <1>3, <2>1 DEF FileInv, AnswersNamed
    <3> QED BY <3>1 DEF NamesOnlyGo
  <2>2. CASE f \in Kept' /\ Named(ref) = f
    BY <1>5, <2>2 DEF NamesOnlyGo
  <2> QED BY <1>4, <2>1, <2>2
<1>7. AnswersStand'
  <2> SUFFICES ASSUME NEW ref \in Refs, NEW f \in answers'[ref], files'[f].status = "discarded"
               PROVE  files'[f].unsure
    BY DEF AnswersStand
  <2>1. f \in answers[ref] /\ f \in Files
    BY <1>3, <1>4, <1>5
  <2> QED BY <2>1 DEF FileInv, AnswersStand, NamesOnlyGo
<1>8. OwnRows'
  <2> SUFFICES ASSUME NEW u \in Uploaders, upload'[u].pc \in {"publish", "discard"} PROVE OwnRow(u)'
    BY DEF OwnRows
  <2>1. upload'[u] = upload[u] /\ OwnRow(u)
    BY DEF NamesOnlyGo, FileInv, OwnRows
  <2> DEFINE f == upload[u].file
  <2>2. f \in Files /\ files[f].status # "none" /\ files'[f].status # "none"
    BY <2>1 DEF OwnRow, NamesOnlyGo
  <2>3. \A v \in Uploaders : v # u /\ upload'[v].pc \in {"publish", "discard"} => upload'[v].file # f
    BY <2>1 DEF OwnRow, NamesOnlyGo
  <2>4. CASE upload[u].pc = "discard" /\ files[f].unsure
    BY <2>1, <2>2, <2>3, <2>4 DEF OwnRow, NamesOnlyGo
  <2>5. CASE \A ref \in Refs : Named(ref) # f /\ f \notin answers[ref]
    <3>1. \A ref \in Refs : Named(ref)' # f /\ f \notin answers'[ref]
      BY <1>1, <1>4, <2>2, <2>5
    <3> QED BY <2>1, <2>2, <2>3, <3>1 DEF OwnRow
  <2> QED BY <2>1, <2>4, <2>5 DEF OwnRow
<1>9. CanonicalNamed'
  <2> SUFFICES ASSUME NEW u \in Uploaders, upload'[u].canonical # 0 PROVE Answerable(u)'
    BY DEF CanonicalNamed
  <2>1. upload'[u] = upload[u] /\ Answerable(u)
    BY DEF NamesOnlyGo, FileInv, CanonicalNamed
  <2>2. upload[u].canonical \in Files
    <3>1. upload[u] \in Uploading
      BY DEF FileInv, FilesTyped
    <3> QED BY <2>1, <3>1 DEF Uploading
  <2>3. upload[u].ref \in Refs
    BY <2>1 DEF Answerable, FileInv, FilesTyped, WellPlaced
  <2> DEFINE f == upload[u].canonical
             r == upload[u].ref
  <2>4. files'[f].status # "none" /\ upload[u].pc = "discard"
    BY <2>1, <2>2 DEF Answerable, NamesOnlyGo
  <2>5. f \in Kept' => Named(r) = f /\ Named(r) \in Kept'
    BY <2>1 DEF Answerable, NamesOnlyGo
  <2>6. Named(r)' = IF Named(r) \in Kept' THEN Named(r) ELSE 0
    BY <2>3 DEF NamesOnlyGo
  <2> QED BY <2>1, <2>4, <2>5, <2>6 DEF Answerable
<1> QED BY <1>2, <1>6, <1>7, <1>8, <1>9 DEF NamesInv

--------------------------------------------------------------------------------
(* Cases and analyses *)

FilingInv == CasesWait /\ FilesAreFiled /\ AnalysedOnce

LEMMA FilingStays ==
  ASSUME FileInv, Kept \subseteq Kept', UNCHANGED <<cases, analyses, reopened>>,
         \A ref \in ApiRefs \cup ChatRefs :
           intakes'[ref].file = intakes[ref].file /\ (intakes'[ref].status = "saved" => intakes[ref].status = "saved")
  PROVE  FilingInv'
<1>1. CasesWait' /\ AnalysedOnce'
  BY DEF FileInv, CasesWait, AnalysedOnce
<1>2. FilesAreFiled'
  BY DEF FileInv, FilesAreFiled, IsPublished
<1> QED BY <1>1, <1>2 DEF FilingInv

LEMMA FilingSaved ==
  ASSUME FileInv, NEW ref \in ApiRefs \cup ChatRefs, NEW f \in Kept, Saved(ref, f), Kept' = Kept
  PROVE  /\ FilingInv'
         /\ intakes' \in [ApiRefs \cup ChatRefs -> IntakeRows]
         /\ cases' \in [CaseNames -> CaseRows]
         /\ intakes'[ref] = [status |-> "saved", file |-> f]
         /\ \A r \in ApiRefs \cup ChatRefs : r # ref => intakes'[r] = intakes[r]
<1> USE FileNumbers
<1>1. /\ f \in Files
      /\ CaseOf(ref) \in CaseNames
  BY DEF Kept, CaseNames
<1>2. /\ [status |-> "saved", file |-> f] \in IntakeRows
      /\ \A s \in SUBSET Files : [status |-> "received", files |-> s] \in CaseRows
  BY <1>1 DEF IntakeRows, CaseRows
<1>3. /\ intakes' \in [ApiRefs \cup ChatRefs -> IntakeRows]
      /\ intakes'[ref] = [status |-> "saved", file |-> f]
      /\ \A r \in ApiRefs \cup ChatRefs : r # ref => intakes'[r] = intakes[r]
  BY <1>2 DEF Saved, FileInv, FilesTyped
<1> DEFINE c == CaseOf(ref)
           row == [status |-> "received", files |-> cases[c].files \cup {f}]
<1>4. cases[c].files \cup {f} \in SUBSET Files
  <2>1. cases[c] \in CaseRows
    BY <1>1 DEF FileInv, FilesTyped
  <2> QED BY <1>1, <2>1 DEF CaseRows
<1>5. /\ cases' \in [CaseNames -> CaseRows]
      /\ cases'[c] = row
      /\ \A d \in CaseNames : d # c => cases'[d] = cases[d]
  <2>1. cases' = [cases EXCEPT ![c] = row] /\ row \in CaseRows
    BY <1>2, <1>4 DEF Saved
  <2> QED BY <1>1, <2>1 DEF FileInv, FilesTyped
<1>6. CasesWait'
  BY <1>5 DEF FileInv, CasesWait
<1>7. AnalysedOnce'
  BY DEF FileInv, AnalysedOnce, Saved
<1>8. FilesAreFiled'
  <2> SUFFICES ASSUME NEW r \in ApiRefs \cup ChatRefs, IsPublished(r)'
               PROVE  /\ intakes'[r].file \in Kept
                      /\ \/ \E d \in CaseNames : intakes'[r].file \in cases'[d].files /\ cases'[d].status = "received"
                         \/ \E a \in 1 .. MaxAnalyses : intakes'[r].file \in analyses[a].files
    BY DEF FilesAreFiled, Saved
  <2>1. CASE r = ref
    BY <1>1, <1>3, <1>5, <2>1
  <2>2. CASE r # ref
    <3>1. intakes'[r] = intakes[r] /\ IsPublished(r)
      BY <1>3, <2>2 DEF IsPublished
    <3>2. CASE \E d \in CaseNames : intakes[r].file \in cases[d].files /\ cases[d].status = "received"
      BY <1>5, <3>1, <3>2 DEF FileInv, FilesAreFiled
    <3> QED BY <3>1, <3>2 DEF FileInv, FilesAreFiled
  <2> QED BY <2>1, <2>2
<1> QED BY <1>3, <1>5, <1>6, <1>7, <1>8 DEF FilingInv

LEMMA FilingRemoved ==
  ASSUME FileInv, NEW f \in Kept, NEW how \in {"deleted", "discarded"}, ~Referenced(f), Removed(f, how)
  PROVE  /\ FilingInv'
         /\ files' \in [Files -> FileRows]
         /\ intakes' \in [ApiRefs \cup ChatRefs -> IntakeRows]
         /\ cases' \in [CaseNames -> CaseRows]
         /\ analyses' \in [1 .. MaxAnalyses -> Analysing]
         /\ Kept' = Kept \ {f}
         /\ files'[f].status = how
         /\ \A g \in Files : files'[g].unsure = files[g].unsure /\ files'[g].old = files[g].old
         /\ \A g \in Files : g # f => files'[g] = files[g]
         /\ \A ref \in Refs : Named(ref)' = IF Named(ref) = f THEN 0 ELSE Named(ref)
         /\ \A ref \in ApiRefs \cup ChatRefs : intakes'[ref].status = intakes[ref].status
<1> USE FileNumbers
<1>1. f \in Files /\ files[f].status = "there" /\ f # 0
  BY DEF Kept
<1>2. /\ files' \in [Files -> FileRows]
      /\ files'[f].status = how
      /\ \A g \in Files : files'[g].unsure = files[g].unsure /\ files'[g].old = files[g].old
      /\ \A g \in Files : g # f => files'[g] = files[g]
  BY <1>1 DEF Removed, FileInv, FilesTyped, FileRows
<1>3. Kept' = Kept \ {f}
  BY <1>1, <1>2 DEF Kept
<1>4. /\ intakes' \in [ApiRefs \cup ChatRefs -> IntakeRows]
      /\ \A ref \in ApiRefs \cup ChatRefs :
           /\ intakes'[ref].status = intakes[ref].status
           /\ intakes'[ref].file = IF intakes[ref].file = f THEN 0 ELSE intakes[ref].file
  <2>1. DOMAIN intakes = ApiRefs \cup ChatRefs
    BY DEF FileInv, FilesTyped
  <2>2. 0 \in 0 .. MaxFiles
    BY FileAssumption
  <2> QED BY <2>1, <2>2, ZenonT(60) DEF Removed, FileInv, FilesTyped, IntakeRows
<1>5. /\ cases' \in [CaseNames -> CaseRows]
      /\ \A c \in CaseNames : cases'[c].files = cases[c].files \ {f}
      /\ \A c \in CaseNames : cases'[c].files # {} => cases'[c].status = cases[c].status
  BY DEF Removed, FileInv, FilesTyped, CaseRows, NoCase
<1>6. /\ analyses' \in [1 .. MaxAnalyses -> Analysing]
      /\ \A a \in 1 .. MaxAnalyses :
           analyses'[a].files = analyses[a].files \ {f} /\ analyses'[a].status = analyses[a].status
  BY DEF Removed, FileInv, FilesTyped, Analysing
<1>7. \A ref \in Refs : Named(ref)' = IF Named(ref) = f THEN 0 ELSE Named(ref)
  <2> TAKE ref \in Refs
  <2>1. CASE ref \in RunRefs
    BY <2>1 DEF Named, Removed, Referenced
  <2>2. CASE ref \notin RunRefs
    BY <1>4, <2>2 DEF Named, Refs
  <2> QED BY <2>1, <2>2
<1>8. CasesWait'
  <2>1. \A c \in CaseNames : cases[c].files = {} => cases[c].files \ {f} = {}
    OBVIOUS
  <2> QED BY <1>5, <2>1 DEF FileInv, CasesWait
<1>9. FilesAreFiled'
  <2> SUFFICES ASSUME NEW r \in ApiRefs \cup ChatRefs, IsPublished(r)'
               PROVE  /\ intakes'[r].file \in Kept'
                      /\ \/ \E c \in CaseNames : intakes'[r].file \in cases'[c].files /\ cases'[c].status = "received"
                         \/ \E a \in 1 .. MaxAnalyses : intakes'[r].file \in analyses'[a].files
    BY DEF FilesAreFiled
  <2> DEFINE g == intakes[r].file
  <2>1. g # f /\ intakes'[r].file = g /\ IsPublished(r)
    BY <1>4 DEF IsPublished
  <2>2. CASE \E c \in CaseNames : g \in cases[c].files /\ cases[c].status = "received"
    <3>1. PICK c \in CaseNames : g \in cases[c].files /\ cases[c].status = "received"
      BY <2>2
    <3>2. g \in cases'[c].files
      BY <1>5, <2>1, <3>1
    <3>3. cases'[c].status = "received"
      BY <1>5, <3>1, <3>2
    <3> QED BY <1>3, <2>1, <3>2, <3>3 DEF FileInv, FilesAreFiled
  <2>3. CASE \E a \in 1 .. MaxAnalyses : g \in analyses[a].files
    BY <1>3, <1>6, <2>1, <2>3 DEF FileInv, FilesAreFiled
  <2> QED BY <2>1, <2>2, <2>3 DEF FileInv, FilesAreFiled
<1>10. AnalysedOnce'
  <2>1. \A a, b \in 1 .. MaxAnalyses :
          analyses'[a].files \cap analyses'[b].files # {} => analyses[a].files \cap analyses[b].files # {}
    BY <1>6
  <2> QED BY <1>6, <2>1 DEF FileInv, AnalysedOnce, Removed
<1> QED BY <1>2, <1>3, <1>4, <1>5, <1>6, <1>7, <1>8, <1>9, <1>10 DEF FilingInv

--------------------------------------------------------------------------------
(* Requests before they have a row *)

LEMMA UploadAt ==
  ASSUME FileInv, NEW u \in Uploaders
  PROVE  upload[u] \in Uploading /\ WellPlaced(upload[u])
BY DEF FileInv, FilesTyped

LEMMA GoesOn ==
  ASSUME FileInv, NEW u \in Uploaders, NEW up \in Uploading, WellPlaced(up), Goes(u, up)
  PROVE  /\ upload' \in [Uploaders -> Uploading]
         /\ \A v \in Uploaders : WellPlaced(upload'[v])
         /\ upload'[u] = up
         /\ \A v \in Uploaders : v # u => upload'[v] = upload[v]
BY DEF Goes, FileInv, FilesTyped

LEMMA NoUploadTyped == NoUpload \in Uploading /\ NoUpload.pc = "idle" /\ NoUpload.canonical = 0 /\ WellPlaced(NoUpload)
BY FileAssumption DEF NoUpload, Uploading, WellPlaced

LEMMA ToldTyped == ASSUME FileInv, Told PROVE answers' \in [Refs -> SUBSET Files]
BY DEF Told, FileInv, FilesTyped, Kept

\* A request that has no row moves on, ends, or is answered.
LEMMA RequestMoves ==
  ASSUME FileInv, NEW u \in Uploaders, NEW up \in Uploading, Goes(u, up),
         WellPlaced(up), up.pc \notin {"publish", "discard"}, up.canonical = 0,
         UNCHANGED <<files, artifacts, cases, analyses, reopened>>, Told,
         blob' \in {"absent", "fresh", "old"}, BlobsStay',
         intakes' \in [ApiRefs \cup ChatRefs -> IntakeRows],
         \A ref \in ApiRefs \cup ChatRefs :
           intakes'[ref].file = intakes[ref].file /\ (intakes'[ref].status = "saved" <=> intakes[ref].status = "saved")
  PROVE  FileInv'
<1>1. FilesTyped'
  BY GoesOn, ToldTyped DEF FileInv, FilesTyped
<1>2. Kept' = Kept
  BY DEF Kept
<1>3. FilingInv'
  BY <1>2, FilingStays
<1>4. \A ref \in Refs : Named(ref)' = IF Named(ref) \in Kept' THEN Named(ref) ELSE 0
  <2>1. \A ref \in Refs : Named(ref)' = Named(ref)
    BY DEF Named, Refs
  <2> QED BY <1>2, <2>1 DEF FileInv, NamesStand
<1>5. \A v \in Uploaders :
        upload'[v].pc \in {"publish", "discard"} \/ upload'[v].canonical # 0 => upload'[v] = upload[v]
  BY GoesOn
<1>6. NamesInv'
  <2>1. NamesOnlyGo
    BY <1>2, <1>4, <1>5 DEF NamesOnlyGo
  <2> QED BY <1>1, <2>1, NamesGo
<1> QED BY <1>1, <1>3, <1>6 DEF FileInv, FilingInv, NamesInv

\* Rows may go, and requests move on with the blob they installed or found old.
LEMMA FewerRows ==
  ASSUME FileInv, UNCHANGED <<blob, collector>>, Kept' \subseteq Kept, \A f \in Kept : files'[f].old = files[f].old,
         \A v \in Uploaders :
           \/ upload'[v] = upload[v]
           \/ upload'[v].pc \notin {"row", "intake"}
           \/ upload'[v].pc = "intake" /\ upload'[v].ref \in ChatRefs
           \/ blob = "fresh" \/ upload'[v].old
  PROVE  BlobsStay'
<1>1. RowsHaveBlobs'
  BY DEF FileInv, BlobsStay, RowsHaveBlobs
<1> QED BY <1>1 DEF FileInv, BlobsStay

LEMMA BlobsAsTheyWere ==
  ASSUME FileInv, UNCHANGED <<blob, files, collector>>, NEW u \in Uploaders, NEW up \in Uploading,
         WellPlaced(up), Goes(u, up),
         \/ up.pc = "row"
         \/ up.pc = "intake" /\ up.ref \notin ChatRefs
         => blob = "fresh" \/ up.old
  PROVE  BlobsStay'
<1>1. Kept' = Kept
  BY DEF Kept
<1>2. upload'[u] = up /\ \A v \in Uploaders : v # u => upload'[v] = upload[v]
  BY GoesOn
<1>3. \A v \in Uploaders :
        \/ upload'[v] = upload[v]
        \/ upload'[v].pc \notin {"row", "intake"}
        \/ upload'[v].pc = "intake" /\ upload'[v].ref \in ChatRefs
        \/ blob = "fresh" \/ upload'[v].old
  BY <1>2
<1> QED BY <1>1, <1>3, FewerRows

LEMMA BeginUploadKeeps ==
  ASSUME FileInv, NEW u \in Uploaders, NEW ref \in Refs, BeginUpload(u, ref)
  PROVE  FileInv'
<1> DEFINE pc == IF ref \in ChatRefs THEN "intake" ELSE "install"
           up == [NoUpload EXCEPT !.ref = ref, !.pc = pc]
<1>0. pc \in {"intake", "install"} /\ (pc = "intake" => ref \in ChatRefs)
  OBVIOUS
<1>1. up \in Uploading /\ up.ref = ref /\ up.pc = pc /\ up.canonical = 0
  <2> HIDE DEF pc
  <2> QED BY <1>0, NoUploadTyped DEF Uploading
<1>2. Goes(u, up) /\ UNCHANGED <<blob, files, recordVars, collector, answers>>
  BY DEF BeginUpload
<1>3. up.pc \notin {"publish", "discard", "row"} /\ (up.pc = "intake" => up.ref \in ChatRefs) /\ WellPlaced(up)
  BY <1>0, <1>1 DEF WellPlaced
<1> HIDE DEF up
<1>4. BlobsStay'
  BY <1>1, <1>2, <1>3, BlobsAsTheyWere
<1> QED BY <1>1, <1>2, <1>3, <1>4, RequestMoves DEF recordVars, Told, FileInv, FilesTyped

LEMMA OpenIntakeKeeps ==
  ASSUME FileInv, NEW u \in Uploaders, OpenIntake(u)
  PROVE  FileInv'
<1> DEFINE ref == upload[u].ref
           saved == intakes[ref].status = "saved"
<1> USE FileNumbers
<1>1. /\ upload[u] \in Uploading /\ upload[u].pc = "intake" /\ ref \in Refs /\ upload[u].canonical = 0
      /\ UNCHANGED <<blob, files, cases, analyses, artifacts, reopened, collector>>
  BY UploadAt DEF WellPlaced, OpenIntake, FileInv, CanonicalNamed, Answerable
<1>2. /\ intakes' \in [ApiRefs \cup ChatRefs -> IntakeRows]
      /\ \A r \in ApiRefs \cup ChatRefs :
           intakes'[r].file = intakes[r].file /\ (intakes'[r].status = "saved" <=> intakes[r].status = "saved")
  BY ZenonT(60) DEF OpenIntake, FileInv, FilesTyped, IntakeRows
<1>3. CASE saved /\ intakes[ref].file # 0
  <2>1. AnsweredIfKept(u, intakes[ref].file)
    BY <1>3 DEF OpenIntake
  <2>2. Goes(u, NoUpload)
    BY <2>1 DEF AnsweredIfKept, Answered, Ends
  <2>3. Told
    <3>1. CASE intakes[ref].file \in Kept
      <4>1. Kept' = Kept
        BY <1>1 DEF Kept
      <4>2. answers' = [answers EXCEPT ![ref] = @ \cup {intakes[ref].file}]
        BY <2>1, <3>1 DEF AnsweredIfKept, Answered
      <4>3. CASE ref \notin RunRefs
        BY <1>1, <3>1, <4>1, <4>2, <4>3 DEF Told, Named
      <4>4. ref \notin RunRefs
        <5>1. upload[u].ref \in ApiRefs \cup ChatRefs
          BY <1>1, UploadAt DEF WellPlaced
        <5> QED BY <5>1, FileAssumption
      <4> QED BY <4>3, <4>4
    <3>2. CASE intakes[ref].file \notin Kept
      BY <2>1, <3>2 DEF AnsweredIfKept, Told
    <3> QED BY <3>1, <3>2
  <2>4. BlobsStay'
    BY <1>1, <2>2, NoUploadTyped, BlobsAsTheyWere
  <2> QED BY <1>1, <1>2, <2>2, <2>3, <2>4, NoUploadTyped, RequestMoves DEF FileInv, FilesTyped
<1>4. CASE ~(saved /\ intakes[ref].file # 0)
  <2> DEFINE pc == IF ref \in ChatRefs THEN "install" ELSE "row"
             up == [upload[u] EXCEPT !.pc = pc]
  <2>1. Goes(u, up) /\ UNCHANGED answers
    BY <1>4 DEF OpenIntake
  <2>2. up \in Uploading /\ up.pc = pc /\ up.ref = ref /\ up.old = upload[u].old /\ up.canonical = 0
    BY <1>1 DEF Uploading
  <2>3. pc = "row" => ref \notin ChatRefs
    OBVIOUS
  <2>4. pc \in {"install", "row"}
    OBVIOUS
  <2> HIDE DEF pc
  <2>7. WellPlaced(up)
    BY <1>1, <2>2, <2>4 DEF WellPlaced
  <2> HIDE DEF up
  <2>5. up.pc = "row" => blob = "fresh" \/ up.old
    BY <1>1, <2>2, <2>3 DEF FileInv, BlobsStay
  <2>6. BlobsStay'
    BY <1>1, <2>1, <2>2, <2>4, <2>5, <2>7, BlobsAsTheyWere
  <2> QED BY <1>1, <1>2, <2>1, <2>2, <2>4, <2>6, <2>7, RequestMoves DEF FileInv, FilesTyped, Told
<1> QED BY <1>3, <1>4

LEMMA InstallKeeps ==
  ASSUME FileInv, NEW u \in Uploaders, Install(u)
  PROVE  FileInv'
<1> DEFINE ref == upload[u].ref
           pc  == IF ref \in ApiRefs THEN "intake" ELSE "row"
           found == blob = "old"
           up  == [upload[u] EXCEPT !.pc = pc, !.old = found]
<1>1. /\ upload[u] \in Uploading /\ upload[u].pc = "install" /\ ref \in Refs /\ upload[u].canonical = 0
      /\ UNCHANGED <<files, recordVars, collector, answers>>
      /\ blob \in {"absent", "fresh", "old"} /\ found \in BOOLEAN
  BY UploadAt DEF WellPlaced, Install, FileInv, FilesTyped, CanonicalNamed, Answerable
<1>2. Goes(u, up) /\ blob' = IF blob = "absent" THEN "fresh" ELSE blob
  BY DEF Install
<1>3. pc \in {"intake", "row"} /\ (pc = "intake" => ref \in ApiRefs)
  OBVIOUS
<1> HIDE DEF pc, found
<1>4. up \in Uploading /\ up.pc = pc /\ up.ref = ref /\ up.canonical = 0 /\ up.old = found
  BY <1>1, <1>3 DEF Uploading
<1> HIDE DEF up
<1>5. WellPlaced(up)
  BY <1>1, <1>3, <1>4 DEF WellPlaced
<1>6. upload'[u] = up /\ \A v \in Uploaders : v # u => upload'[v] = upload[v]
  BY <1>2, <1>4, <1>5, GoesOn
<1>7. found <=> blob = "old"
  BY DEF found
<1>8. BlobsStay'
  <2>1. Kept' = Kept
    BY <1>1 DEF Kept
  <2>2. RowsHaveBlobs'
    BY <1>1, <1>2, <2>1 DEF RowsHaveBlobs, FileInv, BlobsStay
  <2>3. up.old \/ blob' = "fresh"
    BY <1>1, <1>2, <1>4, <1>7
  <2>4. \A v \in Uploaders :
          ((upload'[v].pc = "row" \/ (upload'[v].pc = "intake" /\ upload'[v].ref \notin ChatRefs)) /\ ~upload'[v].old)
          => blob' = "fresh"
    BY <1>2, <1>6, <2>3 DEF FileInv, BlobsStay
  <2>5. collector'.pc = "walk" /\ ~collector'.live /\ blob' = "old" => \A f \in Kept' : files'[f].old
    BY <1>1, <1>2, <2>1 DEF FileInv, BlobsStay
  <2> QED BY <2>2, <2>4, <2>5 DEF BlobsStay
<1>9. blob' \in {"absent", "fresh", "old"} /\ up.pc \notin {"publish", "discard"}
  BY <1>1, <1>2, <1>3, <1>4
<1> QED BY <1>1, <1>2, <1>4, <1>5, <1>8, <1>9, RequestMoves DEF recordVars, Told, FileInv, FilesTyped

LEMMA InstallFailsKeeps ==
  ASSUME FileInv, NEW u \in Uploaders, InstallFails(u)
  PROVE  FileInv'
<1>1. Goes(u, NoUpload) /\ UNCHANGED <<blob, files, cases, analyses, artifacts, reopened, collector, answers>>
  BY DEF InstallFails, Ends
<1>2. /\ intakes' \in [ApiRefs \cup ChatRefs -> IntakeRows]
      /\ \A ref \in ApiRefs \cup ChatRefs :
           intakes'[ref].file = intakes[ref].file /\ (intakes'[ref].status = "saved" <=> intakes[ref].status = "saved")
  BY DEF InstallFails, FileInv, FilesTyped, IntakeRows
<1>3. BlobsStay'
  BY <1>1, NoUploadTyped, BlobsAsTheyWere
<1> QED BY <1>1, <1>2, <1>3, NoUploadTyped, RequestMoves DEF FileInv, FilesTyped, Told

--------------------------------------------------------------------------------
(* Rows and their names *)

LEMMA CreateRowKeeps ==
  ASSUME FileInv, NEW u \in Uploaders, CreateRow(u)
  PROVE  FileInv'
<1> USE FileNumbers
<1> PICK f \in Files :
      /\ files[f].status = "none"
      /\ files' = [files EXCEPT ![f] = [status |-> "there", old |-> upload[u].old, unsure |-> FALSE]]
      /\ Goes(u, [upload[u] EXCEPT !.pc = "publish", !.file = f])
  BY DEF CreateRow
<1> DEFINE up  == [upload[u] EXCEPT !.pc = "publish", !.file = f]
           row == [status |-> "there", old |-> upload[u].old, unsure |-> FALSE]
<1>1. /\ upload[u] \in Uploading /\ upload[u].pc = "row" /\ upload[u].ref \in Refs /\ upload[u].canonical = 0
      /\ UNCHANGED <<blob, intakes, cases, analyses, artifacts, reopened, collector, answers>>
  BY UploadAt DEF WellPlaced, CreateRow, recordVars, FileInv, CanonicalNamed, Answerable
<1>2. /\ up \in Uploading /\ up.pc = "publish" /\ up.ref = upload[u].ref /\ up.canonical = 0 /\ up.file = f
      /\ row \in FileRows /\ row.status = "there" /\ row.old = upload[u].old
  BY <1>1 DEF Uploading, FileRows
<1>3. WellPlaced(up)
  BY <1>1, <1>2 DEF WellPlaced
<1>4. Goes(u, up) /\ files' = [files EXCEPT ![f] = row]
  OBVIOUS
<1> HIDE DEF up, row
<1>5. /\ files' \in [Files -> FileRows] /\ files'[f] = row
      /\ \A g \in Files : g # f => files'[g] = files[g]
  <2>1. files \in [Files -> FileRows] /\ row \in FileRows
    BY <1>2 DEF FileInv, FilesTyped
  <2>2. files' = [files EXCEPT ![f] = row]
    BY <1>4
  <2> HIDE DEF Files, FileRows
  <2> QED BY <2>1, <2>2
<1>6. upload'[u] = up /\ \A v \in Uploaders : v # u => upload'[v] = upload[v]
  BY <1>2, <1>3, <1>4, GoesOn
<1>7. FilesTyped'
  BY <1>1, <1>2, <1>3, <1>4, <1>5, GoesOn DEF FileInv, FilesTyped
<1>8. Kept' = Kept \cup {f} /\ f \notin Kept
  BY <1>2, <1>5 DEF Kept
<1>9. /\ \A ref \in Refs : Named(ref)' = Named(ref) /\ Named(ref) # f /\ f \notin answers[ref]
      /\ \A ref \in Refs : answers[ref] \subseteq Files
  BY <1>1, <1>8 DEF Named, FileInv, FilesTyped, NamesStand, AnswersNamed
<1>10. NamesStand' /\ AnswersNamed' /\ AnswersStand'
  <2>1. NamesStand'
    BY <1>1, <1>8, <1>9 DEF FileInv, NamesStand
  <2>2. \A ref \in Refs : \A g \in answers[ref] : files'[g] = files[g] /\ (g \in Kept' => g \in Kept)
    BY <1>5, <1>8, <1>9
  <2>3. AnswersNamed'
    BY <1>1, <1>9, <2>2 DEF FileInv, AnswersNamed
  <2> QED BY <1>1, <2>1, <2>2, <2>3 DEF FileInv, AnswersStand
<1>11. OwnRows'
  <2> SUFFICES ASSUME NEW v \in Uploaders, upload'[v].pc \in {"publish", "discard"} PROVE OwnRow(v)'
    BY DEF OwnRows
  <2>1. CASE v = u
    <3>1. \A w \in Uploaders : w # u /\ upload'[w].pc \in {"publish", "discard"} => upload'[w].file # f
      BY <1>6 DEF FileInv, OwnRows, OwnRow
    <3> QED BY <1>1, <1>2, <1>5, <1>6, <1>9, <2>1, <3>1 DEF OwnRow
  <2>2. CASE v # u
    <3>1. upload'[v] = upload[v] /\ OwnRow(v) /\ upload[v].file \in Files /\ upload[v].file # f
      BY <1>6, <2>2 DEF FileInv, OwnRows, OwnRow
    <3>2. files'[upload[v].file] = files[upload[v].file]
      BY <1>5, <3>1
    <3>3. \A w \in Uploaders : w # v /\ upload'[w].pc \in {"publish", "discard"} => upload'[w].file # upload[v].file
      BY <1>2, <1>6, <3>1 DEF OwnRow
    <3> QED BY <1>1, <1>9, <3>1, <3>2, <3>3 DEF OwnRow
  <2> QED BY <2>1, <2>2
<1>12. CanonicalNamed'
  <2> SUFFICES ASSUME NEW v \in Uploaders, upload'[v].canonical # 0 PROVE Answerable(v)'
    BY DEF CanonicalNamed
  <2>1. v # u /\ upload'[v] = upload[v] /\ Answerable(v)
    BY <1>2, <1>6 DEF FileInv, CanonicalNamed
  <2>2. upload[v].canonical \in Files /\ upload[v].canonical # f
    <3>1. upload[v] \in Uploading
      BY UploadAt
    <3>2. upload[v].canonical \in Files
      BY <2>1, <3>1 DEF Uploading
    <3> QED BY <2>1, <3>2 DEF Answerable
  <2>3. upload[v].ref \in Refs
    BY <2>1, UploadAt DEF Answerable, WellPlaced
  <2>4. files'[upload[v].canonical] = files[upload[v].canonical]
    BY <1>5, <2>2
  <2>5. upload[v].canonical \in Kept' => upload[v].canonical \in Kept
    BY <1>8, <2>2
  <2>6. Named(upload[v].ref)' = Named(upload[v].ref)
    BY <1>9, <2>1, <2>3
  <2> QED BY <2>1, <2>4, <2>5, <2>6 DEF Answerable
<1>13. BlobsStay'
  <2>1. upload[u].old \/ blob = "fresh"
    BY <1>1 DEF FileInv, BlobsStay
  <2>2. \A g \in Kept : files'[g] = files[g]
    BY <1>5, <1>8 DEF Kept
  <2>3. RowsHaveBlobs'
    BY <1>1, <1>2, <1>5, <1>8, <2>1, <2>2 DEF FileInv, BlobsStay, RowsHaveBlobs
  <2>4. collector.pc = "walk" /\ ~collector.live /\ blob = "old" => \A g \in Kept' : files'[g].old
    BY <1>2, <1>5, <1>8, <2>1, <2>2 DEF FileInv, BlobsStay
  <2> QED BY <1>1, <1>2, <1>6, <2>3, <2>4 DEF FileInv, BlobsStay
<1>14. FilingInv'
  BY <1>1, <1>8, FilingStays
<1> QED BY <1>7, <1>10, <1>11, <1>12, <1>13, <1>14 DEF FileInv, FilingInv

\* A handoff that names nothing takes the row of a request: its uploader is told of it, or
\* does not know.
LEMMA NameTaken ==
  ASSUME FileInv, FilesTyped', NEW u \in Uploaders, upload[u].pc = "publish", upload[u].file \in Kept,
         Named(upload[u].ref) = 0,
         \A ref \in Refs : Named(ref)' = IF ref = upload[u].ref THEN upload[u].file ELSE Named(ref),
         \A ref \in ApiRefs \cup ChatRefs : intakes'[ref].file # 0 => intakes'[ref].status = "saved",
         \A f \in Files : files'[f].status = files[f].status /\ (files[f].unsure => files'[f].unsure),
         \A v \in Uploaders : v # u => upload'[v] = upload[v],
         upload'[u].canonical = 0,
         \/ /\ answers' = [answers EXCEPT ![upload[u].ref] = @ \cup {upload[u].file}]
            /\ upload'[u].pc = "idle"
         \/ /\ answers' = answers
            /\ upload'[u].pc = "discard" /\ upload'[u].file = upload[u].file
            /\ files'[upload[u].file].unsure
  PROVE  NamesInv'
<1> USE FileNumbers
<1> PICK h \in Refs : h = upload[u].ref
  BY UploadAt DEF WellPlaced
<1> PICK f \in Files : f = upload[u].file
  BY DEF Kept
<1>1. /\ Kept' = Kept /\ f \in Kept /\ OwnRow(u)
      /\ Named(h) = 0 /\ f # 0
      /\ files'[f].status = "there" /\ files[f].status = "there"
  <2>1. Kept' = Kept
    BY DEF Kept
  <2>2. OwnRow(u)
    BY DEF FileInv, OwnRows
  <2> QED BY <2>1, <2>2 DEF Kept
<1>2. \A ref \in Refs : f \notin answers[ref] /\ Named(ref) # f
  BY <1>1 DEF OwnRow
<1>3. \A ref \in Refs : answers[ref] \subseteq Files
  BY DEF FileInv, FilesTyped
<1>4. \A ref \in Refs : \A g \in answers'[ref] : g \in answers[ref] \/ (g = f /\ ref = h /\ upload'[u].pc = "idle")
  <2>1. CASE answers' = answers
    BY <2>1
  <2>2. CASE answers' = [answers EXCEPT ![h] = @ \cup {f}] /\ upload'[u].pc = "idle"
    <3>1. \A ref \in Refs : answers'[ref] = IF ref = h THEN answers[h] \cup {f} ELSE answers[ref]
      BY <2>2 DEF FileInv, FilesTyped
    <3> QED BY <2>2, <3>1
  <2> QED BY <2>1, <2>2
<1>5. NamesStand'
  <2>1. \A ref \in Refs : Named(ref)' # 0 => Named(ref)' \in Kept'
    BY <1>1 DEF FileInv, NamesStand
  <2> QED BY <2>1 DEF NamesStand
<1>6. AnswersNamed'
  <2> SUFFICES ASSUME NEW ref \in Refs, NEW g \in answers'[ref]
               PROVE  files'[g].status # "none" /\ (g \in Kept' => Named(ref)' = g)
    BY DEF AnswersNamed
  <2>1. CASE g \in answers[ref]
    <3>1. g \in Files /\ files[g].status # "none" /\ (g \in Kept => Named(ref) = g)
      BY <1>3, <2>1 DEF FileInv, AnswersNamed
    <3>2. g \in Kept => ref # h
      BY <1>1, <3>1
    <3> QED BY <1>1, <3>1, <3>2
  <2>2. CASE g = f /\ ref = h
    BY <1>1, <2>2
  <2> QED BY <1>4, <2>1, <2>2
<1>7. AnswersStand'
  <2> SUFFICES ASSUME NEW ref \in Refs, NEW g \in answers'[ref], files'[g].status = "discarded"
               PROVE  files'[g].unsure
    BY DEF AnswersStand
  <2>1. g # f
    BY <1>1
  <2>2. g \in answers[ref] /\ g \in Files
    BY <1>3, <1>4, <2>1
  <2> QED BY <2>2 DEF FileInv, AnswersStand
<1>8. OwnRows'
  <2> SUFFICES ASSUME NEW v \in Uploaders, upload'[v].pc \in {"publish", "discard"} PROVE OwnRow(v)'
    BY DEF OwnRows
  <2>1. CASE v = u
    <3>1. upload'[u].pc = "discard" /\ upload'[u].file = f /\ files'[f].unsure
      BY <2>1
    <3>2. \A w \in Uploaders : w # u /\ upload'[w].pc \in {"publish", "discard"} => upload'[w].file # f
      BY <1>1 DEF OwnRow
    <3> QED BY <1>1, <2>1, <3>1, <3>2 DEF OwnRow
  <2>2. CASE v # u
    <3>1. upload'[v] = upload[v] /\ OwnRow(v)
      BY <2>2 DEF FileInv, OwnRows
    <3> PICK g \in Files : g = upload[v].file
      BY <3>1 DEF OwnRow
    <3>2. g # f /\ files'[g].status # "none"
      BY <1>1, <2>2, <3>1 DEF OwnRow
    <3>3. \A w \in Uploaders : w # v /\ upload'[w].pc \in {"publish", "discard"} => upload'[w].file # g
      <4>1. \A w \in Uploaders : w # v /\ w # u /\ upload'[w].pc \in {"publish", "discard"} => upload'[w].file # g
        BY <3>1 DEF OwnRow
      <4>2. upload'[u].pc \in {"publish", "discard"} => upload'[u].file # g
        BY <3>2
      <4> QED BY <4>1, <4>2
    <3>4. \A ref \in Refs : (Named(ref) # g /\ g \notin answers[ref]) => (Named(ref)' # g /\ g \notin answers'[ref])
      BY <1>4, <3>2
    <3> QED BY <3>1, <3>2, <3>3, <3>4 DEF OwnRow
  <2> QED BY <2>1, <2>2
<1>9. CanonicalNamed'
  <2> SUFFICES ASSUME NEW v \in Uploaders, upload'[v].canonical # 0 PROVE Answerable(v)'
    BY DEF CanonicalNamed
  <2>1. v # u /\ upload'[v] = upload[v] /\ Answerable(v)
    BY DEF FileInv, CanonicalNamed
  <2> PICK g \in Files : g = upload[v].canonical
    BY <2>1, UploadAt DEF Uploading
  <2> PICK r \in Refs : r = upload[v].ref
    BY <2>1, UploadAt DEF WellPlaced, Answerable
  <2>2. g \in Kept => r # h
    BY <1>1, <2>1 DEF Answerable
  <2>3. g \in Kept' => Named(r)' = g
    BY <1>1, <2>1, <2>2 DEF Answerable
  <2> QED BY <2>1, <2>3 DEF Answerable
<1> QED BY <1>5, <1>6, <1>7, <1>8, <1>9 DEF NamesInv

\* A request whose row was not published gives it up, and may be answered with another.
LEMMA GivesUp ==
  ASSUME FileInv, NEW u \in Uploaders, NEW g \in 0 .. MaxFiles, upload[u].pc = "publish",
         Goes(u, [upload[u] EXCEPT !.pc = "discard", !.canonical = g]),
         g # 0 => files[g].status # "none" /\ Named(upload[u].ref) = g,
         UNCHANGED <<blob, files, recordVars, collector, answers>>
  PROVE  FileInv'
<1> DEFINE up == [upload[u] EXCEPT !.pc = "discard", !.canonical = g]
<1>1. /\ up \in Uploading /\ up.pc = "discard" /\ up.ref = upload[u].ref /\ up.file = upload[u].file
      /\ up.canonical = g
  BY UploadAt DEF Uploading
<1> HIDE DEF up
<1>2. WellPlaced(up)
  BY <1>1, UploadAt DEF WellPlaced
<1>3. Goes(u, up)
  BY DEF up
<1>4. upload'[u] = up /\ \A v \in Uploaders : v # u => upload'[v] = upload[v]
  BY <1>1, <1>2, <1>3, GoesOn
<1>5. FilesTyped'
  BY <1>1, <1>2, <1>3, GoesOn DEF FileInv, FilesTyped, recordVars
<1>6. Kept' = Kept /\ \A r \in Refs : Named(r)' = Named(r)
  BY DEF Kept, Named, recordVars
<1>7. NamesStand' /\ AnswersNamed' /\ AnswersStand'
  BY <1>6 DEF FileInv, NamesStand, AnswersNamed, AnswersStand, recordVars
<1>8. OwnRows'
  <2> SUFFICES ASSUME NEW v \in Uploaders, upload'[v].pc \in {"publish", "discard"} PROVE OwnRow(v)'
    BY DEF OwnRows
  <2>1. upload[v].pc \in {"publish", "discard"} /\ upload'[v].file = upload[v].file
        /\ (upload[v].pc = "discard" => upload'[v].pc = "discard")
    BY <1>1, <1>4
  <2>2. OwnRow(v)
    BY <2>1 DEF FileInv, OwnRows
  <2>3. \A w \in Uploaders : w # v /\ upload'[w].pc \in {"publish", "discard"} => upload'[w].file # upload[v].file
    BY <1>1, <1>4, <2>2 DEF OwnRow
  <2> QED BY <1>6, <2>1, <2>2, <2>3 DEF OwnRow
<1>9. CanonicalNamed'
  <2> SUFFICES ASSUME NEW v \in Uploaders, upload'[v].canonical # 0 PROVE Answerable(v)'
    BY DEF CanonicalNamed
  <2>1. CASE v = u
    <3> PICK r \in Refs : r = upload[u].ref
      BY UploadAt DEF WellPlaced
    <3>1. upload'[u].ref = r /\ upload'[u].canonical = g /\ Named(r)' = g
      BY <1>1, <1>4, <1>6, <2>1
    <3> QED BY <1>1, <1>4, <2>1, <3>1 DEF Answerable
  <2>2. CASE v # u
    <3>1. upload'[v] = upload[v] /\ Answerable(v)
      BY <1>4, <2>2 DEF FileInv, CanonicalNamed
    <3> PICK r \in Refs : r = upload[v].ref
      BY <3>1, UploadAt DEF WellPlaced, Answerable
    <3>2. Named(r)' = Named(r)
      BY <1>6
    <3> QED BY <1>6, <3>1, <3>2 DEF Answerable
  <2> QED BY <2>1, <2>2
<1>10. BlobsStay'
  BY <1>1, <1>2, <1>3, BlobsAsTheyWere
<1>11. FilingInv'
  BY <1>6, FilingStays DEF recordVars
<1> QED BY <1>5, <1>7, <1>8, <1>9, <1>10, <1>11 DEF FileInv, FilingInv

LEMMA GivesUpWithNothing ==
  ASSUME FileInv, NEW u \in Uploaders, upload[u].pc = "publish", Goes(u, [upload[u] EXCEPT !.pc = "discard"]),
         UNCHANGED <<blob, files, recordVars, collector, answers>>
  PROVE  FileInv'
<1>1. upload[u].canonical = 0
  BY DEF FileInv, CanonicalNamed, Answerable
<1>2. [upload[u] EXCEPT !.pc = "discard"] = [upload[u] EXCEPT !.pc = "discard", !.canonical = 0]
  BY <1>1, UploadAt DEF Uploading
<1>3. 0 \in 0 .. MaxFiles
  BY FileAssumption
<1> QED BY <1>2, <1>3, GivesUp

\* Where a handoff of an intake names nothing.
LEMMA NotPublished ==
  ASSUME FileInv, NEW ref \in Refs, ref \notin RunRefs, ~IsPublished(ref)
  PROVE  Named(ref) = 0 /\ intakes[ref].file = 0 /\ ref \in ApiRefs \cup ChatRefs
BY DEF Refs, IsPublished, Named, FileInv, NamesStand

LEMMA SavedNames ==
  ASSUME FileInv, NEW h \in ApiRefs \cup ChatRefs, NEW f \in Kept, Saved(h, f), Kept' = Kept
  PROVE  /\ FilingInv'
         /\ intakes' \in [ApiRefs \cup ChatRefs -> IntakeRows] /\ cases' \in [CaseNames -> CaseRows]
         /\ UNCHANGED <<analyses, artifacts, reopened>>
         /\ \A ref \in Refs : Named(ref)' = IF ref = h THEN f ELSE Named(ref)
         /\ \A ref \in ApiRefs \cup ChatRefs : intakes'[ref].file # 0 => intakes'[ref].status = "saved"
<1>1. /\ FilingInv'
      /\ intakes' \in [ApiRefs \cup ChatRefs -> IntakeRows] /\ cases' \in [CaseNames -> CaseRows]
      /\ intakes'[h] = [status |-> "saved", file |-> f]
      /\ \A r \in ApiRefs \cup ChatRefs : r # h => intakes'[r] = intakes[r]
  BY FilingSaved
<1>2. UNCHANGED <<analyses, artifacts, reopened>>
  BY DEF Saved
<1>3. h \notin RunRefs
  BY FileAssumption
<1>4. \A ref \in Refs : Named(ref)' = IF ref = h THEN f ELSE Named(ref)
  BY <1>1, <1>2, <1>3 DEF Named, Refs
<1>5. \A ref \in ApiRefs \cup ChatRefs : intakes'[ref].file # 0 => intakes'[ref].status = "saved"
  BY <1>1 DEF FileInv, NamesStand
<1> QED BY <1>1, <1>2, <1>4, <1>5

LEMMA PublishIntakeKeeps ==
  ASSUME FileInv, NEW u \in Uploaders, PublishIntake(u)
  PROVE  FileInv'
<1> USE FileNumbers
<1> PICK h \in Refs : h = upload[u].ref
  BY UploadAt DEF WellPlaced, PublishIntake
<1>1. /\ upload[u].pc = "publish" /\ h \notin RunRefs /\ h \in ApiRefs \cup ChatRefs
      /\ UNCHANGED <<blob, files, collector>>
  BY DEF PublishIntake, Refs
<1>2. CASE IsPublished(h)
  <2> DEFINE g == intakes[h].file
  <2>1. Goes(u, [upload[u] EXCEPT !.pc = "discard", !.canonical = g]) /\ UNCHANGED <<recordVars, answers>>
    BY <1>2 DEF PublishIntake
  <2>2. g # 0 /\ Named(h) = g /\ g \in 0 .. MaxFiles
    BY <1>1, <1>2 DEF IsPublished, Named, FileInv, FilesTyped, IntakeRows
  <2>3. files[g].status # "none"
    BY <2>2 DEF FileInv, NamesStand, Kept
  <2> HIDE DEF g
  <2> QED BY <1>1, <2>1, <2>2, <2>3, GivesUp
<1>3. CASE ~IsPublished(h) /\ upload[u].file \in Kept
  <2> PICK f \in Kept : f = upload[u].file
    BY <1>3
  <2>1. Saved(h, f) /\ answers' = [answers EXCEPT ![h] = @ \cup {f}] /\ Goes(u, NoUpload)
    BY <1>3 DEF PublishIntake, Answered, Ends
  <2>2. Kept' = Kept
    BY <1>1 DEF Kept
  <2>3. Named(h) = 0
    BY <1>1, <1>3, NotPublished
  <2>4. /\ FilingInv'
        /\ intakes' \in [ApiRefs \cup ChatRefs -> IntakeRows] /\ cases' \in [CaseNames -> CaseRows]
        /\ UNCHANGED <<analyses, artifacts, reopened>>
        /\ \A ref \in Refs : Named(ref)' = IF ref = h THEN f ELSE Named(ref)
        /\ \A ref \in ApiRefs \cup ChatRefs : intakes'[ref].file # 0 => intakes'[ref].status = "saved"
    BY <1>1, <2>1, <2>2, SavedNames
  <2>5. /\ upload' \in [Uploaders -> Uploading] /\ \A v \in Uploaders : WellPlaced(upload'[v])
        /\ upload'[u] = NoUpload /\ \A v \in Uploaders : v # u => upload'[v] = upload[v]
    BY <2>1, GoesOn, NoUploadTyped
  <2>6. answers' \in [Refs -> SUBSET Files]
    BY <2>1 DEF FileInv, FilesTyped, Kept
  <2>7. FilesTyped'
    BY <1>1, <2>4, <2>5, <2>6 DEF FileInv, FilesTyped
  <2>8. NamesInv'
    BY <1>1, <1>3, <2>1, <2>3, <2>4, <2>5, <2>7, NameTaken, NoUploadTyped
  <2>9. BlobsStay'
    BY <1>1, <2>1, NoUploadTyped, BlobsAsTheyWere
  <2> QED BY <2>4, <2>7, <2>8, <2>9 DEF FileInv, FilingInv, NamesInv
<1>4. CASE ~IsPublished(h) /\ upload[u].file \notin Kept
  <2>1. Goes(u, [upload[u] EXCEPT !.pc = "discard"]) /\ UNCHANGED <<recordVars, answers>>
    BY <1>4 DEF PublishIntake
  <2> QED BY <1>1, <2>1, GivesUpWithNothing
<1> QED BY <1>2, <1>3, <1>4

LEMMA RecordArtifactKeeps ==
  ASSUME FileInv, NEW u \in Uploaders, RecordArtifact(u)
  PROVE  FileInv'
<1> USE FileNumbers
<1> PICK h \in RunRefs : h = upload[u].ref
  BY DEF RecordArtifact
<1>1. /\ upload[u].pc = "publish" /\ h \in Refs /\ Named(h) = artifacts[h]
      /\ UNCHANGED <<blob, files, intakes, cases, analyses, reopened, collector>>
  BY DEF RecordArtifact, Refs, Named
<1>2. CASE leased /\ upload[u].file \in Kept /\ artifacts[h] = 0
  <2> PICK f \in Kept : f = upload[u].file
    BY <1>2
  <2>1. /\ artifacts' = [artifacts EXCEPT ![h] = f] /\ answers' = [answers EXCEPT ![h] = @ \cup {f}]
        /\ Goes(u, NoUpload)
    BY <1>2 DEF RecordArtifact, Answered, Ends
  <2>2. Kept' = Kept /\ f \in Files
    BY <1>1 DEF Kept
  <2>3. artifacts' \in [RunRefs -> 0 .. MaxFiles] /\ artifacts'[h] = f /\ \A r \in RunRefs : r # h => artifacts'[r] = artifacts[r]
    BY <2>1, <2>2 DEF FileInv, FilesTyped
  <2>4. \A ref \in Refs : Named(ref)' = IF ref = h THEN f ELSE Named(ref)
    BY <1>1, <2>3 DEF Named
  <2>5. /\ upload' \in [Uploaders -> Uploading] /\ \A v \in Uploaders : WellPlaced(upload'[v])
        /\ upload'[u] = NoUpload /\ \A v \in Uploaders : v # u => upload'[v] = upload[v]
    BY <2>1, GoesOn, NoUploadTyped
  <2>6. answers' \in [Refs -> SUBSET Files]
    BY <1>1, <2>1, <2>2 DEF FileInv, FilesTyped
  <2>7. FilesTyped'
    BY <1>1, <2>3, <2>5, <2>6 DEF FileInv, FilesTyped
  <2>8. NamesInv'
    <3>1. \A ref \in ApiRefs \cup ChatRefs : intakes'[ref].file # 0 => intakes'[ref].status = "saved"
      BY <1>1 DEF FileInv, NamesStand
    <3> QED BY <1>1, <1>2, <2>1, <2>4, <2>5, <2>7, <3>1, NameTaken, NoUploadTyped
  <2>9. BlobsStay' /\ FilingInv'
    BY <1>1, <2>1, <2>2, NoUploadTyped, BlobsAsTheyWere, FilingStays
  <2> QED BY <2>7, <2>8, <2>9 DEF FileInv, FilingInv, NamesInv
<1>3. CASE ~(leased /\ upload[u].file \in Kept /\ artifacts[h] = 0)
  <2> DEFINE g == IF leased /\ upload[u].file \in Kept THEN artifacts[h] ELSE 0
  <2>1. Goes(u, [upload[u] EXCEPT !.pc = "discard", !.canonical = g]) /\ UNCHANGED <<artifacts, answers>>
    BY <1>3 DEF RecordArtifact
  <2>2. g \in 0 .. MaxFiles
    <3>1. 0 \in 0 .. MaxFiles
      BY FileAssumption
    <3> QED BY <3>1 DEF FileInv, FilesTyped
  <2>3. g # 0 => Named(h) = g /\ files[g].status # "none"
    BY <1>1 DEF FileInv, NamesStand, Kept
  <2> HIDE DEF g
  <2> QED BY <1>1, <2>1, <2>2, <2>3, GivesUp DEF recordVars
<1> QED BY <1>2, <1>3

LEMMA PublishFailsKeeps ==
  ASSUME FileInv, NEW u \in Uploaders, NEW committed \in BOOLEAN, PublishFails(u, committed)
  PROVE  FileInv'
<1> USE FileNumbers
<1> DEFINE up == [upload[u] EXCEPT !.pc = "discard"]
<1> PICK h \in Refs : h = upload[u].ref
  BY UploadAt DEF WellPlaced, PublishFails
<1>1. upload[u].pc = "publish" /\ Goes(u, up) /\ UNCHANGED <<blob, collector, answers>>
  BY DEF PublishFails
<1>2. CASE ~committed
  BY <1>1, <1>2, GivesUpWithNothing DEF PublishFails
<1>3. CASE committed
  <2> PICK f \in Kept : f = upload[u].file
    BY <1>3 DEF PublishFails
  <2>1. f \in Files /\ files' = [files EXCEPT ![f].unsure = TRUE]
    BY <1>3 DEF PublishFails, Kept
  <2>2. /\ files' \in [Files -> FileRows] /\ files'[f].unsure
        /\ \A g \in Files : /\ files'[g].status = files[g].status /\ files'[g].old = files[g].old
                            /\ files[g].unsure => files'[g].unsure
    BY <2>1, ZenonT(60) DEF FileInv, FilesTyped, FileRows
  <2>3. Kept' = Kept
    BY <2>2 DEF Kept
  <2>4. /\ FilingInv'
        /\ intakes' \in [ApiRefs \cup ChatRefs -> IntakeRows] /\ cases' \in [CaseNames -> CaseRows]
        /\ artifacts' \in [RunRefs -> 0 .. MaxFiles] /\ UNCHANGED <<analyses, reopened>>
        /\ Named(h) = 0
        /\ \A ref \in Refs : Named(ref)' = IF ref = h THEN f ELSE Named(ref)
        /\ \A ref \in ApiRefs \cup ChatRefs : intakes'[ref].file # 0 => intakes'[ref].status = "saved"
    <3>1. CASE h \in RunRefs
      <4>1. /\ artifacts[h] = 0 /\ artifacts' = [artifacts EXCEPT ![h] = f]
            /\ UNCHANGED <<intakes, cases, analyses, reopened>>
        BY <1>3, <3>1 DEF PublishFails
      <4>2. artifacts' \in [RunRefs -> 0 .. MaxFiles] /\ artifacts'[h] = f /\ \A r \in RunRefs : r # h => artifacts'[r] = artifacts[r]
        BY <2>1, <3>1, <4>1 DEF FileInv, FilesTyped
      <4>3. Named(h) = 0 /\ \A ref \in Refs : Named(ref)' = IF ref = h THEN f ELSE Named(ref)
        BY <3>1, <4>1, <4>2 DEF Named
      <4>4. FilingInv'
        BY <2>3, <4>1, FilingStays
      <4> QED BY <4>1, <4>2, <4>3, <4>4 DEF FileInv, FilesTyped, NamesStand
    <3>2. CASE h \notin RunRefs
      <4>1. Saved(h, f) /\ ~IsPublished(h)
        BY <1>3, <3>2 DEF PublishFails
      <4>2. h \in ApiRefs \cup ChatRefs /\ Named(h) = 0
        BY <3>2, <4>1, NotPublished
      <4> QED BY <2>3, <4>1, <4>2, SavedNames DEF FileInv, FilesTyped
    <3> QED BY <3>1, <3>2
  <2>5. up \in Uploading /\ up.pc = "discard" /\ up.ref = h /\ up.file = f /\ up.canonical = 0
    BY <1>1, UploadAt DEF Uploading, FileInv, CanonicalNamed, Answerable
  <2> HIDE DEF up
  <2>6. /\ upload' \in [Uploaders -> Uploading] /\ \A v \in Uploaders : WellPlaced(upload'[v])
        /\ upload'[u] = up /\ \A v \in Uploaders : v # u => upload'[v] = upload[v]
    <3>1. WellPlaced(up)
      BY <2>5 DEF WellPlaced
    <3> QED BY <1>1, <2>5, <3>1, GoesOn
  <2>7. FilesTyped'
    BY <1>1, <2>2, <2>4, <2>6 DEF FileInv, FilesTyped
  <2>8. NamesInv'
    BY <1>1, <2>2, <2>4, <2>5, <2>6, <2>7, NameTaken
  <2>9. BlobsStay'
    <3>1. \A g \in Kept : files'[g].old = files[g].old
      BY <2>2 DEF Kept
    <3>2. \A v \in Uploaders : upload'[v] = upload[v] \/ upload'[v].pc \notin {"row", "intake"}
      BY <2>5, <2>6
    <3> QED BY <1>1, <2>3, <3>1, <3>2, FewerRows
  <2> QED BY <2>4, <2>7, <2>8, <2>9 DEF FileInv, FilingInv, NamesInv
<1> QED BY <1>2, <1>3

--------------------------------------------------------------------------------
(* Rows that go *)

\* A row goes, and with it a request, which may be answered with another row.
LEMMA RowGoes ==
  ASSUME FileInv, NEW f \in Kept, NEW how \in {"deleted", "discarded"}, ~Referenced(f), Removed(f, how),
         UNCHANGED <<blob, collector>>,
         how = "discarded" => files[f].unsure \/ \A ref \in Refs : f \notin answers[ref],
         UNCHANGED upload \/ \E u \in Uploaders : Goes(u, NoUpload),
         \/ UNCHANGED answers
         \/ \E ref \in Refs, g \in Kept : Named(ref) = g /\ g # f /\ answers' = [answers EXCEPT ![ref] = @ \cup {g}]
  PROVE  FileInv'
<1>1. /\ FilingInv'
      /\ files' \in [Files -> FileRows]
      /\ intakes' \in [ApiRefs \cup ChatRefs -> IntakeRows]
      /\ cases' \in [CaseNames -> CaseRows]
      /\ analyses' \in [1 .. MaxAnalyses -> Analysing]
      /\ Kept' = Kept \ {f}
      /\ files'[f].status = how
      /\ \A g \in Files : files'[g].unsure = files[g].unsure /\ files'[g].old = files[g].old
      /\ \A g \in Files : g # f => files'[g] = files[g]
      /\ \A ref \in Refs : Named(ref)' = IF Named(ref) = f THEN 0 ELSE Named(ref)
      /\ \A ref \in ApiRefs \cup ChatRefs : intakes'[ref].status = intakes[ref].status
  BY FilingRemoved
<1>2. /\ upload' \in [Uploaders -> Uploading] /\ \A v \in Uploaders : WellPlaced(upload'[v])
      /\ \A v \in Uploaders : upload'[v] = upload[v] \/ upload'[v] = NoUpload
  <2>1. CASE UNCHANGED upload
    BY <2>1 DEF FileInv, FilesTyped
  <2>2. CASE \E u \in Uploaders : Goes(u, NoUpload)
    BY <2>2, GoesOn, NoUploadTyped
  <2> QED BY <2>1, <2>2
<1>3. Told
  BY <1>1 DEF Told
<1>4. FilesTyped'
  BY <1>1, <1>2, <1>3, ToldTyped DEF Removed, FileInv, FilesTyped
<1>5. NamesInv'
  <2>1. \A ref \in Refs : Named(ref)' = IF Named(ref) \in Kept' THEN Named(ref) ELSE 0
    BY <1>1 DEF FileInv, NamesStand
  <2>2. f \in Files /\ files[f].status = "there"
    BY DEF Kept
  <2>3. \A g \in Files :
          /\ files'[g].status = "none" <=> files[g].status = "none"
          /\ files[g].unsure => files'[g].unsure
          /\ files'[g].status = "discarded" =>
               files[g].status = "discarded" \/ files[g].unsure \/ \A ref \in Refs : g \notin answers[ref]
    <3> TAKE g \in Files
    <3>1. CASE g = f
      BY <1>1, <2>2, <3>1
    <3>2. CASE g # f
      BY <1>1, <3>2
    <3> QED BY <3>1, <3>2
  <2>4. NamesOnlyGo
    BY <1>1, <1>2, <1>3, <2>1, <2>3, NoUploadTyped DEF NamesOnlyGo
  <2> QED BY <1>4, <2>4, NamesGo
<1>6. BlobsStay'
  <2>1. \A g \in Kept : files'[g].old = files[g].old
    BY <1>1 DEF Kept
  <2>2. \A v \in Uploaders : upload'[v] = upload[v] \/ upload'[v].pc \notin {"row", "intake"}
    BY <1>2, NoUploadTyped
  <2> QED BY <1>1, <2>1, <2>2, FewerRows
<1> QED BY <1>1, <1>4, <1>5, <1>6 DEF FileInv, FilingInv, NamesInv

LEMMA DiscardKeeps ==
  ASSUME FileInv, NEW u \in Uploaders, Discard(u)
  PROVE  FileInv'
<1> PICK f : f = upload[u].file
  OBVIOUS
<1> PICK g : g = upload[u].canonical
  OBVIOUS
<1> PICK h \in Refs : h = upload[u].ref
  BY UploadAt DEF WellPlaced, Discard
<1>1. /\ upload[u].pc = "discard" /\ OwnRow(u) /\ Goes(u, NoUpload)
      /\ UNCHANGED <<blob, collector>>
  BY DEF Discard, Answered, Ends, FileInv, OwnRows
<1>2. \/ UNCHANGED answers
      \/ g \in Kept \ {f} /\ Named(h) = g /\ answers' = [answers EXCEPT ![h] = @ \cup {g}]
  <2>1. CASE g \in Kept \ {f}
    <3>1. answers' = [answers EXCEPT ![h] = @ \cup {g}]
      BY <2>1 DEF Discard, Answered, RowToDiscard
    <3>2. g # 0
      BY <2>1, FileNumbers DEF Kept
    <3> QED BY <2>1, <3>1, <3>2 DEF FileInv, CanonicalNamed, Answerable
  <2>2. CASE g \notin Kept \ {f}
    BY <2>2 DEF Discard, RowToDiscard
  <2> QED BY <2>1, <2>2
<1>3. CASE f \in Kept /\ ~Referenced(f)
  <2>1. Removed(f, "discarded")
    BY <1>3 DEF Discard, RowToDiscard
  <2>2. files[f].unsure \/ \A ref \in Refs : f \notin answers[ref]
    BY <1>1 DEF OwnRow
  <2> QED BY <1>1, <1>2, <1>3, <2>1, <2>2, RowGoes
<1>4. CASE ~(f \in Kept /\ ~Referenced(f))
  <2>1. UNCHANGED <<files, recordVars>>
    BY <1>4 DEF Discard, RowToDiscard
  <2>2. Told
    <3>1. Kept' = Kept
      BY <2>1 DEF Kept
    <3> QED BY <1>2, <3>1 DEF Told
  <2>3. BlobsStay'
    BY <1>1, <2>1, NoUploadTyped, BlobsAsTheyWere
  <2> QED BY <1>1, <2>1, <2>2, <2>3, NoUploadTyped, RequestMoves DEF recordVars, FileInv, FilesTyped
<1> QED BY <1>3, <1>4

LEMMA DeleteFileKeeps ==
  ASSUME FileInv, NEW f \in Files, DeleteFile(f)
  PROVE  FileInv'
<1>1. f \in Kept /\ ~Referenced(f) /\ Removed(f, "deleted") /\ UNCHANGED <<blob, collector, upload, answers>>
  BY DEF DeleteFile
<1> QED BY <1>1, RowGoes

--------------------------------------------------------------------------------
(* Analyses and the collector *)

\* A step of the analyses: requests, rows and names stay.
LEMMA AnalysesMove ==
  ASSUME FileInv, UNCHANGED <<blob, files, intakes, artifacts, upload, collector, answers>>,
         cases' \in [CaseNames -> CaseRows], analyses' \in [1 .. MaxAnalyses -> Analysing], FilingInv'
  PROVE  FileInv'
<1>1. Kept' = Kept /\ \A ref \in Refs : Named(ref)' = Named(ref)
  BY DEF Kept, Named
<1>2. FilesTyped'
  BY DEF FileInv, FilesTyped
<1>3. NamesStand' /\ AnswersNamed' /\ AnswersStand'
  BY <1>1 DEF FileInv, NamesStand, AnswersNamed, AnswersStand
<1>4. OwnRows'
  BY <1>1 DEF FileInv, OwnRows, OwnRow
<1>5. CanonicalNamed'
  BY DEF FileInv, CanonicalNamed, Answerable, Kept, Named
<1>6. BlobsStay'
  BY <1>1 DEF FileInv, BlobsStay, RowsHaveBlobs
<1> QED BY <1>2, <1>3, <1>4, <1>5, <1>6 DEF FileInv, FilingInv

LEMMA AnalyseKeeps ==
  ASSUME FileInv, NEW a \in 1 .. MaxAnalyses, NEW chosen \in SUBSET Files, Analyse(a, chosen)
  PROVE  FileInv'
<1> DEFINE row == [status |-> "queued", files |-> chosen, task |-> TRUE]
<1>1. row \in Analysing /\ row.status = "queued" /\ row.files = chosen
  BY DEF Analysing
<1>2. analyses' = [analyses EXCEPT ![a] = row]
  BY DEF Analyse
<1> HIDE DEF row
<1>3. /\ analyses' \in [1 .. MaxAnalyses -> Analysing] /\ analyses'[a] = row
      /\ \A b \in 1 .. MaxAnalyses : b # a => analyses'[b] = analyses[b]
      /\ analyses[a].files = {}
  <2>1. analyses \in [1 .. MaxAnalyses -> Analysing]
    BY DEF FileInv, FilesTyped
  <2>2. analyses[a].files = {}
    BY DEF Analyse, NoAnalysis
  <2> QED BY <1>1, <1>2, <2>1, <2>2
<1>4. /\ cases' \in [CaseNames -> CaseRows]
      /\ \A c \in CaseNames :
           \/ cases'[c] = cases[c] /\ cases[c].status # "received"
           \/ cases'[c].files = cases[c].files \ chosen /\ (cases'[c].files # {} => cases'[c].status = "received")
  <2>1. \A c \in CaseNames : cases[c] \in CaseRows
    BY DEF FileInv, FilesTyped
  <2>2. \A c \in CaseNames : cases[c].files \subseteq chosen => cases[c].files \ chosen = {}
    OBVIOUS
  <2> QED BY <2>1, <2>2 DEF Analyse, CaseRows
<1>5. CasesWait'
  BY <1>4 DEF FileInv, CasesWait
<1>6. FilesAreFiled'
  <2> SUFFICES ASSUME NEW ref \in ApiRefs \cup ChatRefs, IsPublished(ref)'
               PROVE  /\ intakes'[ref].file \in Kept'
                      /\ \/ \E c \in CaseNames : intakes'[ref].file \in cases'[c].files /\ cases'[c].status = "received"
                         \/ \E b \in 1 .. MaxAnalyses : intakes'[ref].file \in analyses'[b].files
    BY DEF FilesAreFiled
  <2> PICK f : f = intakes[ref].file
    OBVIOUS
  <2>1. intakes'[ref].file = f /\ f \in Kept' /\ IsPublished(ref)
    BY DEF Analyse, IsPublished, Kept, FileInv, FilesAreFiled
  <2>2. CASE f \in chosen
    BY <1>1, <1>3, <2>1, <2>2
  <2>3. CASE f \notin chosen
    <3>1. CASE \E c \in CaseNames : f \in cases[c].files /\ cases[c].status = "received"
      <4> PICK c \in CaseNames : f \in cases[c].files /\ cases[c].status = "received"
        BY <3>1
      <4>1. f \in cases'[c].files /\ cases'[c].status = "received"
        BY <1>4, <2>3
      <4> QED BY <2>1, <4>1
    <3>2. CASE \E b \in 1 .. MaxAnalyses : f \in analyses[b].files
      BY <1>3, <2>1, <3>2
    <3> QED BY <2>1, <3>1, <3>2 DEF FileInv, FilesAreFiled
  <2> QED BY <2>2, <2>3
<1>7. AnalysedOnce'
  <2>1. \A b \in 1 .. MaxAnalyses : analyses[b].status \in Working => analyses[b].files \cap chosen = {}
    BY DEF Analyse, Taken
  <2>2. reopened' = reopened
    BY DEF Analyse
  <2> QED BY <1>1, <1>3, <2>1, <2>2 DEF FileInv, AnalysedOnce
<1> QED BY <1>3, <1>4, <1>5, <1>6, <1>7, AnalysesMove DEF Analyse, FilingInv

\* An analysis that was under way, or is opened again, or goes.
LEMMA AnalysisGoesOn ==
  ASSUME FileInv, NEW a \in 1 .. MaxAnalyses, NEW row \in Analysing, analyses' = [analyses EXCEPT ![a] = row],
         row.files = analyses[a].files,
         row.status \in Working => analyses[a].status \in Working \/ a \in reopened',
         reopened \subseteq reopened',
         UNCHANGED <<blob, files, intakes, cases, artifacts, upload, collector, answers>>
  PROVE  FileInv'
<1>1. /\ analyses' \in [1 .. MaxAnalyses -> Analysing] /\ analyses'[a] = row
      /\ \A b \in 1 .. MaxAnalyses : b # a => analyses'[b] = analyses[b]
  BY DEF FileInv, FilesTyped
<1>2. \A b \in 1 .. MaxAnalyses :
        /\ analyses'[b].files = analyses[b].files
        /\ analyses'[b].status \in Working => analyses[b].status \in Working \/ b \in reopened'
  BY <1>1
<1>3. AnalysedOnce'
  <2> SUFFICES ASSUME NEW b \in 1 .. MaxAnalyses, NEW c \in 1 .. MaxAnalyses, b # c,
                      analyses'[b].status \in Working, analyses'[c].status \in Working,
                      analyses'[b].files \cap analyses'[c].files # {}
               PROVE  {b, c} \cap reopened' # {}
    BY DEF AnalysedOnce
  <2>1. CASE analyses[b].status \in Working /\ analyses[c].status \in Working
    BY <1>2, <2>1 DEF FileInv, AnalysedOnce
  <2> QED BY <1>2, <2>1
<1>4. CasesWait' /\ FilesAreFiled'
  BY <1>2 DEF FileInv, CasesWait, FilesAreFiled, IsPublished, Kept
<1> QED BY <1>1, <1>3, <1>4, AnalysesMove DEF FilingInv, FileInv, FilesTyped

LEMMA AnalysisKeeps ==
  ASSUME FileInv, NEW a \in 1 .. MaxAnalyses,
         \/ \E status \in Working \cup {"completed"} : AnalysisMoves(a, status)
         \/ Rework(a)
         \/ \E deleted \in BOOLEAN : TaskEnds(a, deleted)
  PROVE  FileInv'
<1>1. analyses[a] \in Analysing
  BY DEF FileInv, FilesTyped
<1>2. ASSUME NEW status \in Working \cup {"completed"}, AnalysisMoves(a, status) PROVE FileInv'
  <2> DEFINE row == [analyses[a] EXCEPT !.status = status]
  <2>1. row \in Analysing /\ row.files = analyses[a].files
    BY <1>1, <1>2 DEF Analysing, Working
  <2>2. /\ analyses' = [analyses EXCEPT ![a] = row] /\ analyses[a].status \in Working
        /\ UNCHANGED <<blob, files, intakes, cases, artifacts, reopened, upload, collector, answers>>
    BY <1>2 DEF AnalysisMoves
  <2> HIDE DEF row
  <2> QED BY <2>1, <2>2, AnalysisGoesOn
<1>3. ASSUME Rework(a) PROVE FileInv'
  <2> DEFINE row == [analyses[a] EXCEPT !.status = "queued"]
  <2>1. row \in Analysing /\ row.files = analyses[a].files
    BY <1>1 DEF Analysing
  <2>2. /\ analyses' = [analyses EXCEPT ![a] = row]
        /\ analyses[a].status \in {"processing", "completed"}
        /\ reopened' = IF analyses[a].status = "completed" THEN reopened \cup {a} ELSE reopened
        /\ UNCHANGED <<blob, files, intakes, cases, artifacts, upload, collector, answers>>
    BY <1>3 DEF Rework
  <2>3. reopened \subseteq reopened' /\ (analyses[a].status \in Working \/ a \in reopened')
    BY <2>2 DEF Working
  <2> HIDE DEF row
  <2> QED BY <2>1, <2>2, <2>3, AnalysisGoesOn
<1>4. ASSUME NEW deleted \in BOOLEAN, TaskEnds(a, deleted) PROVE FileInv'
  <2> DEFINE row == [analyses[a] EXCEPT !.status = "ignored", !.task = ~deleted]
  <2>1. row \in Analysing /\ row.files = analyses[a].files /\ row.status = "ignored"
    BY <1>1 DEF Analysing
  <2>2. /\ analyses' = [analyses EXCEPT ![a] = row]
        /\ UNCHANGED <<blob, files, intakes, cases, artifacts, reopened, upload, collector, answers>>
    <3>1. [analyses EXCEPT ![a].status = "ignored", ![a].task = ~deleted] = [analyses EXCEPT ![a] = row]
      BY DEF FileInv, FilesTyped
    <3> QED BY <1>4, <3>1 DEF TaskEnds
  <2>3. row.status \notin Working
    BY <2>1 DEF Working
  <2> HIDE DEF row
  <2> QED BY <2>1, <2>2, <2>3, AnalysisGoesOn
<1> QED BY <1>2, <1>3, <1>4

\* A step of the collector, of time or of the process: rows and names stay.
LEMMA BlobMoves ==
  ASSUME FileInv, UNCHANGED <<files, recordVars, answers>>, blob' \in {"absent", "fresh", "old"},
         UNCHANGED upload \/ upload' = [u \in Uploaders |-> NoUpload], BlobsStay'
  PROVE  FileInv'
<1>1. Kept' = Kept /\ \A ref \in Refs : Named(ref)' = Named(ref)
  BY DEF Kept, Named, recordVars
<1>2. \A u \in Uploaders : upload'[u] = upload[u] \/ upload'[u] = NoUpload
  OBVIOUS
<1>3. FilesTyped'
  BY NoUploadTyped DEF FileInv, FilesTyped, recordVars
<1>4. NamesInv'
  <2>1. \A ref \in Refs : Named(ref)' = IF Named(ref) \in Kept' THEN Named(ref) ELSE 0
    BY <1>1 DEF FileInv, NamesStand
  <2>2. NamesOnlyGo
    BY <1>1, <1>2, <2>1, NoUploadTyped DEF NamesOnlyGo, Told, recordVars
  <2> QED BY <1>3, <2>2, NamesGo
<1>5. FilingInv'
  BY <1>1, FilingStays DEF recordVars
<1> QED BY <1>3, <1>4, <1>5 DEF FileInv, FilingInv, NamesInv

LEMMA BlobKeeps ==
  ASSUME FileInv, LeaseEnds \/ BlobAges \/ ListLive \/ WalkBlobs \/ FilesRestart
  PROVE  FileInv'
<1>1. UNCHANGED files => Kept' = Kept
  BY DEF Kept
<1>2. CASE LeaseEnds
  <2>1. BlobsStay'
    BY <1>1, <1>2 DEF LeaseEnds, FileInv, BlobsStay, RowsHaveBlobs
  <2> QED BY <1>2, <2>1, BlobMoves DEF LeaseEnds, FileInv, FilesTyped
<1>3. CASE BlobAges
  <2>1. BlobsStay'
    BY <1>1, <1>3 DEF BlobAges, FileInv, BlobsStay, RowsHaveBlobs
  <2> QED BY <1>3, <2>1, BlobMoves DEF BlobAges
<1>4. CASE ListLive
  <2>1. BlobsStay'
    BY <1>1, <1>4 DEF ListLive, FileInv, BlobsStay, RowsHaveBlobs
  <2> QED BY <1>4, <2>1, BlobMoves DEF ListLive, FileInv, FilesTyped
<1>5. CASE WalkBlobs
  <2>1. BlobsStay'
    BY <1>1, <1>5 DEF WalkBlobs, Collects, FileInv, BlobsStay, RowsHaveBlobs
  <2> QED BY <1>5, <2>1, BlobMoves DEF WalkBlobs, FileInv, FilesTyped
<1>6. CASE FilesRestart
  <2>1. BlobsStay'
    BY <1>1, <1>6, NoUploadTyped DEF FilesRestart, FileInv, BlobsStay, RowsHaveBlobs
  <2> QED BY <1>6, <2>1, BlobMoves DEF FilesRestart, FileInv, FilesTyped
<1> QED BY <1>2, <1>3, <1>4, <1>5, <1>6

LEMMA FileStep == ASSUME FileInv, [FilesNext]_fileVars PROVE FileInv'
<1>1. CASE UNCHANGED fileVars
  <2>1. UNCHANGED <<blob, files, recordVars, upload, collector, answers>>
    BY <1>1 DEF fileVars
  <2>2. BlobsStay'
    BY <2>1 DEF FileInv, BlobsStay, RowsHaveBlobs, Kept
  <2> QED BY <2>1, <2>2, BlobMoves DEF FileInv, FilesTyped
<1>2. ASSUME NEW u \in Uploaders,
        \/ \E ref \in Refs : BeginUpload(u, ref)
        \/ OpenIntake(u) \/ Install(u) \/ InstallFails(u) \/ CreateRow(u)
        \/ PublishIntake(u) \/ RecordArtifact(u) \/ Discard(u)
        \/ \E committed \in BOOLEAN : PublishFails(u, committed)
      PROVE FileInv'
  BY <1>2, BeginUploadKeeps, OpenIntakeKeeps, InstallKeeps, InstallFailsKeeps, CreateRowKeeps,
     PublishIntakeKeeps, RecordArtifactKeeps, DiscardKeeps, PublishFailsKeeps
<1>3. CASE \E f \in Files : DeleteFile(f)
  BY <1>3, DeleteFileKeeps
<1>4. ASSUME NEW a \in 1 .. MaxAnalyses,
        \/ \E chosen \in SUBSET Files : Analyse(a, chosen)
        \/ \E status \in Working \cup {"completed"} : AnalysisMoves(a, status)
        \/ Rework(a)
        \/ \E deleted \in BOOLEAN : TaskEnds(a, deleted)
      PROVE FileInv'
  BY <1>4, AnalyseKeeps, AnalysisKeeps
<1>5. CASE LeaseEnds \/ BlobAges \/ ListLive \/ WalkBlobs \/ FilesRestart
  BY <1>5, BlobKeeps
<1> QED BY <1>1, <1>2, <1>3, <1>4, <1>5 DEF FilesNext

\* Nothing that was answered for, filed or referenced is lost: a row keeps its blob while the
\* collector walks, all answers to a handoff name one file that only a user deletes, a
\* published file is in a case or taken by an analysis, and two analyses share a file only
\* after a rework, for any uploads of any handoffs, failures, uncertain commits and restarts
\* (publishAPIUpload, saveIncomingTelegramFiles, AddWorkerArtifact, maintainFileBlobs,
\* queueMaterialFilesTx).
THEOREM FilesKept == FilesSpec => []FilesAreKept
<1>1. FileInv => FilesAreKept
  <2> SUFFICES ASSUME FileInv PROVE AnswersAgree
    BY DEF FileInv, FilesAreKept, BlobsStay
  <2> SUFFICES ASSUME NEW ref \in Refs PROVE Cardinality(answers[ref] \cap Kept) <= 1
    BY DEF AnswersAgree
  <2>1. answers[ref] \cap Kept \subseteq {Named(ref)}
    BY DEF FileInv, AnswersNamed
  <2>2. IsFiniteSet({Named(ref)}) /\ Cardinality({Named(ref)}) = 1
    BY FS_Singleton
  <2>3. IsFiniteSet(answers[ref] \cap Kept) /\ Cardinality(answers[ref] \cap Kept) <= Cardinality({Named(ref)})
    BY <2>1, <2>2, FS_Subset
  <2> QED BY <2>2, <2>3
<1> QED BY <1>1, FilesInitial, FileStep, PTL DEF FilesSpec

--------------------------------------------------------------------------------
(* The rolling summary of a conversation *)

\* What a fold has read is a beginning of the transcript, and its cut lies behind it.
FoldRows ==
  {r \in [pc : {"idle", "read", "summarize"}, base : Nat, text : SUBSET Nat, cut : Nat] :
     /\ r.text = 1 .. r.base
     /\ r.pc = "summarize" => r.base <= r.cut}

SummaryInv ==
  /\ transcript \in Seq({"user", "assistant"})
  /\ folded \in Nat
  /\ folder \in [Folders -> FoldRows]
  /\ SummaryIsPrefix

LEMMA NoFoldIsARow == NoFold \in FoldRows
BY DEF NoFold, FoldRows

LEMMA SummaryBegins == TranscriptInit => SummaryInv
<1> SUFFICES ASSUME TranscriptInit PROVE SummaryInv
  OBVIOUS
<1>1. folder \in [Folders -> FoldRows]
  BY NoFoldIsARow DEF TranscriptInit
<1> QED BY <1>1 DEF TranscriptInit, SummaryInv, SummaryIsPrefix

\* A fold's row replaces another one.
LEMMA FolderGoesOn ==
  ASSUME SummaryInv, NEW f \in Folders, NEW row \in FoldRows, folder' = [folder EXCEPT ![f] = row],
         UNCHANGED <<transcript, folded, summary>>
  PROVE  SummaryInv'
BY DEF SummaryInv, SummaryIsPrefix

LEMMA StartFoldKeeps == ASSUME SummaryInv, NEW f \in Folders, StartFold(f) PROVE SummaryInv'
<1> PICK old \in FoldRows : old = NoFold
  BY NoFoldIsARow
<1> PICK row : row = [old EXCEPT !.pc = "read", !.base = folded, !.text = summary]
  OBVIOUS
<1>1. row \in FoldRows
  <2>1. folded \in Nat /\ summary = 1 .. folded /\ summary \subseteq Nat
    BY DEF SummaryInv, SummaryIsPrefix
  <2>2. row = [pc |-> "read", base |-> folded, text |-> summary, cut |-> old.cut]
    BY DEF FoldRows
  <2> QED BY <2>1, <2>2 DEF FoldRows
<1>2. folder' = [folder EXCEPT ![f] = row] /\ UNCHANGED <<transcript, folded, summary>>
  BY DEF StartFold
<1> QED BY <1>1, <1>2, FolderGoesOn

\* The cut is behind what the fold has read already.
LEMMA CutsGoForward ==
  ASSUME SummaryInv, NEW b \in Nat, CutPoints(b) # {}, FoldCount(Len(Unfolded(b))) >= CompactMinFold
  PROVE  LeastOf(CutPoints(b)) \in Nat
<1>1. Len(Unfolded(b)) \in Nat
  BY DEF SummaryInv, Unfolded
<1>2. /\ FoldCount(Len(Unfolded(b))) \in Int
      /\ CompactMinFold \in Nat /\ CompactAlign \in Nat
  BY <1>1, TranscriptAssumption DEF FoldCount
<1>3. CutPoints(b) \subseteq Nat
  BY <1>2 DEF CutPoints
<1>4. \E m \in CutPoints(b) : \A n \in CutPoints(b) : m <= n
  BY <1>3, LeastNumber
<1> QED BY <1>3, <1>4 DEF LeastOf

LEMMA CutFoldKeeps == ASSUME SummaryInv, NEW f \in Folders, CutFold(f) PROVE SummaryInv'
<1> PICK b \in Nat : b = folder[f].base
  BY DEF SummaryInv, FoldRows
<1>1. UNCHANGED <<transcript, folded, summary>>
  BY DEF CutFold
<1>2. CASE folder' = [folder EXCEPT ![f] = NoFold]
  BY <1>1, <1>2, NoFoldIsARow, FolderGoesOn
<1>3. CASE /\ FoldCount(Len(Unfolded(b))) >= CompactMinFold /\ CutPoints(b) # {}
           /\ folder' = [folder EXCEPT ![f].pc = "summarize", ![f].cut = b + LeastOf(CutPoints(b))]
  <2> PICK n \in Nat : n = LeastOf(CutPoints(b))
    BY <1>3, CutsGoForward
  <2> PICK old \in FoldRows : old = folder[f]
    BY DEF SummaryInv
  <2> PICK row : row = [old EXCEPT !.pc = "summarize", !.cut = b + n]
    OBVIOUS
  <2>1. row \in FoldRows
    <3>1. old.base = b /\ b + n \in Nat /\ b <= b + n
      OBVIOUS
    <3>2. row = [pc |-> "summarize", base |-> old.base, text |-> old.text, cut |-> b + n]
      BY DEF FoldRows
    <3> QED BY <3>1, <3>2 DEF FoldRows
  <2>2. folder' = [folder EXCEPT ![f] = row]
    BY <1>3
  <2> QED BY <1>1, <2>1, <2>2, FolderGoesOn
<1> QED BY <1>2, <1>3 DEF CutFold

LEMMA SaveFoldKeeps == ASSUME SummaryInv, NEW f \in Folders, SaveFold(f) PROVE SummaryInv'
<1>1. folder' \in [Folders -> FoldRows] /\ UNCHANGED transcript
  BY NoFoldIsARow DEF SummaryInv, SaveFold
<1> PICK b \in Nat, c \in Nat : b = folder[f].base /\ c = folder[f].cut
  BY DEF SummaryInv, FoldRows
<1>2. folder[f].text = 1 .. b /\ b <= c
  BY DEF SummaryInv, FoldRows, SaveFold
<1>3. CASE UNCHANGED <<summary, folded>>
  BY <1>1, <1>3 DEF SummaryInv, SummaryIsPrefix
<1>4. CASE summary' = folder[f].text \cup (b + 1 .. c) /\ folded' = c
  <2>1. (1 .. b) \cup (b + 1 .. c) = 1 .. c
    BY <1>2
  <2> QED BY <1>1, <1>2, <1>4, <2>1 DEF SummaryInv, SummaryIsPrefix
<1> QED BY <1>3, <1>4 DEF SaveFold

LEMMA WritingKeeps == ASSUME SummaryInv, Ask \/ Answer \/ Overhear PROVE SummaryInv'
<1>1. UNCHANGED <<folded, summary, folder>>
  BY DEF Ask, Answer, Overhear
<1> PICK Role : Role = {"user", "assistant"}
  OBVIOUS
<1>2. UNCHANGED transcript \/ \E role \in Role : transcript' = Append(transcript, role)
  BY Zenon DEF Ask, Answer, Overhear
<1>3. transcript \in Seq(Role)
  BY DEF SummaryInv
<1>4. transcript' \in Seq(Role)
  BY <1>2, <1>3
<1> QED BY <1>1, <1>4 DEF SummaryInv, SummaryIsPrefix

\* The summary carries exactly what the fold has passed, whichever of any number of
\* overlapping folds is stored, at any length and with any thresholds (compactSession,
\* UpdateSessionSummary).
THEOREM SummaryPrefixed == TranscriptSpec => []SummaryIsPrefix
<1>1. SummaryInv /\ [TranscriptNext]_transcriptVars => SummaryInv'
  <2> SUFFICES ASSUME SummaryInv, [TranscriptNext]_transcriptVars PROVE SummaryInv'
    OBVIOUS
  <2>1. CASE UNCHANGED transcriptVars
    BY <2>1 DEF SummaryInv, SummaryIsPrefix, transcriptVars
  <2>2. CASE TranscriptNext
    BY <2>2, WritingKeeps, StartFoldKeeps, CutFoldKeeps, SaveFoldKeeps DEF TranscriptNext
  <2> QED BY <2>1, <2>2
<1>2. SummaryInv => SummaryIsPrefix
  BY DEF SummaryInv
<1> QED BY <1>1, <1>2, SummaryBegins, PTL DEF TranscriptSpec
================================================================================
