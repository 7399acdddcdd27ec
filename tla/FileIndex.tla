------------------------------ MODULE FileIndex ------------------------------
(* The text of files and its vectors: two leased queues over the rows of        *)
(* file_content_indexes, passes of documentindex in each process, and the       *)
(* removal of points whose chunk is gone.  All chunks of a file are one, as     *)
(* they are written, embedded and deleted together; the text of a file is       *)
(* extracted successfully once, so its chunks never change.                     *)
EXTENDS Integers, FiniteSets

CONSTANTS
  Documents,        \* files whose content may be indexed
  Indexers,         \* processes that run documentindex
  MaxIndexAttempts, \* fileIndexMaxAttempts
  MaxUpgrades,      \* bound: changes of the extractors or of the embedding model
  MaxIndexFaults    \* bound: failures, stalls and restarts

ASSUME FileIndexAssumption ==
  /\ Documents \subseteq Nat
  /\ MaxIndexAttempts \in Nat \ {0}
  /\ {MaxUpgrades, MaxIndexFaults} \subseteq Nat

VARIABLES
  text,        \* per file: status of the extraction, attempts, revision, claim, availability
  vector,      \* per file: the same of its vectors, with the model
  chunkPoints, \* points of the vector index: files by model
  absences,    \* Service.missing: passes of the clean-up that did not find a point's chunk
  indexer,     \* passes of documentindex
  installed,   \* the extractors and the model in use
  idxFaults    \* failures, stalls and restarts so far

indexRows     == <<text, vector>>
indexPoints   == <<chunkPoints, absences>>
fileIndexVars == <<indexRows, indexPoints, indexer, installed, idxFaults>>

Versions == 1 .. MaxUpgrades + 1
IdxFault == idxFaults < MaxIndexFaults /\ idxFaults' = idxFaults + 1
NoPass   == [pc |-> "idle", jobs |-> {}]

\* The row of a file that was just uploaded.  "open" says that a waiting row is
\* available or that the lease of a claimed one has run out.
NewRow == [status |-> "none", tries |-> 0, by |-> 0, claim |-> 0, open |-> TRUE]

FileIndexInit ==
  /\ text = [d \in Documents |-> NewRow]
  /\ vector = [d \in Documents |-> NewRow]
  /\ chunkPoints = {}
  /\ absences = [p \in Documents \X Versions |-> 0]
  /\ indexer = [i \in Indexers |-> NoPass]
  /\ installed = [extractors |-> 1, model |-> 1]
  /\ idxFaults = 0

HasChunks(d) == text[d].status = "indexed"
Pass(i, p)   == indexer' = [indexer EXCEPT ![i] = p]
JobOf(i)     == CHOOSE j \in indexer[i].jobs : \A k \in indexer[i].jobs : j.file <= k.file
Without(i)   == [indexer[i] EXCEPT !.jobs = @ \ {JobOf(i)}]

\* Mistake: any claim will do.
OwnsAny(row, i) == row.status = "processing"

Owns(row, i) == row.status = "processing" /\ row.claim = i

--------------------------------------------------------------------------------
(* Claims: two rows at most, each with a token of its own *)

\* Mistake: a lease that ran out with the last attempt is neither ended nor claimed.
ExhaustNoRow(row, version) == row

\* An interrupted last attempt ends as failed.
ExhaustIndexRow(row, version) ==
  IF row.status = "processing" /\ row.open /\ row.tries >= MaxIndexAttempts /\ row.by = version
  THEN [row EXCEPT !.status = "failed", !.claim = 0] ELSE row

Retries(row, version) == row.tries < MaxIndexAttempts \/ row.by # version

TextIsDue(row) ==
  \/ row.status \in {"pending", "failed", "processing"} /\ row.open /\ Retries(row, installed.extractors)
  \/ row.status = "unsupported" /\ row.by # installed.extractors

\* Mistake: vectors of another model stay as they are.
VectorIsDueOnce(row) ==
  row.status \in {"pending", "failed", "unavailable", "processing"} /\ row.open /\ Retries(row, installed.model)

VectorIsDue(row) ==
  \/ row.status \in {"pending", "failed", "unavailable", "processing"} /\ row.open
     /\ Retries(row, installed.model)
  \/ row.status = "indexed" /\ row.by # installed.model

ClaimedBy(i, row, version) ==
  [status |-> "processing", tries |-> (IF row.by = version THEN row.tries ELSE 0) + 1,
   by |-> version, claim |-> i, open |-> FALSE]

\* The first two of a set of files.
FirstTwo(due) == {d \in due : Cardinality({e \in due : e < d}) < 2}

\* What a pass would find; the turns of the loop that find nothing are left out.
HasIndexWork(d) ==
  \/ TextIsDue(text[d]) \/ ExhaustIndexRow(text[d], installed.extractors) # text[d]
  \/ HasChunks(d) /\ VectorIsDue(vector[d])
  \/ ExhaustIndexRow(vector[d], installed.model) # vector[d]

ClaimFilesForContentIndex(i) ==
  LET ended == [d \in Documents |-> ExhaustIndexRow(text[d], installed.extractors)]
      taken == FirstTwo({d \in Documents : TextIsDue(ended[d])})
      claimed(d) == ClaimedBy(i, ended[d], installed.extractors)
  IN /\ indexer[i].pc = "idle"
     /\ \E d \in Documents : HasIndexWork(d)
     /\ text' = [d \in Documents |-> IF d \in taken THEN claimed(d) ELSE ended[d]]
     /\ Pass(i, [pc |-> "extract", jobs |-> {[file |-> d, tries |-> claimed(d).tries, by |-> claimed(d).by] : d \in taken}])
     /\ UNCHANGED <<vector, indexPoints, installed, idxFaults>>

\* processVectorQueue: the model in use is asked for first.
ClaimFilesForVectorIndex(i) ==
  LET ended == [d \in Documents |-> ExhaustIndexRow(vector[d], installed.model)]
      taken == FirstTwo({d \in Documents : HasChunks(d) /\ VectorIsDue(ended[d])})
      claimed(d) == ClaimedBy(i, ended[d], installed.model)
  IN /\ indexer[i] = [pc |-> "extract", jobs |-> {}]
     /\ vector' = [d \in Documents |-> IF d \in taken THEN claimed(d) ELSE ended[d]]
     /\ Pass(i, IF taken = {} THEN NoPass
                ELSE [pc |-> "embed", jobs |-> {[file |-> d, tries |-> claimed(d).tries, by |-> claimed(d).by] : d \in taken}])
     /\ UNCHANGED <<text, indexPoints, installed, idxFaults>>

--------------------------------------------------------------------------------
(* The extraction of a text *)

\* CompleteFileContentIndex: chunks replace older ones and their vectors are due.
CompleteText(i, found) ==
  LET d == JobOf(i).file IN
  IF Owns(text[d], i)
  THEN /\ text' = [text EXCEPT ![d] = [@ EXCEPT !.status = found, !.by = JobOf(i).by, !.claim = 0]]
       /\ vector' = [vector EXCEPT ![d] = [@ EXCEPT !.status = IF found = "empty" THEN "indexed" ELSE "pending",
                                                    !.tries = 0, !.claim = 0, !.open = TRUE]]
  ELSE UNCHANGED indexRows

\* FailFileContentIndex: a retry after a while, or no text can be had with the
\* extractors of the claim.
FailText(i, retry) ==
  LET d == JobOf(i).file IN
  IF Owns(text[d], i)
  THEN /\ text' = [text EXCEPT ![d] = [@ EXCEPT !.status = IF retry THEN "failed" ELSE "unsupported",
                                                !.by = JobOf(i).by, !.claim = 0,
                                                !.open = ~retry \/ JobOf(i).tries >= MaxIndexAttempts]]
       /\ vector' = IF retry THEN vector ELSE [vector EXCEPT ![d].status = "unavailable"]
  ELSE UNCHANGED indexRows

Extract(i) ==
  /\ indexer[i].pc = "extract" /\ indexer[i].jobs # {}
  /\ \/ \E found \in {"indexed", "empty"} : CompleteText(i, found)
     \/ FailText(i, FALSE)
  /\ Pass(i, Without(i))
  /\ UNCHANGED <<indexPoints, installed, idxFaults>>

ExtractFails(i) ==
  /\ indexer[i].pc = "extract" /\ indexer[i].jobs # {}
  /\ IdxFault
  /\ FailText(i, TRUE)
  /\ Pass(i, Without(i))
  /\ UNCHANGED <<indexPoints, installed>>

--------------------------------------------------------------------------------
(* The vectors of a text *)

\* UpsertDocumentsDetailed writes the points of the model that is in use by then.
Embed(i) ==
  /\ indexer[i].pc = "embed"
  /\ chunkPoints' = chunkPoints \cup {<<JobOf(i).file, installed.model>>}
  /\ Pass(i, [indexer[i] EXCEPT !.pc = "mark"])
  /\ UNCHANGED <<indexRows, absences, installed, idxFaults>>

NextJob(i) == IF Without(i).jobs = {} THEN NoPass ELSE [Without(i) EXCEPT !.pc = "embed"]

CompleteFileVectorIndex(i) ==
  LET d == JobOf(i).file IN
  /\ indexer[i].pc = "mark"
  /\ vector' = IF Owns(vector[d], i) THEN [vector EXCEPT ![d] = [@ EXCEPT !.status = "indexed", !.claim = 0]]
               ELSE vector
  /\ Pass(i, NextJob(i))
  /\ UNCHANGED <<text, indexPoints, installed, idxFaults>>

\* The index or the embedding service refuses, perhaps after points were written.
EmbedFails(i) ==
  LET d == JobOf(i).file IN
  /\ indexer[i].pc \in {"embed", "mark"}
  /\ IdxFault
  /\ vector' = IF Owns(vector[d], i)
               THEN [vector EXCEPT ![d] = [@ EXCEPT !.status = "failed", !.claim = 0, !.open = FALSE]] ELSE vector
  /\ Pass(i, NextJob(i))
  /\ UNCHANGED <<text, indexPoints, installed>>

--------------------------------------------------------------------------------
(* What happens around the passes *)

UploadDocument(d) ==
  /\ text[d].status = "none"
  /\ text' = [text EXCEPT ![d].status = "pending"]
  /\ vector' = [vector EXCEPT ![d].status = "pending"]
  /\ UNCHANGED <<indexPoints, indexer, installed, idxFaults>>

\* The rows and the chunks go with the file.
DeleteDocument(d) ==
  /\ text[d].status \notin {"none", "gone"}
  /\ text' = [text EXCEPT ![d] = [NewRow EXCEPT !.status = "gone"]]
  /\ vector' = [vector EXCEPT ![d] = [NewRow EXCEPT !.status = "gone"]]
  /\ UNCHANGED <<indexPoints, indexer, installed, idxFaults>>

\* A back-off elapses, or fifteen minutes pass since a claim; without a fault they
\* pass only over a claim that nobody works on.
WorkedOn(d) == \E i \in Indexers : \E j \in indexer[i].jobs : j.file = d
TimePasses(d) ==
  /\ \/ /\ ~text[d].open /\ text[d].status \in {"failed", "processing"}
        /\ text' = [text EXCEPT ![d].open = TRUE] /\ UNCHANGED vector
     \/ /\ ~vector[d].open /\ vector[d].status \in {"failed", "processing"}
        /\ vector' = [vector EXCEPT ![d].open = TRUE] /\ UNCHANGED text
  /\ UNCHANGED <<indexPoints, indexer, installed>>

WaitEnds(d) == ~WorkedOn(d) /\ TimePasses(d) /\ UNCHANGED idxFaults
Stalls(d)   == WorkedOn(d) /\ IdxFault /\ TimePasses(d)

\* Other extractors are found, or another model is configured.
Upgrade(what) ==
  /\ installed[what] <= MaxUpgrades
  /\ installed' = [installed EXCEPT ![what] = @ + 1]
  /\ UNCHANGED <<indexRows, indexPoints, indexer, idxFaults>>

\* DeleteMissing over the collection of the model in use: a point goes when two passes
\* did not find its chunk.
CleanupVectorIndex ==
  LET listed == {p \in chunkPoints : p[2] = installed.model}
      counted == [p \in DOMAIN absences |->
                    IF p \notin listed THEN absences[p] ELSE IF HasChunks(p[1]) THEN 0 ELSE absences[p] + 1]
      stale == {p \in listed : counted[p] >= 2}
  IN /\ \E p \in listed : ~HasChunks(p[1]) \/ absences[p] > 0
     /\ chunkPoints' = chunkPoints \ stale
     /\ absences' = [p \in DOMAIN absences |-> IF p \in stale THEN 0 ELSE counted[p]]
     /\ UNCHANGED <<indexRows, indexer, installed, idxFaults>>

\* Jobs and counters are in memory.
IndexerRestart(i) ==
  /\ indexer[i] # NoPass \/ \E p \in DOMAIN absences : absences[p] > 0
  /\ IdxFault
  /\ Pass(i, NoPass)
  /\ absences' = [p \in DOMAIN absences |-> 0]
  /\ UNCHANGED <<indexRows, chunkPoints, installed>>

RunOnce(i) ==
  \/ ClaimFilesForContentIndex(i) \/ Extract(i)
  \/ ClaimFilesForVectorIndex(i) \/ Embed(i) \/ CompleteFileVectorIndex(i)

FileIndexNext ==
  \/ \E i \in Indexers : RunOnce(i) \/ ExtractFails(i) \/ EmbedFails(i) \/ IndexerRestart(i)
  \/ \E d \in Documents : UploadDocument(d) \/ DeleteDocument(d) \/ WaitEnds(d) \/ Stalls(d)
  \/ \E what \in {"extractors", "model"} : Upgrade(what)
  \/ CleanupVectorIndex

\* The loop comes round every fifteen seconds, the clean-up every few hours, and time
\* passes.
FileIndexFairness ==
  /\ \A i \in Indexers : WF_fileIndexVars(RunOnce(i))
  /\ \A d \in Documents : WF_fileIndexVars(WaitEnds(d))
  /\ WF_fileIndexVars(CleanupVectorIndex)

FileIndexSpec == FileIndexInit /\ [][FileIndexNext]_fileIndexVars /\ FileIndexFairness

--------------------------------------------------------------------------------
(* Properties *)

\* A file that is marked as indexed by the model in use has its points there: whoever
\* lost its claim to a pass under another model marks nothing (CompleteFileVectorIndex).
MarkedIsFindable ==
  \A d \in Documents :
    HasChunks(d) /\ vector[d].status = "indexed" /\ vector[d].by = installed.model
      => <<d, installed.model>> \in chunkPoints

\* Nothing is left to be claimed: a text that could be read is there, its points exist in
\* the collection of the model in use unless the attempts are used up, and no point of
\* that collection belongs to a deleted file.
DocumentSettled(d) ==
  /\ text[d].status \in {"none", "gone", "indexed", "empty", "unsupported", "failed"}
  /\ ~TextIsDue(text[d])
  /\ HasChunks(d) =>
       \/ vector[d].status = "indexed" /\ <<d, installed.model>> \in chunkPoints
       \/ vector[d].status = "failed" /\ ~Retries(vector[d], installed.model)
  /\ ~HasChunks(d) => <<d, installed.model>> \notin chunkPoints

FileIndexSettled == \A d \in Documents : DocumentSettled(d)
================================================================================
