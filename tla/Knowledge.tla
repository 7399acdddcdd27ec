------------------------------ MODULE Knowledge ------------------------------
(* Knowledge rows with the history of their versions, and the vector index that *)
(* follows them: embeddings in the background, back-fills by marker, the        *)
(* reconciliation that trusts no marker, and the removal of orphaned points.    *)
(* The index is external (svc.semantic is set) and its model stays the same.    *)
(* What an embedding is made of is a text; texts are numbered as they are       *)
(* written.  All rules of the module have one identity (title and scope).       *)
EXTENDS Integers, Sequences, FiniteSets

CONSTANTS
  Entries,      \* ids of knowledge
  EmbedSlots,   \* slots of embedSem
  MaxWrites,    \* bound: rows written
  MaxSetbacks   \* bound: restarts and failed or refused calls

ASSUME KnowledgeAssumption ==
  /\ Entries \subseteq Nat
  /\ {MaxWrites, MaxSetbacks} \subseteq Nat

VARIABLES
  memory,   \* knowledge: kind, text, active, and whether embed_model names the model
  versions, \* knowledge_versions
  texts,    \* texts written so far
  point,    \* the text each point of the index was made of, or 0
  embedder, \* goroutines of embedAsync
  sweep,    \* the pass of backfillKnowledge: one at a time
  cleaner,  \* the pass of maintainKnowledgeIndex
  missing,  \* Service.missing: scans that missed the row of a point
  unlisted, \* complete scans in a row that did not find the row active
  bereft,   \* active rows that lost a point after one such scan
  setbacks  \* restarts and failures so far

rowVars       == <<memory, versions, texts>>
cleanerVars   == <<cleaner, missing, unlisted, bereft>>
knowledgeVars == <<rowVars, point, embedder, sweep, cleanerVars, setbacks>>

NoEntry    == [kind |-> "none", text |-> 0, active |-> FALSE, marked |-> FALSE]
NoEmbedder == [pc |-> "idle", id |-> 0, text |-> 0]
NoSweep    == [pc |-> "idle", page |-> {}, changed |-> {}]
NoCleaner  == [pc |-> "idle", valid |-> {}, stale |-> {}]

Setback == setbacks < MaxSetbacks /\ setbacks' = setbacks + 1

KnowledgeInit ==
  /\ memory = [k \in Entries |-> NoEntry]
  /\ versions = [k \in Entries |-> <<>>]
  /\ texts = 0
  /\ point = [k \in Entries |-> 0]
  /\ embedder = [s \in EmbedSlots |-> NoEmbedder]
  /\ sweep = NoSweep
  /\ cleaner = NoCleaner
  /\ missing = [k \in Entries |-> 0]
  /\ unlisted = [k \in Entries |-> 0]
  /\ bereft = {}
  /\ setbacks = 0

There(k)     == memory[k].kind \in {"fact", "policy"}
Unused(k)    == memory[k].kind = "none"
ActiveRows   == {k \in Entries : memory[k].active}
Content(row) == [text |-> row.text, active |-> row.active]

--------------------------------------------------------------------------------
(* Writing *)

\* embedAsync: a free slot embeds the row as it was written, or it is left to the
\* back-fill.
EmbedLater(k, text) ==
  IF \A s \in EmbedSlots : embedder[s].pc # "idle" THEN UNCHANGED embedder
  ELSE LET s == CHOOSE f \in EmbedSlots : embedder[f].pc = "idle"
       IN embedder' = [embedder EXCEPT ![s] = [pc |-> "compare", id |-> k, text |-> text]]

MayWrite == texts < MaxWrites /\ texts' = texts + 1

\* knowledge_active_rule_identity_uidx
RuleIsUnique == Cardinality({k \in Entries : memory'[k].kind = "policy" /\ memory'[k].active}) <= 1

CreateKnowledge(k, kind) ==
  /\ Unused(k)
  /\ \A j \in Entries : j < k => ~Unused(j)
  /\ MayWrite
  /\ memory' = [memory EXCEPT ![k] = [kind |-> kind, text |-> texts + 1, active |-> TRUE, marked |-> FALSE]]
  /\ RuleIsUnique
  /\ EmbedLater(k, texts + 1)
  /\ UNCHANGED <<versions, point, sweep, cleanerVars, setbacks>>

\* snapshotKnowledgeRow and the update it goes with, in one transaction.
Replace(k, row) ==
  /\ memory' = [memory EXCEPT ![k] = row]
  /\ versions' = [versions EXCEPT ![k] = Append(@, Content(memory[k]))]

\* update_knowledge: a new title alone is not embedded at once.
UpdateKnowledge(k, title) ==
  /\ memory[k].kind = "fact"
  /\ MayWrite
  /\ Replace(k, [memory[k] EXCEPT !.text = texts + 1, !.marked = FALSE])
  /\ IF title THEN UNCHANGED embedder ELSE EmbedLater(k, texts + 1)
  /\ UNCHANGED <<point, sweep, cleanerVars, setbacks>>

\* save_rule: the active rule of the identity is replaced, or a rule is created;
\* one that says the same already stays untouched.
UpsertRule(k) ==
  IF \E j \in ActiveRows : memory[j].kind = "policy"
  THEN /\ memory[k].kind = "policy" /\ memory[k].active
       /\ MayWrite
       /\ Replace(k, [memory[k] EXCEPT !.text = texts + 1, !.marked = FALSE])
       /\ EmbedLater(k, texts + 1)
       /\ UNCHANGED <<point, sweep, cleanerVars, setbacks>>
  ELSE CreateKnowledge(k, "policy")

SetKnowledgeActive(k, active) ==
  /\ There(k)
  /\ MayWrite
  /\ Replace(k, [memory[k] EXCEPT !.active = active, !.marked = FALSE])
  /\ RuleIsUnique
  /\ IF active THEN EmbedLater(k, memory[k].text) ELSE UNCHANGED embedder
  /\ UNCHANGED <<point, sweep, cleanerVars, setbacks>>

RollbackKnowledge(k, v) ==
  /\ There(k)
  /\ v \in DOMAIN versions[k]
  /\ MayWrite
  /\ Replace(k, [memory[k] EXCEPT !.text = versions[k][v].text, !.active = versions[k][v].active,
                                  !.marked = FALSE])
  /\ RuleIsUnique
  /\ EmbedLater(k, versions[k][v].text)
  /\ UNCHANGED <<point, sweep, cleanerVars, setbacks>>

\* The versions go with the row (ON DELETE CASCADE); the id is not used again.
DeleteKnowledge(k) ==
  /\ There(k)
  /\ memory' = [memory EXCEPT ![k] = [NoEntry EXCEPT !.kind = "gone"]]
  /\ versions' = [versions EXCEPT ![k] = <<>>]
  /\ UNCHANGED <<texts, point, embedder, sweep, cleanerVars, setbacks>>

--------------------------------------------------------------------------------
(* One row in the background: embedOne *)

EmbedStep(s, step) == embedder' = [embedder EXCEPT ![s] = step]

\* UpsertDocumentsDetailed compares the hash of the point first.
CompareOne(s) ==
  LET e == embedder[s] IN
  /\ e.pc = "compare"
  /\ EmbedStep(s, [e EXCEPT !.pc = IF point[e.id] = e.text THEN "mark" ELSE "upsert"])
  /\ UNCHANGED <<rowVars, point, sweep, cleanerVars, setbacks>>

UpsertOne(s) ==
  LET e == embedder[s] IN
  /\ e.pc = "upsert"
  /\ point' = [point EXCEPT ![e.id] = e.text]
  /\ EmbedStep(s, [e EXCEPT !.pc = "mark"])
  /\ UNCHANGED <<rowVars, sweep, cleanerVars, setbacks>>

\* MarkKnowledgeVectorIndexed, whatever the row says by now.
Marked(ids) == [k \in Entries |-> IF k \in ids /\ There(k) THEN [memory[k] EXCEPT !.marked = TRUE] ELSE memory[k]]

MarkOne(s) ==
  /\ embedder[s].pc = "mark"
  /\ memory' = Marked({embedder[s].id})
  /\ EmbedStep(s, NoEmbedder)
  /\ UNCHANGED <<versions, texts, point, sweep, cleanerVars, setbacks>>

\* A call fails or times out, or the process stops.
EmbedderFails(s) ==
  /\ embedder[s].pc # "idle"
  /\ Setback
  /\ EmbedStep(s, NoEmbedder)
  /\ UNCHANGED <<rowVars, point, sweep, cleanerVars>>

--------------------------------------------------------------------------------
(* All rows: backfillKnowledge under knowledgeBackfillMu *)

PageOf(ids) == {[id |-> k, text |-> memory[k].text] : k \in ids}


\* KnowledgeAfter, KnowledgeNeedingExternalIndexAfter
RowsToSweep(reconcile) == {k \in ActiveRows : reconcile \/ ~memory[k].marked}

Sweep(reconcile) ==
  /\ sweep.pc = "idle"
  /\ RowsToSweep(reconcile) # {}
  /\ sweep' = [pc |-> "compare", page |-> PageOf(RowsToSweep(reconcile)), changed |-> {}]
  /\ UNCHANGED <<rowVars, point, embedder, cleanerVars, setbacks>>

CompareAll ==
  /\ sweep.pc = "compare"
  /\ sweep' = [sweep EXCEPT !.pc = "upsert", !.changed = {d \in sweep.page : point[d.id] # d.text}]
  /\ UNCHANGED <<rowVars, point, embedder, cleanerVars, setbacks>>

\* Documents the embedding service refuses are left out and not marked.
UpsertAll(refused) ==
  /\ sweep.pc = "upsert"
  /\ point' = [k \in Entries |->
       IF \E d \in sweep.changed \ refused : d.id = k
       THEN (CHOOSE d \in sweep.changed : d.id = k).text ELSE point[k]]
  /\ sweep' = [sweep EXCEPT !.pc = "mark", !.page = @ \ refused]
  /\ IF refused = {} THEN UNCHANGED setbacks ELSE Setback
  /\ UNCHANGED <<rowVars, embedder, cleanerVars>>

\* The marks are set row by row.
MarkNext ==
  /\ sweep.pc = "mark"
  /\ IF sweep.page = {} THEN sweep' = NoSweep /\ UNCHANGED memory
     ELSE \E d \in sweep.page :
            /\ \A x \in sweep.page : d.id <= x.id
            /\ memory' = Marked({d.id})
            /\ sweep' = [sweep EXCEPT !.page = @ \ {d}]
  /\ UNCHANGED <<versions, texts, point, embedder, cleanerVars, setbacks>>

SweepFails ==
  /\ sweep.pc # "idle"
  /\ Setback
  /\ sweep' = NoSweep
  /\ UNCHANGED <<rowVars, point, embedder, cleanerVars>>

--------------------------------------------------------------------------------
(* Points without a row: maintainKnowledgeIndex and DeleteMissing *)

ReadValid ==
  /\ cleaner.pc = "idle"
  /\ texts > 0
  /\ cleaner' = [pc |-> "list", valid |-> ActiveRows, stale |-> {}]
  /\ UNCHANGED <<rowVars, point, embedder, sweep, missing, unlisted, bereft, setbacks>>

\* Mistake: one scan is enough.
GoneAtOnce(k, scans) == scans >= 1

\* A point must be missed by two scans before it is removed.
Gone(k, scans) == scans >= 2

CountMissing ==
  LET listed == {k \in Entries : point[k] # 0}
      counted == [k \in Entries |-> IF k \notin listed THEN missing[k]
                                    ELSE IF k \in cleaner.valid THEN 0
                                    ELSE IF missing[k] = 2 THEN 2 ELSE missing[k] + 1]
  IN /\ cleaner.pc = "list"
     /\ missing' = counted
     /\ unlisted' = [k \in Entries |-> IF k \in cleaner.valid THEN 0
                                      ELSE IF unlisted[k] = 2 THEN 2 ELSE unlisted[k] + 1]
     /\ cleaner' = [cleaner EXCEPT !.pc = "delete",
                                   !.stale = {k \in listed \ cleaner.valid : Gone(k, counted[k])}]
     /\ UNCHANGED <<rowVars, point, embedder, sweep, bereft, setbacks>>

DeletePoints ==
  /\ cleaner.pc = "delete"
  /\ point' = [k \in Entries |-> IF k \in cleaner.stale THEN 0 ELSE point[k]]
  /\ missing' = [k \in Entries |-> IF k \in cleaner.stale THEN 0 ELSE missing[k]]
  /\ bereft' = bereft \cup {k \in cleaner.stale \cap ActiveRows : unlisted[k] < 2}
  /\ cleaner' = NoCleaner
  /\ UNCHANGED <<rowVars, embedder, sweep, unlisted, setbacks>>

CleanerFails ==
  /\ cleaner.pc # "idle"
  /\ Setback
  /\ cleaner' = NoCleaner
  /\ UNCHANGED <<rowVars, point, embedder, sweep, missing, unlisted, bereft>>

\* The counters are in memory.
KnowledgeRestart ==
  /\ Setback
  /\ embedder' = [s \in EmbedSlots |-> NoEmbedder]
  /\ sweep' = NoSweep
  /\ cleaner' = NoCleaner
  /\ missing' = [k \in Entries |-> 0]
  /\ UNCHANGED <<rowVars, point, unlisted, bereft>>

EmbedOne(s) == CompareOne(s) \/ UpsertOne(s) \/ MarkOne(s)

KnowledgeNext ==
  \/ \E k \in Entries :
       \/ CreateKnowledge(k, "fact") \/ UpsertRule(k) \/ DeleteKnowledge(k)
       \/ \E b \in BOOLEAN : UpdateKnowledge(k, b) \/ SetKnowledgeActive(k, b)
       \/ \E v \in 1 .. Len(versions[k]) : RollbackKnowledge(k, v)
  \/ \E s \in EmbedSlots : EmbedOne(s) \/ EmbedderFails(s)
  \/ \E reconcile \in BOOLEAN : Sweep(reconcile)
  \/ CompareAll \/ MarkNext \/ SweepFails
  \/ \E refused \in SUBSET sweep.changed : UpsertAll(refused)
  \/ ReadValid \/ CountMissing \/ DeletePoints \/ CleanerFails
  \/ KnowledgeRestart

\* The loops come round again; a pass that was begun goes on.
SweepGoesOn   == Sweep(TRUE) \/ CompareAll \/ UpsertAll({}) \/ MarkNext
CleanerGoesOn == ReadValid \/ CountMissing \/ DeletePoints

KnowledgeFairness ==
  /\ \A s \in EmbedSlots : WF_knowledgeVars(EmbedOne(s))
  /\ WF_knowledgeVars(SweepGoesOn)
  /\ WF_knowledgeVars(CleanerGoesOn)

KnowledgeSpec == KnowledgeInit /\ [][KnowledgeNext]_knowledgeVars /\ KnowledgeFairness

--------------------------------------------------------------------------------
(* Properties *)

\* A row that is active when its point is removed was not there at two complete scans
\* in a row: a row written, restored or rolled back while a scan runs does not lose the
\* point it just got (DeleteMissing).
HealthyPointsStay == bereft = {}

\* The index holds the present text of every active row and nothing else, however
\* late an embedding of an old text arrives and whatever the markers say.
KnowledgeSettled == \A k \in Entries : point[k] = IF memory[k].active THEN memory[k].text ELSE 0
================================================================================
