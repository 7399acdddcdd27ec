------------------------------- MODULE Learning -------------------------------
(***************************************************************************)
(* How nbco learns from conversations: a completed turn leaves a mining    *)
(* job, Memory Miners take jobs from the queue, have a model propose       *)
(* findings and a second one judge them, and either publish a finding at   *)
(* once or leave it as a candidate; reviewers approve, reject and          *)
(* reclassify candidates meanwhile.                                        *)
(*                                                                         *)
(* What the models answer is a choice, and what is rejected or called a    *)
(* duplicate leaves no trace.  A finding is its text; a rule has a title   *)
(* that identifies it among the active rules, knowledge and skills have    *)
(* none.  Scopes and tags are left out, and so are work facts, which are   *)
(* written once under a key made of message and text.                      *)
(***************************************************************************)
EXTENDS Integers, FiniteSets

CONSTANTS
  Messages,      \* user messages of completed turns
  Commanding,    \* those of a superadmin
  Findings,      \* what may be learnt
  Title(_),      \* the title of a rule, "none" for other kinds
  Miners,        \* the workers of memorySem
  Reviewers,     \* superadmins and the governance run
  MaxMining,     \* memoryMiningMaxAttempts
  MaxCandidates, MaxEntries, MaxFound  \* bounds

ASSUME LearningAssumption ==
  /\ "none" \notin Findings
  /\ {MaxMining, MaxCandidates, MaxEntries, MaxFound} \subseteq Nat

VARIABLES
  mining,    \* memory_mining_jobs
  miner,     \* processMemoryMiningJob
  candidate, \* learning_candidates
  entry,     \* knowledge, as far as it comes from here
  learnt,    \* texts that entries have held (knowledge_versions)
  review,    \* approve_learning_candidate
  settled    \* what the completed claim of each job had found

learningVars == <<mining, miner, candidate, entry, learnt, review, settled>>

Cands   == 1 .. MaxCandidates
Slots   == 1 .. MaxEntries
NoJob   == [status |-> "none", attempts |-> 0]
NoMiner == [pc |-> "idle", of |-> "none", claim |-> 0, found |-> {}, erred |-> FALSE,
            text |-> "none", title |-> "none", entry |-> 0, cand |-> 0]
NoCand  == [text |-> "none", title |-> "none", class |-> "none", status |-> "none", entry |-> 0]
NoRow   == [text |-> "none", title |-> "none", active |-> FALSE]
NoReview == [pc |-> "idle", cand |-> 0, entry |-> 0]

LearningInit ==
  /\ mining = [m \in Messages |-> NoJob]
  /\ miner = [p \in Miners |-> NoMiner]
  /\ candidate = [c \in Cands |-> NoCand]
  /\ entry = [k \in Slots |-> NoRow]
  /\ learnt = {}
  /\ review = [r \in Reviewers |-> NoReview]
  /\ settled = [m \in Messages |-> {}]

queueVars == <<mining, miner, settled>>

--------------------------------------------------------------------------------
(* Rows *)

IsLive(row) == row.status \in {"pending", "published"}

\* The unique index learning_candidates_active_identity.
Clashes(row) ==
  \E c \in Cands : /\ IsLive(candidate[c])
                   /\ candidate[c].text = row.text /\ candidate[c].title = row.title
                   /\ candidate[c].class = row.class

NewCand(text, title, class) ==
  [text |-> text, title |-> title, class |-> class, status |-> "pending", entry |-> 0]

FreeCands == {c \in Cands : candidate[c] = NoCand}
FreeSlots == {k \in Slots : entry[k] = NoRow}

\* Rows are numbered as they are written.
NextOf(free) == CHOOSE n \in free : \A o \in free : n <= o

SameRule(title) == {k \in Slots : title # "none" /\ entry[k].active /\ entry[k].title = title}

\* UpsertRule overwrites the active rule of the same title; other kinds are added.
Place(title) ==
  IF SameRule(title) # {} THEN NextOf(SameRule(title)) ELSE NextOf(FreeSlots)

HasPlace(title) == SameRule(title) # {} \/ FreeSlots # {}

Save(text, title) ==
  /\ entry' = [entry EXCEPT ![Place(title)] =
                 [text |-> text, title |-> title, active |-> TRUE]]
  /\ learnt' = learnt \cup {text}

--------------------------------------------------------------------------------
(* The queue *)

\* CompleteConversationTurn, once for a message.
TurnCompletes(m) ==
  /\ mining[m] = NoJob
  /\ mining' = [mining EXCEPT ![m] = [status |-> "pending", attempts |-> 0]]
  /\ UNCHANGED <<miner, candidate, entry, learnt, review, settled>>

\* A pending job is due after its delay; a lease may run out under a slow miner.
Takeable(m) == mining[m].status \in {"pending", "processing"}

DueMemoryMiningJobs(p, m) ==
  /\ miner[p].pc = "idle"
  /\ Takeable(m) /\ mining[m].attempts < MaxMining
  /\ mining' = [mining EXCEPT ![m] = [status |-> "processing", attempts |-> @.attempts + 1]]
  /\ miner' = [miner EXCEPT ![p] = [NoMiner EXCEPT !.pc = "mine", !.of = m,
                                                   !.claim = mining[m].attempts + 1]]
  /\ UNCHANGED <<candidate, entry, learnt, review, settled>>

\* An interrupted last attempt ends the job.
ExhaustMining(m) ==
  /\ Takeable(m) /\ mining[m].attempts >= MaxMining
  /\ mining' = [mining EXCEPT ![m].status = "failed"]
  /\ UNCHANGED <<miner, candidate, entry, learnt, review, settled>>

--------------------------------------------------------------------------------
(* processMemoryMiningJob *)

\* Messages cannot be read, or the model cannot be asked.
MineFails(p) ==
  /\ miner[p].pc = "mine" /\ miner[p].found = {}
  /\ miner' = [miner EXCEPT ![p].pc = "ack", ![p].erred = TRUE]
  /\ UNCHANGED <<mining, candidate, entry, learnt, review, settled>>

\* The next finding that is worth keeping.
Finds(p, f) ==
  /\ miner[p].pc = "mine"
  /\ f \notin miner[p].found /\ Cardinality(miner[p].found) < MaxFound

\* Mistake: what cannot be written is only logged.
LogError(m) == m

Errs(m) == [m EXCEPT !.erred = TRUE]

Noted(m, f) == [m EXCEPT !.found = @ \cup {f}]

\* Without a superadmin's word and a clear verdict a finding waits for review; only
\* the class of knowledge is in doubt.
FindForReview(p, f, class) ==
  /\ Finds(p, f) /\ (Title(f) # "none" => class = "durable")
  /\ LET row == NewCand(f, Title(f), class)
         now == Noted(miner[p], f)
     IN \/ /\ ~Clashes(row) /\ FreeCands # {}
           /\ candidate' = [candidate EXCEPT ![NextOf(FreeCands)] = row]
           /\ miner' = [miner EXCEPT ![p] = now]
        \/ /\ Clashes(row)
           /\ miner' = [miner EXCEPT ![p] = now]
           /\ UNCHANGED candidate
        \/ /\ miner' = [miner EXCEPT ![p] = Errs(now)]
           /\ UNCHANGED candidate
  /\ UNCHANGED <<mining, entry, learnt, review, settled>>

Auditing(m, f, title, k) ==
  [m EXCEPT !.pc = "audit", !.found = @ \cup {f}, !.text = f, !.title = title, !.entry = k]

\* A superadmin's new finding is saved at once ...
FindAndPublish(p, f) ==
  /\ Finds(p, f) /\ miner[p].of \in Commanding
  /\ \/ /\ HasPlace(Title(f)) /\ Save(f, Title(f))
        /\ miner' = [miner EXCEPT ![p] = Auditing(miner[p], f, Title(f), Place(Title(f)))]
     \/ /\ miner' = [miner EXCEPT ![p] = Errs(Noted(miner[p], f))]
        /\ UNCHANGED <<entry, learnt>>
  /\ UNCHANGED <<mining, candidate, review, settled>>

\* ... or takes the place of an active entry of its kind, under that entry's title.
FindAndRevise(p, f, k) ==
  /\ Finds(p, f) /\ miner[p].of \in Commanding
  /\ entry[k].active /\ entry[k].text # f
  /\ (entry[k].title = "none") = (Title(f) = "none")
  /\ entry' = [entry EXCEPT ![k].text = f]
  /\ learnt' = learnt \cup {f}
  /\ miner' = [miner EXCEPT ![p] = Auditing(miner[p], f, entry[k].title, k)]
  /\ UNCHANGED <<mining, candidate, review, settled>>

\* recordPublishedLearningCandidate: two writes, whose failure is only logged.
Audit(p) ==
  /\ miner[p].pc = "audit"
  /\ LET row == NewCand(miner[p].text, miner[p].title, "durable")
     IN \/ /\ ~Clashes(row) /\ FreeCands # {}
           /\ candidate' = [candidate EXCEPT ![NextOf(FreeCands)] = row]
           /\ miner' = [miner EXCEPT ![p].pc = "link", ![p].cand = NextOf(FreeCands)]
        \/ /\ miner' = [miner EXCEPT ![p].pc = "mine", ![p].entry = 0,
                                     ![p].text = "none", ![p].title = "none"]
           /\ UNCHANGED candidate
  /\ UNCHANGED <<mining, entry, learnt, review, settled>>

\* Mistake: a candidate is marked whatever became of it.
MarkableAlways(c) == TRUE

Markable(c) == candidate[c].status = "pending"

PublishedAs(c, k) == [candidate EXCEPT ![c].status = "published", ![c].entry = k]

Link(p) ==
  /\ miner[p].pc = "link"
  /\ candidate' = IF Markable(miner[p].cand) THEN PublishedAs(miner[p].cand, miner[p].entry)
                  ELSE candidate
  /\ miner' = [miner EXCEPT ![p].pc = "mine", ![p].entry = 0, ![p].cand = 0,
                            ![p].text = "none", ![p].title = "none"]
  /\ UNCHANGED <<mining, entry, learnt, review, settled>>

MineEnds(p) ==
  /\ miner[p].pc = "mine"
  /\ miner' = [miner EXCEPT ![p].pc = "ack"]
  /\ UNCHANGED <<mining, candidate, entry, learnt, review, settled>>

HoldsJob(p) ==
  mining[miner[p].of] = [status |-> "processing", attempts |-> miner[p].claim]

\* A claim that was taken over changes nothing; the answer may also be lost.
CompleteMemoryMiningJob(p) ==
  /\ miner[p].pc = "ack" /\ ~miner[p].erred
  /\ \/ /\ HoldsJob(p)
        /\ mining' = [mining EXCEPT ![miner[p].of].status = "done"]
        /\ settled' = [settled EXCEPT ![miner[p].of] = miner[p].found]
     \/ UNCHANGED <<mining, settled>>
  /\ miner' = [miner EXCEPT ![p] = NoMiner]
  /\ UNCHANGED <<candidate, entry, learnt, review>>

RetryMemoryMiningJob(p) ==
  /\ miner[p].pc = "ack" /\ miner[p].erred
  /\ \/ /\ HoldsJob(p)
        /\ mining' = [mining EXCEPT ![miner[p].of].status =
                        IF miner[p].claim >= MaxMining THEN "failed" ELSE "pending"]
     \/ UNCHANGED mining
  /\ miner' = [miner EXCEPT ![p] = NoMiner]
  /\ UNCHANGED <<candidate, entry, learnt, review, settled>>

LearningStops ==
  /\ miner' = [p \in Miners |-> NoMiner]
  /\ review' = [r \in Reviewers |-> NoReview]
  /\ UNCHANGED <<mining, candidate, entry, learnt, settled>>

--------------------------------------------------------------------------------
(* The tools *)

\* propose_learning_candidate
Propose(f, class) ==
  /\ FreeCands # {} /\ ~Clashes(NewCand(f, Title(f), class))
  /\ candidate' = [candidate EXCEPT ![NextOf(FreeCands)] = NewCand(f, Title(f), class)]
  /\ UNCHANGED <<queueVars, entry, learnt, review>>

\* approve_learning_candidate reads, publishes and marks in three transactions.
Approve(r, c) ==
  /\ review[r].pc = "idle"
  /\ candidate[c].status = "pending" /\ candidate[c].class = "durable"
  /\ review' = [review EXCEPT ![r] = [pc |-> "publish", cand |-> c, entry |-> 0]]
  /\ UNCHANGED <<queueVars, candidate, entry, learnt>>

PublishLearningCandidate(r) ==
  /\ review[r].pc = "publish"
  /\ LET row == candidate[review[r].cand]
     IN \/ /\ HasPlace(row.title) /\ Save(row.text, row.title)
           /\ review' = [review EXCEPT ![r].pc = "mark", ![r].entry = Place(row.title)]
        \/ /\ review' = [review EXCEPT ![r] = NoReview]
           /\ UNCHANGED <<entry, learnt>>
  /\ UNCHANGED <<queueVars, candidate>>

MarkLearningCandidatePublished(r) ==
  /\ review[r].pc = "mark"
  /\ candidate' = IF Markable(review[r].cand) THEN PublishedAs(review[r].cand, review[r].entry)
                  ELSE candidate
  /\ review' = [review EXCEPT ![r] = NoReview]
  /\ UNCHANGED <<queueVars, entry, learnt>>

RejectLearningCandidate(c) ==
  /\ candidate[c].status = "pending"
  /\ candidate' = [candidate EXCEPT ![c].status = "rejected"]
  /\ UNCHANGED <<queueVars, entry, learnt, review>>

\* Mistake: what was published stays in memory.
StaysActive(row) == row

Deactivated(row) == [row EXCEPT !.active = FALSE]

\* classify_learning_candidate
SetLearningCandidateMemoryClass(c, class) ==
  /\ IsLive(candidate[c])
  /\ candidate[c].status = "published" => class # "durable"
  /\ class = "durable" /\ candidate[c].class # class =>
       ~Clashes([candidate[c] EXCEPT !.class = class])
  /\ entry' = IF candidate[c].status = "published" /\ candidate[c].entry # 0
              THEN [entry EXCEPT ![candidate[c].entry] = Deactivated(@)] ELSE entry
  /\ candidate' = [candidate EXCEPT ![c].class = class,
                                    ![c].status = IF class = "durable" THEN @ ELSE "rejected"]
  /\ UNCHANGED <<queueVars, learnt, review>>

--------------------------------------------------------------------------------
LearningNext ==
  \/ \E m \in Messages : TurnCompletes(m) \/ ExhaustMining(m)
  \/ \E p \in Miners, m \in Messages : DueMemoryMiningJobs(p, m)
  \/ \E p \in Miners : MineFails(p) \/ Audit(p) \/ Link(p) \/ MineEnds(p)
  \/ \E p \in Miners : CompleteMemoryMiningJob(p) \/ RetryMemoryMiningJob(p)
  \/ \E p \in Miners, f \in Findings :
       \/ \E class \in {"durable", "unclassified"} : FindForReview(p, f, class)
       \/ FindAndPublish(p, f)
       \/ \E k \in Slots : FindAndRevise(p, f, k)
  \/ LearningStops
  \/ \E f \in Findings, class \in {"durable", "unclassified"} : Propose(f, class)
  \/ \E r \in Reviewers : \/ \E c \in Cands : Approve(r, c)
                          \/ PublishLearningCandidate(r)
                          \/ MarkLearningCandidatePublished(r)
  \/ \E c \in Cands : \/ RejectLearningCandidate(c)
                      \/ \E class \in {"durable", "canonical"} :
                           SetLearningCandidateMemoryClass(c, class)

LearningSpec == LearningInit /\ [][LearningNext]_learningVars

--------------------------------------------------------------------------------
(* Safety *)

\* Whatever a completed mining job had found and its judge let through is known to a
\* candidate or has been an entry, though some of it failed in an earlier attempt.
NothingIsForgotten ==
  \A m \in Messages : mining[m].status = "done" =>
    settled[m] \subseteq learnt \cup {candidate[c].text : c \in Cands}

\* A mining job fails only after its last attempt.
FailedAfterAll == \A m \in Messages : mining[m].status = "failed" => mining[m].attempts = MaxMining

\* What is published was durable, however its review and its reclassification overlapped.
PublishedIsDurable ==
  \A c \in Cands : candidate[c].status = "published" =>
    candidate[c].class = "durable" /\ candidate[c].entry # 0

\* Once a candidate is reclassified, the entry it published is out of the semantic memory; a
\* rule that is published anew gets another entry.
ReclassifiedIsGone ==
  \A c \in Cands : candidate[c].status = "rejected" /\ candidate[c].entry # 0 =>
    ~entry[candidate[c].entry].active

LearningIsHonest ==
  NothingIsForgotten /\ FailedAfterAll /\ PublishedIsDurable /\ ReclassifiedIsGone
================================================================================
