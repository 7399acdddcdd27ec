----------------------------- MODULE Transcript -----------------------------
(***************************************************************************)
(* The transcript of one chat session, the rolling summary that replaces   *)
(* its oldest messages, and what a turn shows the model of both.           *)
(*                                                                         *)
(* Messages are the roles of chat_messages in their order; ids are their   *)
(* positions.  A process folds a session in one goroutine at a time; two   *)
(* processes may fold the same session.  Thresholds on the number of       *)
(* characters are left open: a fold may start at any length.               *)
(***************************************************************************)
EXTENDS Integers, Sequences, FiniteSets, SequencesExt

CONSTANTS
  MaxTranscript,  \* bound: messages
  CompactKeep,    \* compactKeep: messages that stay verbatim
  CompactMaxFold, \* compactMaxFold
  CompactMinFold, \* compactMinFold
  CompactAlign,   \* compactAlignWin
  HistoryLimit,   \* historyLimit
  Folders         \* processes that fold

ASSUME TranscriptAssumption ==
  /\ {MaxTranscript, CompactKeep, CompactMaxFold, CompactAlign, HistoryLimit} \subseteq Nat
  /\ CompactMinFold \in Nat \ {0}
  /\ CompactAlign < CompactKeep

VARIABLES
  transcript, \* chat_messages of the session: their roles
  answering,  \* a turn of the session runs
  folded,     \* chat_sessions.summary_upto
  summary,    \* the messages whose content the summary carries
  folder      \* by process: the fold in progress

transcriptVars == <<transcript, answering, folded, summary, folder>>

NoFold == [pc |-> "idle", base |-> 0, text |-> {}, cut |-> 0]

TranscriptInit ==
  /\ transcript = <<>>
  /\ answering = FALSE
  /\ folded = 0
  /\ summary = {}
  /\ folder = [f \in Folders |-> NoFold]

--------------------------------------------------------------------------------
(* Writing the transcript *)

\* BeginConversationTurn appends the question.
Ask ==
  /\ ~answering
  /\ Len(transcript) < MaxTranscript
  /\ transcript' = Append(transcript, "user")
  /\ answering' = TRUE
  /\ UNCHANGED <<folded, summary, folder>>

\* CompleteConversationTurn appends the answer; a failed turn appends nothing.
Answer ==
  /\ answering
  /\ \/ Len(transcript) < MaxTranscript /\ transcript' = Append(transcript, "assistant")
     \/ UNCHANGED transcript
  /\ answering' = FALSE
  /\ UNCHANGED <<folded, summary, folder>>

\* A message overheard in a group is recorded between turns (groupLocks); a
\* consent is recorded inside its turn.
Overhear ==
  /\ Len(transcript) < MaxTranscript
  /\ transcript' = Append(transcript, "user")
  /\ UNCHANGED <<answering, folded, summary, folder>>

--------------------------------------------------------------------------------
(* Folding *)

StartFold(f) ==
  /\ folder[f].pc = "idle"
  /\ folder' = [folder EXCEPT ![f] = [NoFold EXCEPT !.pc = "read", !.base = folded, !.text = summary]]
  /\ UNCHANGED <<transcript, answering, folded, summary>>

Unfolded(base) == SubSeq(transcript, base + 1, Len(transcript))
FoldCount(n)   == IF n - CompactKeep > CompactMaxFold THEN CompactMaxFold ELSE n - CompactKeep

\* Mistake: the fold ends wherever its length says.
CutPointsAnywhere(base) == {FoldCount(Len(Unfolded(base)))}

\* The first message that stays is a user's, at most CompactAlign further on.
CutPoints(base) ==
  LET u == Unfolded(base)
      c == FoldCount(Len(u))
  IN {k \in c .. c + CompactAlign - 1 : k < Len(u) /\ u[k + 1] = "user"}

LeastOf(S) == CHOOSE x \in S : \A y \in S : x <= y

CutFold(f) ==
  LET b == folder[f].base
      n == Len(Unfolded(b))
  IN /\ folder[f].pc = "read"
     /\ IF n > CompactKeep /\ FoldCount(n) >= CompactMinFold /\ CutPoints(b) # {}
        THEN folder' = [folder EXCEPT ![f].pc = "summarize", ![f].cut = b + LeastOf(CutPoints(b))]
        ELSE folder' = [folder EXCEPT ![f] = NoFold]
     /\ UNCHANGED <<transcript, answering, folded, summary>>

\* Only an advance of the fold is stored.
Advances(f) == folded < folder[f].cut

\* The model sums up the older summary and the messages of the cut; when it
\* fails, or the process stops, nothing is stored.
SaveFold(f) ==
  /\ folder[f].pc = "summarize"
  /\ \E ok \in BOOLEAN :
       IF ok /\ Advances(f)
       THEN /\ summary' = folder[f].text \cup (folder[f].base + 1 .. folder[f].cut)
            /\ folded' = folder[f].cut
       ELSE UNCHANGED <<summary, folded>>
  /\ folder' = [folder EXCEPT ![f] = NoFold]
  /\ UNCHANGED <<transcript, answering>>

--------------------------------------------------------------------------------
(* What a turn replays *)

\* MessagesBefore: the newest HistoryLimit messages behind the fold.
Window ==
  LET n == Len(transcript)
      first == IF n - folded > HistoryLimit THEN n - HistoryLimit + 1 ELSE folded + 1
  IN [i \in 1 .. n - first + 1 |-> first + i - 1]

\* buildModelReplayHistory: an answer is replayed with the message before it;
\* the user messages nobody answered are shown as inert text.
ReplayStep(acc, i) ==
  IF transcript[i] = "user"
  THEN [acc EXCEPT !.waiting = Append(@, i)]
  ELSE IF acc.waiting = <<>> THEN acc
       ELSE [replay  |-> acc.replay \o <<Last(acc.waiting), i>>,
             inert   |-> acc.inert \o Front(acc.waiting),
             waiting |-> <<>>]
Replayed(w) ==
  LET r == FoldLeft(ReplayStep, [replay |-> <<>>, inert |-> <<>>, waiting |-> <<>>], w)
  IN [replay |-> r.replay, inert |-> r.inert \o r.waiting]

TranscriptNext ==
  \/ Ask \/ Answer \/ Overhear
  \/ \E f \in Folders : StartFold(f) \/ CutFold(f) \/ SaveFold(f)

TranscriptSpec == TranscriptInit /\ [][TranscriptNext]_transcriptVars

--------------------------------------------------------------------------------
(* Properties *)

\* The summary carries exactly the messages the fold has passed, whichever of two
\* concurrent folds was stored first: none is lost, none is summed up and
\* replayed as well.
SummaryIsPrefix == summary = 1 .. folded

\* What is replayed begins with a user message and alternates; every message of
\* the window is shown once, except answers whose question the history limit cut
\* off.
ReplayIsFaithful ==
  LET w == Window
      r == Replayed(w)
      shown == ToSet(r.replay) \cup ToSet(r.inert)
  IN /\ \A i \in DOMAIN r.replay : transcript[r.replay[i]] = IF i % 2 = 1 THEN "user" ELSE "assistant"
     /\ Len(r.replay) % 2 = 0
     /\ Len(r.replay) + Len(r.inert) = Cardinality(shown)
     /\ ToSet(w) \ shown # {} => Len(w) = HistoryLimit
     /\ \A i \in ToSet(w) : transcript[i] = "user" => i \in shown

\* The model is given the whole conversation: what is not replayed is in the
\* summary, once (compactSession, UpdateSessionSummary,
\* buildModelReplayHistory).
ContextIsFaithful == SummaryIsPrefix /\ ReplayIsFaithful
================================================================================
