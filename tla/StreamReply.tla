-------------------------------- MODULE StreamReply --------------------------------
(* The reply to a private Telegram message: handlePrivate's end and the part ledger  *)
(* of gateway/telegram/telegram.go, and gateway/telegram/stream.go.                   *)
(*                                                                                    *)
(* While the model speaks, a loop of its own sends a draft and edits it; the handler  *)
(* stops the loop, turns the draft into the first part of the reply and appends the   *)
(* others.  Each part is begun in a ledger before it is sent and marked after it.  A   *)
(* call to Telegram may fail before or after it had its effect, the user may delete   *)
(* the draft, and the process may stop anywhere: the message is then handled again.   *)
EXTENDS Naturals, FiniteSets

CONSTANTS
  Parts,          \* parts of the reply
  Drafts,         \* texts the model shows on its way
  MaxMessages,    \* bound on the messages sent
  MaxHandlings    \* bound on the times the message is handled

ASSUME StreamAssumption ==
  /\ Parts \in Nat \ {0}
  /\ {Drafts, MaxMessages, MaxHandlings} \subseteq Nat

VARIABLES
  display,    \* what the user sees in each message
  answer,    \* the durable turn
  receipts,    \* the durable ledger of the parts
  editor,    \* the stream editor and its loop
  handler,   \* where the message's handler is
  seen       \* observed: the parts the user saw

streamVars == <<display, answer, receipts, editor, handler, seen>>

MessageNos == 1..MaxMessages
PartNos == 1..Parts
\* What a message shows: a part of the reply, or something else.
PartText(i) == <<"part", i>>
Other(what) == <<what, 0>>
Results == {"done", "refused", "failed", "unknown"}

\* Telegram's answers: "unknown" is a failure after the effect.
TookEffect(result) == result \in {"done", "unknown"}

StreamTypeOK ==
  /\ display \in [MessageNos -> {Other(x) : x \in {"none", "draft", "error", "deleted"}}
                              \cup {PartText(i) : i \in PartNos}]
  /\ answer \in [status : {"absent", "running", "completed", "failed"},
                 delivery : {"pending", "delivered", "failed"}]
  /\ receipts \in [PartNos -> {"none", "started", "delivered", "failed"}]
  /\ editor \in [loop : {"none", "idle", "flushing", "done"}, buf : 0..Drafts, cur : 0..Drafts,
                 sent : 0..Drafts, msg : 0..MaxMessages, stopped : BOOLEAN]
  /\ handler \in [at : {"none", "turn", "stop", "stopping", "begin", "edit", "send", "mark",
                        "unsent", "apologise", "record"},
                  plan : {"finish", "discard", "fail"}, part : PartNos, trouble : BOOLEAN,
                  times : 0..MaxHandlings]
  /\ seen \subseteq PartNos

NoEditor == [loop |-> "none", buf |-> 0, cur |-> 0, sent |-> 0, msg |-> 0, stopped |-> FALSE]

StreamInit ==
  /\ display = [m \in MessageNos |-> Other("none")]
  /\ answer = [status |-> "absent", delivery |-> "pending"]
  /\ receipts = [i \in PartNos |-> "none"]
  /\ editor = NoEditor
  /\ handler = [at |-> "none", plan |-> "finish", part |-> 1, trouble |-> FALSE, times |-> 0]
  /\ seen = {}

HandlerAt(place) == handler.at = place

ReplyGoes(place) == handler' = [handler EXCEPT !.at = place]

\* The placeholder is there: its number is known.
HasDraft == editor.msg # 0

\* Telegram numbers the messages of a chat in their order.
NextMessage(m) == display[m] = Other("none") /\ \A o \in MessageNos : o < m => display[o] # Other("none")

Shows(m, text, result) ==
  display' = IF TookEffect(result) THEN [display EXCEPT ![m] = text] ELSE display

--------------------------------------------------------------------------------
(* The turn.                                                                          *)

\* What becomes of an answer that is there already.
PlanFor(a) ==
  IF a.status = "completed" /\ a.delivery = "pending" THEN "finish" ELSE "discard"

\* handlePrivate, the first time or again after an interruption: a new editor and the
\* durable turn of this message.
HandlePrivate ==
  /\ HandlerAt("none")
  /\ handler.times < MaxHandlings
  /\ editor' = [NoEditor EXCEPT !.loop = "idle"]
  /\ IF answer.status = "absent"
     THEN /\ answer' = [answer EXCEPT !.status = "running"]
          /\ handler' = [at |-> "turn", plan |-> "finish", part |-> 1, trouble |-> FALSE,
                         times |-> handler.times + 1]
     ELSE /\ handler' = [at |-> "stop", plan |-> PlanFor(answer), part |-> 1, trouble |-> FALSE,
                         times |-> handler.times + 1]
          /\ UNCHANGED answer
  /\ UNCHANGED <<display, receipts, seen>>

\* onDelta: the latest snapshot replaces the buffer.
OnDelta(d) ==
  /\ HandlerAt("turn")
  /\ editor' = [editor EXCEPT !.buf = d]
  /\ UNCHANGED <<display, answer, receipts, handler, seen>>

\* The turn ends with an answer or with an error.
TurnReturns(status) ==
  /\ HandlerAt("turn")
  /\ answer' = [answer EXCEPT !.status = status]
  /\ handler' = [handler EXCEPT !.at = "stop", !.plan = IF status = "completed" THEN "finish" ELSE "fail"]
  /\ UNCHANGED <<display, receipts, editor, seen>>

--------------------------------------------------------------------------------
(* The editor's loop.                                                                 *)

\* flush reads the buffer under the lock; nothing new is not shown again.
FlushReads ==
  /\ editor.loop = "idle"
  /\ editor.buf \notin {0, editor.sent}
  /\ editor' = [editor EXCEPT !.loop = "flushing", !.cur = editor.buf]
  /\ UNCHANGED <<display, answer, receipts, handler, seen>>

\* flush sends the first draft; without an answer its number stays unknown.
FlushSends(m, result) ==
  /\ editor.loop = "flushing"
  /\ ~HasDraft
  /\ NextMessage(m)
  /\ Shows(m, Other("draft"), result)
  /\ editor' = IF result = "done" THEN [editor EXCEPT !.loop = "idle", !.msg = m, !.sent = editor.cur]
                                  ELSE [editor EXCEPT !.loop = "idle"]
  /\ UNCHANGED <<answer, receipts, handler, seen>>

\* Telegram edits no message that is gone.
EditResult(m, result) == display[m] = Other("deleted") => ~TookEffect(result)

\* flush edits the draft it sent.
FlushEdits(result) ==
  /\ editor.loop = "flushing"
  /\ HasDraft
  /\ EditResult(editor.msg, result)
  /\ Shows(editor.msg, Other("draft"), result)
  /\ editor' = [editor EXCEPT !.loop = "idle", !.sent = IF result = "done" THEN editor.cur ELSE @]
  /\ UNCHANGED <<answer, receipts, handler, seen>>

\* The loop sees the stop signal; a tick that is due as well may be served before it.
LoopEnds ==
  /\ editor.loop = "idle"
  /\ editor.stopped
  /\ editor' = [editor EXCEPT !.loop = "done"]
  /\ UNCHANGED <<display, answer, receipts, handler, seen>>

--------------------------------------------------------------------------------
(* The end of the turn: stopLoop, then finish, discard or fail.                        *)

\* stopLoop tells the loop to stop.
StopLoop ==
  /\ HandlerAt("stop")
  /\ editor' = [editor EXCEPT !.stopped = TRUE]
  /\ ReplyGoes("stopping")
  /\ UNCHANGED <<display, answer, receipts, seen>>

\* Mistake: the last edit is not waited for.
SignalSent == editor.stopped

\* stopLoop waits until the loop is done.
LoopStopped == editor.loop = "done"

\* discard removes a placeholder, if the deletion succeeds.
Discarded(result) ==
  IF HasDraft /\ TookEffect(result) THEN [display EXCEPT ![editor.msg] = Other("deleted")] ELSE display

AfterStop(result) ==
  /\ HandlerAt("stopping")
  /\ LoopStopped
  /\ CASE handler.plan = "finish" -> ReplyGoes("begin") /\ UNCHANGED display
       [] handler.plan = "discard" -> ReplyGoes("none") /\ display' = Discarded(result)
       [] handler.plan = "fail" -> ReplyGoes("apologise") /\ UNCHANGED display
  /\ UNCHANGED <<answer, receipts, editor, seen>>

\* fail turns the draft into the error; only without one, or when Telegram refuses the
\* edit, a message of its own is sent.
Apologise(m, result) ==
  /\ HandlerAt("apologise")
  /\ \/ /\ HasDraft
        /\ m = editor.msg
        /\ EditResult(m, result)
        /\ IF result = "refused" THEN editor' = [editor EXCEPT !.msg = 0] /\ UNCHANGED handler
                                 ELSE ReplyGoes("none") /\ UNCHANGED editor
     \/ /\ ~HasDraft
        /\ NextMessage(m)
        /\ ReplyGoes("none")
        /\ UNCHANGED editor
  /\ Shows(m, Other("error"), result)
  /\ UNCHANGED <<answer, receipts, seen>>

--------------------------------------------------------------------------------
(* The parts of the reply: finish, sendPreparedParts, deliverTelegramPartOnce.         *)

NextPart ==
  handler' = IF handler.part < Parts
             THEN [handler EXCEPT !.at = "begin", !.part = @ + 1]
             ELSE [handler EXCEPT !.at = "record"]

GivesUp == handler' = [handler EXCEPT !.at = "record", !.trouble = TRUE]

\* A part that was begun before is not sent again: once it is delivered the next one
\* follows, else nothing more is shown.  Without the ledger nothing is sent either.
BeginPart ==
  /\ HandlerAt("begin")
  /\ \/ /\ receipts[handler.part] = "none"
        /\ receipts' = [receipts EXCEPT ![handler.part] = "started"]
        /\ ReplyGoes(IF handler.part = 1 /\ HasDraft THEN "edit" ELSE "send")
     \/ receipts[handler.part] = "delivered" /\ NextPart /\ UNCHANGED receipts
     \/ receipts[handler.part] \in {"started", "failed"} /\ GivesUp /\ UNCHANGED receipts
     \/ GivesUp /\ UNCHANGED receipts
  /\ UNCHANGED <<display, answer, editor, seen>>

ShowsPart(m, result) ==
  /\ Shows(m, PartText(handler.part), result)
  /\ seen' = IF TookEffect(result) THEN seen \cup {handler.part} ELSE seen

\* editPlaceholder: the draft becomes the first part; a draft that Telegram refuses
\* to edit, in HTML and in plain text, is replaced by a new message.
EditPlaceholder(result) ==
  /\ HandlerAt("edit")
  /\ EditResult(editor.msg, result)
  /\ ShowsPart(editor.msg, result)
  /\ ReplyGoes(CASE result = "done" -> "mark" [] result = "refused" -> "send" [] OTHER -> "unsent")
  /\ UNCHANGED <<answer, receipts, editor>>

\* sendOneMessage: in HTML, or in plain text when that is refused.
SendOneMessage(m, result) ==
  /\ HandlerAt("send")
  /\ NextMessage(m)
  /\ ShowsPart(m, result)
  /\ ReplyGoes(IF result = "done" THEN "mark" ELSE "unsent")
  /\ UNCHANGED <<answer, receipts, editor>>

\* A part that was sent is marked; the next one follows even if the mark was lost.
MarkDelivered(saved) ==
  /\ HandlerAt("mark")
  /\ receipts' = IF saved THEN [receipts EXCEPT ![handler.part] = "delivered"] ELSE receipts
  /\ handler' = [handler EXCEPT !.at = IF handler.part < Parts THEN "begin" ELSE "record",
                                !.part = IF handler.part < Parts THEN @ + 1 ELSE @,
                                !.trouble = @ \/ ~saved]
  /\ UNCHANGED <<display, answer, editor, seen>>

\* Mistake: the parts after a failed one are sent all the same.
SendsTheRest == NextPart

\* telegramPartCanContinue: after a failure the rest is not sent.
StopsAtFailure == GivesUp

\* A part that failed is marked, whether it had its effect or not.
MarkFailed(saved) ==
  /\ HandlerAt("unsent")
  /\ receipts' = IF saved THEN [receipts EXCEPT ![handler.part] = "failed"] ELSE receipts
  /\ StopsAtFailure
  /\ UNCHANGED <<display, answer, editor, seen>>

\* recordTurnDelivery
RecordTurnDelivery(saved) ==
  /\ HandlerAt("record")
  /\ answer' = IF saved THEN [answer EXCEPT !.delivery = IF handler.trouble THEN "failed" ELSE "delivered"]
                        ELSE answer
  /\ ReplyGoes("none")
  /\ UNCHANGED <<display, receipts, editor, seen>>

--------------------------------------------------------------------------------
(* What else happens.                                                                  *)

\* The process stops in the middle of the message.
HandlerStops ==
  /\ ~HandlerAt("none")
  /\ editor' = NoEditor
  /\ ReplyGoes("none")
  /\ UNCHANGED <<display, answer, receipts, seen>>

\* The user deletes a draft.
UserDeletes(m) ==
  /\ display[m] = Other("draft")
  /\ display' = [display EXCEPT ![m] = Other("deleted")]
  /\ UNCHANGED <<answer, receipts, editor, handler, seen>>

StreamNext ==
  \/ HandlePrivate
  \/ \E d \in 1..Drafts : OnDelta(d)
  \/ \E status \in {"completed", "failed"} : TurnReturns(status)
  \/ FlushReads
  \/ \E m \in MessageNos, result \in Results : FlushSends(m, result)
  \/ \E result \in Results : FlushEdits(result)
  \/ LoopEnds
  \/ StopLoop
  \/ \E result \in Results : AfterStop(result)
  \/ \E m \in MessageNos, result \in Results : Apologise(m, result)
  \/ BeginPart
  \/ \E result \in Results : EditPlaceholder(result)
  \/ \E m \in MessageNos, result \in Results : SendOneMessage(m, result)
  \/ \E saved \in BOOLEAN : MarkDelivered(saved)
  \/ \E saved \in BOOLEAN : MarkFailed(saved)
  \/ \E saved \in BOOLEAN : RecordTurnDelivery(saved)
  \/ HandlerStops
  \/ \E m \in MessageNos : UserDeletes(m)

StreamSpec == StreamInit /\ [][StreamNext]_streamVars

--------------------------------------------------------------------------------
(* Properties.                                                                         *)

\* A part the user saw is shown exactly once from then on: no late draft covers it, no
\* retry repeats it.
ShownOnce == \A i \in seen : Cardinality({m \in MessageNos : display[m] = PartText(i)}) = 1

\* The user never sees a part without those before it.
NoHoles == \A i \in seen : i = 1 \/ i - 1 \in seen

\* What the ledger or the turn calls delivered was seen, and all of it.
DeliveredIsSeen ==
  /\ \A i \in PartNos : receipts[i] = "delivered" => i \in seen
  /\ answer.delivery = "delivered" => seen = PartNos

\* The reply is whole: in order, once and as recorded.
ReplyIsWhole == StreamTypeOK /\ ShownOnce /\ NoHoles /\ DeliveredIsSeen
================================================================================
