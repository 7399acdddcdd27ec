---------------------------- MODULE Conversation ----------------------------
(***************************************************************************)
(* Durable conversation turns, the approvals that pause them, and the two  *)
(* gates every dangerous tool call passes: the receipt of the invocation   *)
(* and the consent of the user.                                            *)
(*                                                                         *)
(* A process runs one turn of the user at a time (keylock) and every       *)
(* statement of a turn is a step, which may fail; a process may stop       *)
(* between any two.  Two processes share the database while one replaces   *)
(* the other.  Message numbers stand for chat_messages.id.  The agent      *)
(* runtime is external: it calls a gated tool, asks for approvals in a     *)
(* turn of a native session, ends, or fails.                               *)
(* Everything belongs to one session: grants are kept by session, and a    *)
(* session is native (the embedded host's) or not.  What ran out is gone:  *)
(* an expired grant is inert, so it leaves with its expiry.                *)
(***************************************************************************)
EXTENDS Integers, FiniteSets

CONSTANTS
  SourceKeys,      \* inbound messages, by the key their transport gives them
  GatedTools,      \* calls that need approval: a tool with its arguments
  Plans,           \* by message, the gated calls its turn may want to make
  MaxTurnAttempts, \* bound: executions of one turn
  Processes        \* processes that may serve the user

ASSUME ConversationAssumption ==
  /\ Plans \subseteq [SourceKeys -> SUBSET GatedTools]
  /\ MaxTurnAttempts \in Nat \ {0}

VARIABLES
  native,     \* whether the session's turns pause for approval
  plan,       \* what the agent wants to do in this session
  turn,       \* conversation_turns
  approval,   \* conversation_approvals: the newest of each turn
  grants,     \* pending_approvals of the session
  toolCall,   \* external_action_receipts of tool invocations
  runner,     \* by process: the turn it executes
  messages,   \* chat_messages numbered so far
  engineRuns, \* by turn: times the agent was started for it
  executed,   \* gated calls that ran, and the licence each used
  consents    \* the decisions behind each consent message

convVars == <<native, plan, turn, approval, grants, toolCall, runner, messages, engineRuns,
              executed, consents>>

NoTurn     == [status |-> "absent", attempts |-> 0, message |-> 0, delivery |-> "pending"]
NoApproval == [status |-> "none", asked |-> {}, allowed |-> {}, refused |-> {}]
NoRunner   == [pc |-> "idle", key |-> "none", attempt |-> 0, message |-> 0, consent |-> 0,
               tool |-> "none", requested |-> 0, used |-> 0]

ConvInit ==
  /\ native \in BOOLEAN
  /\ plan \in Plans
  /\ turn = [k \in SourceKeys |-> NoTurn]
  /\ approval = [k \in SourceKeys |-> NoApproval]
  /\ grants = {}
  /\ toolCall = [call \in SourceKeys \X GatedTools |-> "none"]
  /\ runner = [p \in Processes |-> NoRunner]
  /\ messages = 0
  /\ engineRuns = [k \in SourceKeys |-> 0]
  /\ executed = {}
  /\ consents = {}

--------------------------------------------------------------------------------
(* Claiming a turn *)

PendingFor(k) == turn[k].status = "awaiting" /\ approval[k].status = "pending"
AsksUser      == native /\ \E k \in SourceKeys : PendingFor(k)

\* Mistake: a turn that is still marked as running is executed again.
ClaimsRunning(k) == turn[k].status \in {"absent", "running"}

Claims(k) == turn[k].status = "absent"

BeginTurn(p, k) ==
  /\ runner[p].pc = "idle"
  /\ Claims(k)
  /\ ~AsksUser
  /\ LET began == turn[k].status = "absent"
         n     == IF began THEN messages + 1 ELSE turn[k].message
     IN /\ turn' = IF began THEN [turn EXCEPT ![k] = [NoTurn EXCEPT !.status = "running",
                                                         !.attempts = 1, !.message = n]]
                   ELSE turn
        /\ messages' = IF began THEN n ELSE messages
        /\ runner' = [runner EXCEPT ![p] = [NoRunner EXCEPT !.pc = "thinking", !.key = k,
                                              !.attempt = turn'[k].attempts, !.message = n]]
  /\ engineRuns' = [engineRuns EXCEPT ![k] = @ + 1]
  /\ UNCHANGED <<native, plan, approval, grants, toolCall, executed, consents>>

\* The key was claimed before and its turn is complete: the stored reply is
\* sent unless its delivery is settled, well or badly.
ReplayTurn(p, k) ==
  /\ runner[p].pc = "idle"
  /\ turn[k].status = "completed"
  /\ turn[k].delivery = "pending"
  /\ runner' = [runner EXCEPT ![p] = [NoRunner EXCEPT !.pc = "replying", !.key = k]]
  /\ UNCHANGED <<native, plan, turn, approval, grants, toolCall, messages, engineRuns, executed, consents>>

--------------------------------------------------------------------------------
(* A gated tool call inside a turn *)

\* The runtime calls the handler of a gated tool outright in an ordinary turn,
\* and in a native one only when this attempt resumes with its approval.
MayCall(p, t) ==
  LET r == runner[p]
  IN t \in plan[r.key] /\ (native =>
       r.consent # 0 /\ \E c \in consents : c.message = r.consent /\ t \in c.allowed)

Started(k, t) == toolCall[<<k, t>>] # "none"

BeginCall(p, t) ==
  /\ runner[p].pc = "thinking"
  /\ MayCall(p, t)
  /\ ~Started(runner[p].key, t)
  /\ toolCall' = [toolCall EXCEPT ![<<runner[p].key, t>>] = "started"]
  /\ runner' = [runner EXCEPT ![p].pc = "gate", ![p].tool = t]
  /\ UNCHANGED <<native, plan, turn, approval, grants, messages, engineRuns, executed, consents>>

\* Mistake: a grant made for a native consent serves any later message.
MatchesAnyConsent(g, p) ==
  /\ g.tool = runner[p].tool
  /\ g.requested < runner[p].message

Matches(g, p) ==
  /\ g.tool = runner[p].tool
  /\ g.requested < runner[p].message
  /\ g.consent \in {0, runner[p].message}

ConsumeGrant(p) ==
  /\ runner[p].pc = "gate"
  /\ \E g \in grants :
       /\ Matches(g, p)
       /\ grants' = grants \ {g}
       /\ runner' = [runner EXCEPT ![p].pc = "effect", ![p].requested = g.requested, ![p].used = g.consent]
  /\ UNCHANGED <<native, plan, turn, approval, toolCall, messages, engineRuns, executed, consents>>

\* Nothing authorizes the call: it is registered for the next message.
RegisterGrant(p) ==
  /\ runner[p].pc = "gate"
  /\ ~\E g \in grants : Matches(g, p)
  /\ grants' = {g \in grants : g.tool # runner[p].tool}
                 \cup {[tool |-> runner[p].tool, requested |-> runner[p].message, consent |-> 0]}
  /\ runner' = [runner EXCEPT ![p].pc = "ack"]
  /\ UNCHANGED <<native, plan, turn, approval, toolCall, messages, engineRuns, executed, consents>>

\* The inner handler: it acts, or fails with or without having acted.
Execute(p) ==
  /\ runner[p].pc = "effect"
  /\ \E acted \in BOOLEAN, next \in {"ack", "nack"} :
       /\ acted \/ next = "nack"
       /\ executed' = IF acted
                      THEN executed \cup {[key |-> runner[p].key, tool |-> runner[p].tool,
                             message |-> runner[p].message, requested |-> runner[p].requested,
                             consent |-> runner[p].used, nth |-> Cardinality(executed) + 1]}
                      ELSE executed
       /\ runner' = [runner EXCEPT ![p].pc = next]
  /\ UNCHANGED <<native, plan, turn, approval, grants, toolCall, messages, engineRuns, consents>>

\* The receipt is settled, or the statement fails and it stays started.
SettleCall(p) ==
  LET kt == <<runner[p].key, runner[p].tool>>
  IN /\ runner[p].pc \in {"ack", "nack"}
     /\ \E saved \in BOOLEAN :
          toolCall' = IF saved /\ toolCall[kt] = "started"
                      THEN [toolCall EXCEPT ![kt] = IF runner[p].pc = "ack" THEN "completed" ELSE "failed"]
                      ELSE toolCall
     /\ runner' = [runner EXCEPT ![p].pc = "thinking", ![p].tool = "none", ![p].requested = 0, ![p].used = 0]
     /\ UNCHANGED <<native, plan, turn, approval, grants, messages, engineRuns, executed, consents>>

GateFails(p) ==
  /\ runner[p].pc = "gate"
  /\ runner' = [runner EXCEPT ![p].pc = "nack"]
  /\ UNCHANGED <<native, plan, turn, approval, grants, toolCall, messages, engineRuns, executed, consents>>

--------------------------------------------------------------------------------
(* How an execution ends *)

\* Mistake: any execution of the turn may settle it, the current one or not.
OwnsTurn(p) == turn[runner[p].key].status \notin {"completed", "absent"}

OwnsAttempt(p) ==
  LET r == runner[p]
  IN turn[r.key].status = "running" /\ turn[r.key].attempts = r.attempt

Publish(p) ==
  /\ runner[p].pc = "thinking"
  /\ OwnsAttempt(p)
  /\ turn' = [turn EXCEPT ![runner[p].key].status = "completed"]
  /\ runner' = [runner EXCEPT ![p].pc = IF runner[p].consent = 0 THEN "replying" ELSE "closing"]
  /\ UNCHANGED <<native, plan, approval, grants, toolCall, messages, engineRuns, executed, consents>>

Pause(p, asked) ==
  LET k == runner[p].key
  IN /\ runner[p].pc = "thinking"
     /\ native
     /\ asked # {} /\ asked \subseteq plan[k]
     /\ turn[k].attempts < MaxTurnAttempts
     /\ OwnsAttempt(p)
     /\ turn' = [turn EXCEPT ![k].status = "awaiting"]
     /\ approval' = [approval EXCEPT ![k] = [NoApproval EXCEPT !.status = "pending", !.asked = asked]]
     /\ runner' = [runner EXCEPT ![p].pc = IF runner[p].consent = 0 THEN "idle" ELSE "closing"]
     /\ UNCHANGED <<native, plan, grants, toolCall, messages, engineRuns, executed, consents>>

\* The engine fails, or publishing or pausing is refused or fails.
GiveUp(p) ==
  /\ runner[p].pc = "thinking"
  /\ runner' = [runner EXCEPT ![p].pc = "failing"]
  /\ UNCHANGED <<native, plan, turn, approval, grants, toolCall, messages, engineRuns, executed, consents>>

\* FailConversationTurnAttempt; when the statement fails the turn stays running.
FailAttempt(p) ==
  LET k == runner[p].key
  IN /\ runner[p].pc = "failing"
     /\ \E saved \in BOOLEAN :
          turn' = IF saved /\ OwnsAttempt(p) THEN [turn EXCEPT ![k].status = "failed"] ELSE turn
     /\ runner' = [runner EXCEPT ![p].pc = IF runner[p].consent = 0 THEN "idle" ELSE "closing"]
     /\ UNCHANGED <<native, plan, approval, grants, toolCall, messages, engineRuns, executed, consents>>

\* A resumed execution withdraws the grants its consent left behind.  The error
\* of the statement is ignored.
RevokeGrants(p) ==
  LET k == runner[p].key
  IN /\ runner[p].pc = "closing"
     /\ \E saved \in BOOLEAN :
          grants' = IF saved
                    THEN {g \in grants : ~(g.consent = runner[p].consent /\ g.requested = turn[k].message)}
                    ELSE grants
     /\ runner' = [runner EXCEPT ![p] = IF turn[k].status = "completed"
                                          THEN [NoRunner EXCEPT !.pc = "replying", !.key = k] ELSE NoRunner]
     /\ UNCHANGED <<native, plan, turn, approval, toolCall, messages, engineRuns, executed, consents>>

\* The transport sends the reply; the mark may be lost, and the reply is then
\* still pending.
DeliverReply(p) ==
  /\ runner[p].pc = "replying"
  /\ \E outcome \in {"delivered", "failed", "pending"} :
       turn' = IF turn[runner[p].key].status = "completed" /\ outcome # "pending"
               THEN [turn EXCEPT ![runner[p].key].delivery = outcome] ELSE turn
  /\ runner' = [runner EXCEPT ![p] = NoRunner]
  /\ UNCHANGED <<native, plan, approval, grants, toolCall, messages, engineRuns, executed, consents>>

--------------------------------------------------------------------------------
(* The user decides *)

\* Decided calls keep their answer; the rest of a batch may be answered later.
Merged(k, allow, refuse) ==
  [approval[k] EXCEPT !.allowed = @ \cup allow, !.refused = @ \cup refuse]

Decidable(k, allow, refuse) ==
  /\ PendingFor(k)
  /\ allow \cup refuse # {}
  /\ allow \cup refuse \subseteq approval[k].asked
  /\ allow \cap (refuse \cup approval[k].refused) = {}
  /\ refuse \cap approval[k].allowed = {}

DecidePart(p, k, allow, refuse) ==
  LET a == Merged(k, allow, refuse)
  IN /\ runner[p].pc = "idle"
     /\ Decidable(k, allow, refuse)
     /\ a.allowed \cup a.refused # a.asked
     /\ approval' = [approval EXCEPT ![k] = a]
     /\ UNCHANGED <<native, plan, turn, grants, toolCall, runner, messages, engineRuns, executed, consents>>

GrantsOf(k, a, n) ==
  {[tool |-> t, requested |-> turn[k].message, consent |-> n] : t \in a.allowed}

DecideAll(p, k, allow, refuse) ==
  LET a == Merged(k, allow, refuse)
      n == messages + 1
  IN /\ runner[p].pc = "idle"
     /\ Decidable(k, allow, refuse)
     /\ a.allowed \cup a.refused = a.asked
     /\ messages' = n
     /\ grants' = {g \in grants : g.tool \notin a.allowed} \cup GrantsOf(k, a, n)
     /\ approval' = [approval EXCEPT ![k] = [a EXCEPT !.status = "claimed"]]
     /\ turn' = [turn EXCEPT ![k].status = "running", ![k].attempts = @ + 1]
     /\ consents' = consents \cup {[message |-> n, key |-> k, allowed |-> a.allowed]}
     /\ runner' = [runner EXCEPT ![p] = [NoRunner EXCEPT !.pc = "thinking", !.key = k,
                     !.attempt = turn[k].attempts + 1, !.message = n, !.consent = n]]
     /\ engineRuns' = [engineRuns EXCEPT ![k] = @ + 1]
     /\ UNCHANGED <<native, plan, toolCall, executed>>

\* Deciding or listing an approval that has run out by then closes its turn.
CloseExpired(k) ==
  /\ PendingFor(k)
  /\ turn' = [turn EXCEPT ![k].status = "failed"]
  /\ UNCHANGED <<native, plan, approval, grants, toolCall, runner, messages, engineRuns, executed, consents>>

--------------------------------------------------------------------------------
(* Time and processes *)

GrantExpires(g) ==
  /\ grants' = grants \ {g}
  /\ UNCHANGED <<native, plan, turn, approval, toolCall, runner, messages, engineRuns, executed, consents>>

\* A process stops wherever it is; the one that starts in its place closes the
\* running turns it finds older than the agent's deadline.
Restart(p) ==
  /\ runner' = [runner EXCEPT ![p] = NoRunner]
  /\ \E stale \in SUBSET {k \in SourceKeys : turn[k].status = "running"} :
       turn' = [k \in SourceKeys |-> IF k \in stale THEN [turn[k] EXCEPT !.status = "failed"] ELSE turn[k]]
  /\ UNCHANGED <<native, plan, approval, grants, toolCall, messages, engineRuns, executed, consents>>

ConvNext ==
  \/ \E p \in Processes, k \in SourceKeys : BeginTurn(p, k) \/ ReplayTurn(p, k)
  \/ \E p \in Processes, t \in GatedTools : BeginCall(p, t)
  \/ \E p \in Processes :
       \/ ConsumeGrant(p) \/ RegisterGrant(p) \/ GateFails(p) \/ Execute(p) \/ SettleCall(p)
       \/ Publish(p) \/ GiveUp(p) \/ FailAttempt(p) \/ RevokeGrants(p)
       \/ DeliverReply(p) \/ Restart(p)
  \/ \E p \in Processes, asked \in SUBSET GatedTools : Pause(p, asked)
  \/ \E p \in Processes, k \in SourceKeys, allow, refuse \in SUBSET GatedTools :
       DecidePart(p, k, allow, refuse) \/ DecideAll(p, k, allow, refuse)
  \/ \E k \in SourceKeys : CloseExpired(k)
  \/ \E g \in grants : GrantExpires(g)

ConvSpec == ConvInit /\ [][ConvNext]_convVars

--------------------------------------------------------------------------------
(* Properties *)

\* The agent is started once for each execution the turn was granted: neither a
\* message delivered again nor a restart replays work of unknown outcome.
AgentRunsOncePerAttempt == \A k \in SourceKeys : engineRuns[k] <= turn[k].attempts

\* A gated call runs on a confirmation that came in a later message than the
\* request, or on a consent of the user to this very call, given for this very
\* execution; and one confirmation serves once.
LaterMessage(x) == x.requested < x.message
ExactConsent(x) == x.consent # 0 =>
  /\ x.consent = x.message
  /\ \E c \in consents : c.message = x.consent /\ c.key = x.key /\ x.tool \in c.allowed
ActionsHaveConsent ==
  /\ \A x \in executed : LaterMessage(x) /\ ExactConsent(x)
  /\ \A x, y \in executed :
       x.tool = y.tool /\ x.requested = y.requested /\ x.consent = y.consent => x = y

\* One logical call has its effect once, whatever was lost around it.
CallsRunOnce == \A x, y \in executed : x.key = y.key /\ x.tool = y.tool => x = y

\* A turn does what its user agreed to and does it once, whatever is repeated,
\* restarted or decided late (BeginConversationTurn, withApproval, withInvocationIdempotency).
TurnsAreSafe == AgentRunsOncePerAttempt /\ ActionsHaveConsent /\ CallsRunOnce

\* A turn that ended keeps its outcome: an execution that was overtaken or given
\* up for lost can neither publish nor reopen it.
EndedTurnsStayEnded ==
  [][\A k \in SourceKeys : turn[k].status \in {"completed", "failed"} => turn'[k].status = turn[k].status]_convVars
================================================================================
