------------------------------ MODULE Reminders ------------------------------
(***************************************************************************)
(* The reminders of one deadline: the warning before it, the notice after  *)
(* it, and the nudges (and escalations) while nothing happens.             *)
(*                                                                         *)
(* Items: a "task" (its assigner is someone else), an "own" task, and a    *)
(* "goal", which stands for goals and milestones: they are reminded alike, *)
(* go straight to the event queue when overdue and are not nudged.  A      *)
(* courier is one job of the send pool or of the model pool: it holds the  *)
(* copy of the row that its pass claimed.  Instants are reduced to the     *)
(* phase of the current deadline; a claim is fresh or past its lease.      *)
(***************************************************************************)
EXTENDS Integers, FiniteSets

CONSTANTS
  Items,          \* kinds of items explored: "task", "own", "goal"
  RemCouriers,    \* jobs of the pools
  EscalateAfter,  \* escalateAfter
  MaxDeadlines,   \* bound: deadlines an item is given
  MaxNudges,      \* bound: nudges given to the channel
  MaxRemFaults    \* bound: lookups, queues, channels and jobs that fail

ASSUME RemindersAssumption ==
  /\ Items \subseteq {"task", "own", "goal"}
  /\ EscalateAfter \in Nat \ {0}
  /\ MaxDeadlines \in Nat \ {0}
  /\ MaxNudges \in Nat
  /\ MaxRemFaults \in Nat

VARIABLES
  item,        \* the row: kind, open, deadline_generation, phase of the deadline
  remClaimed,     \* reminder -> its claimed_at: "none", "fresh", "stale"
  attempted,   \* reminders whose attempted_at is set
  overdueTold, \* overdue_notified_at is set
  nudges,      \* nudge_count, nudge_attempt_count and whether the interval passed
  remCourier,  \* courier -> its job
  remReceipt,  \* notification_deliveries: the keys that are there and their states
  remQueued,   \* keys represented in the event queue
  unheard,     \* <<reminder, generation>> settled because nobody can be told
  remTold,     \* keys whose message was given to the channel
  remTwice,    \* and those given to it again
  remFaults    \* failures so far

reminderVars == <<item, remClaimed, attempted, overdueTold, nudges, remCourier, remReceipt,
                  remQueued, unheard, remTold, remTwice, remFaults>>

Reminder == {"warn", "over", "nudge"}
Resting  == [pc |-> "idle", what |-> "warn", gen |-> 0, count |-> 0, n |-> 0, leg |-> "warn",
             settled |-> TRUE, delivered |-> FALSE]
Unnudged == [count |-> 0, attempts |-> 0, due |-> FALSE]

RemindersInit ==
  /\ item \in [kind : Items, open : {TRUE}, gen : {1}, phase : {"far"}]
  /\ remClaimed = [r \in Reminder |-> "none"]
  /\ attempted = {}
  /\ overdueTold = FALSE
  /\ nudges = Unnudged
  /\ remCourier = [c \in RemCouriers |-> Resting]
  /\ remReceipt = <<>>
  /\ remQueued = {}
  /\ unheard = {}
  /\ remTold = {}
  /\ remTwice = {}
  /\ remFaults = 0

--------------------------------------------------------------------------------
(* The row *)

\* The trigger behind every change of a deadline: a new generation, and nothing of
\* the old one's reminders is kept.
MoveDeadline ==
  /\ item.open
  /\ item.gen < MaxDeadlines
  /\ \E phase \in {"far", "near", "past"} : item' = [item EXCEPT !.gen = @ + 1, !.phase = phase]
  /\ remClaimed' = [r \in Reminder |-> "none"]
  /\ attempted' = {}
  /\ overdueTold' = FALSE
  /\ nudges' = Unnudged
  /\ UNCHANGED <<remCourier, remReceipt, remQueued, unheard, remTold, remTwice, remFaults>>

\* The item leaves the states in which it is reminded of.
CloseItem ==
  /\ item.open
  /\ item' = [item EXCEPT !.open = FALSE]
  /\ UNCHANGED <<remClaimed, attempted, overdueTold, nudges, remCourier, remReceipt, remQueued,
                 unheard, remTold, remTwice, remFaults>>

ReportProgress ==
  /\ item.open
  /\ nudges.due
  /\ nudges' = [nudges EXCEPT !.due = FALSE]
  /\ UNCHANGED <<item, remClaimed, attempted, overdueTold, remCourier, remReceipt, remQueued,
                 unheard, remTold, remTwice, remFaults>>

DeadlineNears ==
  /\ item.phase # "past"
  /\ item' = [item EXCEPT !.phase = IF @ = "far" THEN "near" ELSE "past"]
  /\ UNCHANGED <<remClaimed, attempted, overdueTold, nudges, remCourier, remReceipt, remQueued,
                 unheard, remTold, remTwice, remFaults>>

LeasesRunOut ==
  /\ \E r \in Reminder : remClaimed[r] = "fresh" /\ remClaimed' = [remClaimed EXCEPT ![r] = "stale"]
  /\ UNCHANGED <<item, attempted, overdueTold, nudges, remCourier, remReceipt, remQueued,
                 unheard, remTold, remTwice, remFaults>>

\* nudgeInterval is two days, a job of the model pool lasts minutes.
NudgeFallsDue ==
  /\ ~nudges.due
  /\ overdueTold
  /\ \A c \in RemCouriers : remCourier[c].pc = "idle" \/ remCourier[c].what # "nudge"
  /\ nudges' = [nudges EXCEPT !.due = TRUE]
  /\ UNCHANGED <<item, remClaimed, attempted, overdueTold, remCourier, remReceipt, remQueued,
                 unheard, remTold, remTwice, remFaults>>

--------------------------------------------------------------------------------
(* Claims *)

Nudged == Cardinality({k \in remTold : k.leg = "nudge"})

\* Mistake: a reminder that was claimed once is not claimed again.
RemUnclaimed(r) ==
  /\ item.open
  /\ remClaimed[r] = "none"
  /\ CASE r = "warn"  -> item.phase = "near" /\ "warn" \notin attempted
       [] r = "over"  -> item.phase = "past" /\ "over" \notin attempted
       [] r = "nudge" -> item.kind # "goal" /\ overdueTold /\ nudges.due /\ Nudged < MaxNudges

\* What DueDeadlineReminders, DueOverdueNotices and DueNudges select.
RemDue(r) ==
  /\ item.open
  /\ remClaimed[r] # "fresh"
  /\ CASE r = "warn"  -> item.phase = "near" /\ "warn" \notin attempted
       [] r = "over"  -> item.phase = "past" /\ "over" \notin attempted
       [] r = "nudge" -> item.kind # "goal" /\ overdueTold /\ nudges.due /\ Nudged < MaxNudges

ClaimReminder(c, r) ==
  /\ remCourier[c].pc = "idle"
  /\ RemDue(r)
  /\ remClaimed' = [remClaimed EXCEPT ![r] = "fresh"]
  /\ remCourier' = [remCourier EXCEPT ![c] =
       [Resting EXCEPT !.pc = "look", !.what = r, !.gen = item.gen, !.leg = r, !.count = nudges.count,
                       !.n = IF r = "nudge" THEN nudges.attempts + 1 ELSE 0]]
  /\ UNCHANGED <<item, attempted, overdueTold, nudges, remReceipt, remQueued, unheard, remTold, remTwice, remFaults>>

--------------------------------------------------------------------------------
(* A job *)

Job(c)    == remCourier[c]
Key(c)    == [leg |-> Job(c).leg, gen |-> Job(c).gen, n |-> Job(c).n]
Become(c, job) == remCourier' = [remCourier EXCEPT ![c] = job]
Fault     == remFaults < MaxRemFaults /\ remFaults' = remFaults + 1
HasBoss   == item.kind = "task"

\* humanUser: someone may be told, nobody may (a worker, a stopped account, a goal
\* that is gone), or the lookup fails, which the code takes for nobody.
LookUp(c) ==
  /\ Job(c).pc = "look"
  /\ \/ /\ Become(c, IF Job(c).what = "over" /\ item.kind = "goal"
                     THEN [Job(c) EXCEPT !.pc = "enqueue", !.leg = "boss"]
                     ELSE [Job(c) EXCEPT !.pc = "send"])
        /\ UNCHANGED <<unheard, remFaults>>
     \/ /\ Fault
        /\ IF Job(c).what = "nudge" THEN Become(c, Resting) /\ UNCHANGED unheard
           ELSE IF Job(c).what = "over" /\ HasBoss
           THEN Become(c, [Job(c) EXCEPT !.pc = "enqueue", !.leg = "boss"]) /\ UNCHANGED unheard
           ELSE /\ Become(c, [Job(c) EXCEPT !.pc = "mark"])
                /\ unheard' = unheard \cup {<<Job(c).what, Job(c).gen>>}
  /\ UNCHANGED <<item, remClaimed, attempted, overdueTold, nudges, remReceipt, remQueued, remTold, remTwice>>

\* Where a job goes when a leg of it has ended.
AfterLeg(job, settled, delivered) ==
  LET next == [job EXCEPT !.settled = @ /\ settled, !.delivered = @ \/ delivered] IN
  IF job.leg = "escalate" THEN Resting
  ELSE IF job.leg = "over" /\ HasBoss THEN [next EXCEPT !.pc = "enqueue", !.leg = "boss"]
  ELSE IF next.settled THEN [next EXCEPT !.pc = "mark"]
  ELSE Resting

\* EnqueueRequiredOnce: the event stands for the message; only when it cannot be
\* stored the message is sent.
EnqueueNotice(c) ==
  /\ Job(c).pc = "enqueue"
  /\ \/ /\ remQueued' = remQueued \cup {Key(c)}
        /\ Become(c, AfterLeg(Job(c), TRUE, TRUE))
        /\ UNCHANGED remFaults
     \/ Fault /\ Become(c, [Job(c) EXCEPT !.pc = "send"]) /\ UNCHANGED remQueued
  /\ UNCHANGED <<item, remClaimed, attempted, overdueTold, nudges, remReceipt, unheard, remTold, remTwice>>

\* The row that begin inserts.
WithReceipt(k) == [j \in DOMAIN remReceipt \cup {k} |-> IF j = k THEN "started" ELSE remReceipt[j]]

\* Mistake: a reminder that was begun and not acknowledged is sent again.
BeginReminderAgain(c) ==
  /\ Job(c).pc = "send"
  /\ remReceipt' = WithReceipt(Key(c))
  /\ Become(c, [Job(c) EXCEPT !.pc = "transmit"])
  /\ UNCHANGED <<item, remClaimed, attempted, overdueTold, nudges, remQueued, unheard, remTold, remTwice, remFaults>>

\* SendOnce under the key of this generation; without a channel, or when the turn
\* that writes the nudge fails, nothing is settled.
BeginReminder(c) ==
  /\ Job(c).pc = "send"
  /\ \/ /\ Fault /\ Become(c, AfterLeg(Job(c), FALSE, FALSE)) /\ UNCHANGED remReceipt
     \/ /\ Key(c) \notin DOMAIN remReceipt
        /\ remReceipt' = WithReceipt(Key(c))
        /\ Become(c, [Job(c) EXCEPT !.pc = "transmit"])
        /\ UNCHANGED remFaults
     \/ /\ Key(c) \in DOMAIN remReceipt
        /\ Become(c, AfterLeg(Job(c), TRUE, remReceipt[Key(c)] = "delivered"))
        /\ UNCHANGED <<remReceipt, remFaults>>
  /\ UNCHANGED <<item, remClaimed, attempted, overdueTold, nudges, remQueued, unheard, remTold, remTwice>>

TransmitReminder(c) ==
  /\ Job(c).pc = "transmit"
  /\ remTold' = remTold \cup {Key(c)}
  /\ remTwice' = remTwice \cup (remTold \cap {Key(c)})
  /\ \E ok \in BOOLEAN :
       /\ IF ok THEN UNCHANGED remFaults ELSE Fault
       /\ remReceipt' = [remReceipt EXCEPT ![Key(c)] = IF ok THEN "delivered" ELSE "failed"]
       /\ Become(c, AfterLeg(Job(c), TRUE, ok))
  /\ UNCHANGED <<item, remClaimed, attempted, overdueTold, nudges, remQueued, unheard>>

\* Mistake: only the claim is looked at.
MarkFitsAny(job) == remClaimed[job.what] # "none"

\* The condition of the three Mark...Attempt statements.
MarkFits(job) == job.gen = item.gen /\ remClaimed[job.what] # "none"

Counted(job) ==
  [nudges EXCEPT !.attempts = @ + 1, !.count = IF job.delivered THEN @ + 1 ELSE @, !.due = FALSE]

Escalates(job) == HasBoss /\ job.delivered /\ job.count + 1 >= EscalateAfter

\* A nudge is counted and may call the assigner in; the others are settled.
MarkReminder(c) ==
  LET job == Job(c) IN
  /\ job.pc = "mark"
  /\ IF ~MarkFits(job)
     THEN Become(c, Resting) /\ UNCHANGED <<remClaimed, attempted, overdueTold, nudges>>
     ELSE /\ remClaimed' = [remClaimed EXCEPT ![job.what] = "none"]
          /\ IF job.what = "nudge"
             THEN /\ nudges' = Counted(job)
                  /\ Become(c, IF Escalates(job) THEN [job EXCEPT !.pc = "send", !.leg = "escalate", !.n = job.count + 1]
                               ELSE Resting)
                  /\ UNCHANGED <<attempted, overdueTold>>
             ELSE /\ attempted' = attempted \cup {job.what}
                  /\ overdueTold' = (overdueTold \/ (job.what = "over" /\ job.delivered))
                  /\ Become(c, Resting)
                  /\ UNCHANGED nudges
  /\ UNCHANGED <<item, remReceipt, remQueued, unheard, remTold, remTwice, remFaults>>

\* The process stops, or the mark fails: the claim is left to its lease.
LoseJob(c) ==
  /\ Job(c).pc # "idle"
  /\ Fault
  /\ Become(c, Resting)
  /\ UNCHANGED <<item, remClaimed, attempted, overdueTold, nudges, remReceipt, remQueued, unheard, remTold, remTwice>>

DoJob(c) == LookUp(c) \/ EnqueueNotice(c) \/ BeginReminder(c) \/ TransmitReminder(c) \/ MarkReminder(c)

RemindersNext ==
  \/ MoveDeadline \/ CloseItem \/ ReportProgress \/ DeadlineNears \/ LeasesRunOut \/ NudgeFallsDue
  \/ \E c \in RemCouriers : (\E r \in Reminder : ClaimReminder(c, r)) \/ DoJob(c) \/ LoseJob(c)

\* The tick comes back, time passes and jobs return.
RemindersFairness ==
  /\ WF_reminderVars(LeasesRunOut)
  /\ WF_reminderVars(\E c \in RemCouriers : ClaimReminder(c, "over"))
  /\ \A c \in RemCouriers : WF_reminderVars(DoJob(c))

RemindersSpec == RemindersInit /\ [][RemindersNext]_reminderVars /\ RemindersFairness

--------------------------------------------------------------------------------
(* Properties *)

\* A reminder counts as attempted for the present deadline only when somebody was
\* told of this deadline, or nobody could be: a courier that comes back late with
\* the mark of an old deadline never silences the reminder of the new one.
MarksFitTheDeadline ==
  \A r \in attempted :
    \/ <<r, item.gen>> \in unheard
    \/ \E k \in DOMAIN remReceipt \cup remQueued : k.gen = item.gen /\ k.leg \in {r, "boss"}

\* Each message of a deadline is given to the channel at most once, and an
\* escalation that says "nudged n times" comes after n nudges of this deadline.
NudgesAreCounted ==
  /\ remTwice = {}
  /\ \A k \in remTold : k.leg = "escalate" =>
       k.n <= Cardinality({j \in DOMAIN remReceipt :
                             j.leg = "nudge" /\ j.gen = k.gen /\ remReceipt[j] = "delivered"})

\* The reminders of an item fit its present deadline and are counted as they were
\* sent (DueNudges and its like, MarkNudgeAttempt and its like, nudgePass, deadlinePass).
RemindersAreTrue == MarksFitTheDeadline /\ NudgesAreCounted

\* A deadline that passed is answered: the notice is attempted, or the deadline
\* moved, or the item closed.
RemindersSettled == item.open /\ item.phase = "past" => "over" \in attempted
\* In the end a passed deadline has been answered (deadlinePass).
OverdueIsNoticed == <>[]RemindersSettled
==============================================================================
