------------------------------ MODULE Schedules ------------------------------
(***************************************************************************)
(* One schedule and the occurrences it leaves behind.                      *)
(*                                                                         *)
(* The schedule names the instant at which it fires next and counts its    *)
(* plans: a database trigger advances the generation whenever instant,     *)
(* audience or policy change.  A firer claims the due schedule; its        *)
(* fan-out writes one delivery row per recipient and moves the schedule on *)
(* in one transaction.  The owner edits, cancels and rebases the schedule  *)
(* in between.  Instants are numbers: a repeating schedule fires at every  *)
(* one, a daily one not on DaysOff.  The time stamp of a claim is          *)
(* represented by who holds it.  What becomes of a row is the subject of   *)
(* ScheduleDeliveries.                                                     *)
(***************************************************************************)
EXTENDS Integers, FiniteSets

CONSTANTS
  People,         \* users
  Owner,          \* creator of the schedule
  ScheduleKinds,  \* kinds explored: "once", "repeat", "daily"
  MaxInstant,     \* bound: instants the clock passes
  MaxEdits,       \* bound: changes by the owner
  DaysOff,        \* instants excluded by weekdays
  Firers          \* goroutines running fireSchedule: numbers from 1

Instants    == 1 .. MaxInstant + 3
Generations == 1 .. MaxInstant + 2 * MaxEdits + 1

ASSUME SchedulesAssumption ==
  /\ Owner \in People
  /\ ScheduleKinds \subseteq {"once", "repeat", "daily"}
  /\ {MaxInstant, MaxEdits} \subseteq Nat
  /\ IsFiniteSet(DaysOff)
  /\ Firers \subseteq Nat \ {0}

VARIABLES
  clock,    \* the instant that has come
  schedule, \* the row of schedules
  queued,   \* schedule_deliveries: by generation and recipient, the occurrence's instant
  firer,    \* claimed copies of the schedule
  editor,   \* the copy update_schedule read
  edits,    \* changes made so far
  fired     \* instants fanned out

scheduleVars == <<clock, schedule, queued, firer, editor, edits, fired>>

NoSchedule == [status |-> "none", kind |-> "once", target |-> {}, mandatory |-> FALSE,
               at |-> 1, generation |-> 1, claim |-> 0, stale |-> FALSE]
IdleFirer  == [pc |-> "idle", at |-> 0, generation |-> 0]
NoEdit     == [pc |-> "none", at |-> 0]
NoInstant  == 0

SchedulesInit ==
  /\ clock = 0
  /\ schedule = NoSchedule
  /\ queued = [r \in Generations \X People |-> NoInstant]
  /\ firer = [f \in Firers |-> IdleFirer]
  /\ editor = NoEdit
  /\ edits = 0
  /\ fired = {}

--------------------------------------------------------------------------------
(* The owner *)

\* NextDailyFire: the first allowed instant after now.
NextDailyFire(now) ==
  CHOOSE i \in now + 1 .. now + 1 + Cardinality(DaysOff) :
    i \notin DaysOff /\ \A j \in now + 1 .. i - 1 : j \in DaysOff

\* The instant a schedule of kind k fires next, seen from now.
NextFire(k, now) == IF k = "daily" THEN NextDailyFire(now) ELSE now + 1

Stored(k, target, mandatory) ==
  schedule' = [NoSchedule EXCEPT !.status = "active", !.kind = k, !.target = target,
                                 !.mandatory = mandatory, !.at = NextFire(k, clock)]

\* schedule_once, schedule_repeating: to the caller.
RemindMe(k) ==
  /\ schedule.status = "none"
  /\ k \in ScheduleKinds \ {"daily"}
  /\ Stored(k, {Owner}, FALSE)
  /\ UNCHANGED <<clock, queued, firer, editor, edits, fired>>

\* Only a push to others can be mandatory; that its creator holds the permission
\* at the time of the call is left open.
MayBe(mandatory, target) == mandatory => target # {Owner}

\* schedule_once_push, schedule_recurring_push.
Push(k) ==
  /\ schedule.status = "none"
  /\ k \in ScheduleKinds \ {"repeat"}
  /\ \E target \in {{u} : u \in People} \cup {People}, mandatory \in BOOLEAN :
       MayBe(mandatory, target) /\ Stored(k, target, mandatory)
  /\ UNCHANGED <<clock, queued, firer, editor, edits, fired>>

Unclaimed(new) == [new EXCEPT !.claim = 0, !.stale = FALSE]

\* Mistake: the trigger overlooks the instant.
ReplannedByPolicy(new) ==
  IF new.mandatory # schedule.mandatory
  THEN Unclaimed([new EXCEPT !.generation = schedule.generation + 1])
  ELSE new

\* The trigger advance_schedule_occurrence_generation.
Replanned(new) ==
  IF <<new.at, new.mandatory>> # <<schedule.at, schedule.mandatory>>
  THEN Unclaimed([new EXCEPT !.generation = schedule.generation + 1])
  ELSE new

\* update_schedule reads the schedule it will change.
OpenEdit ==
  /\ editor.pc = "none"
  /\ edits < MaxEdits
  /\ schedule.status = "active"
  /\ editor' = [pc |-> "read", at |-> schedule.at]
  /\ edits' = edits + 1
  /\ UNCHANGED <<clock, schedule, queued, firer, fired>>

\* A daily schedule is rebased on the clock; another one keeps the instant that
\* was read unless a future one is given.
EditedInstants ==
  IF schedule.kind = "daily" THEN {NextDailyFire(clock)} ELSE {editor.at, clock + 1, clock + 2}

SaveEdit ==
  /\ editor.pc = "read"
  /\ \/ /\ schedule.status = "active"
        /\ \E at \in EditedInstants, mandatory \in BOOLEAN :
             /\ MayBe(mandatory, schedule.target)
             /\ schedule' = Replanned(Unclaimed([schedule EXCEPT !.at = at, !.mandatory = mandatory]))
     \/ UNCHANGED schedule
  /\ editor' = NoEdit
  /\ UNCHANGED <<clock, queued, firer, edits, fired>>

\* Together with the rows still open, which the cancellation closes.
CancelSchedule ==
  /\ schedule.status = "active"
  /\ schedule' = Unclaimed([schedule EXCEPT !.status = "cancelled"])
  /\ UNCHANGED <<clock, queued, firer, editor, edits, fired>>

\* ReconcileScheduleTimezone, at a start of the scheduler under another zone.
RebaseDaily ==
  /\ schedule.status = "active"
  /\ schedule.kind = "daily"
  /\ edits < MaxEdits
  /\ edits' = edits + 1
  /\ schedule' = Replanned(Unclaimed([schedule EXCEPT !.at = NextDailyFire(clock)]))
  /\ UNCHANGED <<clock, queued, firer, editor, fired>>

--------------------------------------------------------------------------------
(* Firing *)

InstantComes ==
  /\ clock < MaxInstant
  /\ clock' = clock + 1
  /\ UNCHANGED <<schedule, queued, firer, editor, edits, fired>>

ScheduleDue == schedule.status = "active" /\ schedule.at <= clock

\* Mistake: a claim that ran out is not taken over.
ClaimFreeSchedule(f) ==
  /\ firer[f].pc = "idle"
  /\ ScheduleDue
  /\ schedule.claim = 0
  /\ schedule' = [schedule EXCEPT !.claim = f, !.stale = FALSE]
  /\ firer' = [firer EXCEPT ![f] = [pc |-> "fire", at |-> schedule.at, generation |-> schedule.generation]]
  /\ UNCHANGED <<clock, queued, editor, edits, fired>>

ClaimSchedule(f) ==
  /\ firer[f].pc = "idle"
  /\ ScheduleDue
  /\ schedule.claim = 0 \/ schedule.stale
  /\ schedule' = [schedule EXCEPT !.claim = f, !.stale = FALSE]
  /\ firer' = [firer EXCEPT ![f] = [pc |-> "fire", at |-> schedule.at, generation |-> schedule.generation]]
  /\ UNCHANGED <<clock, queued, editor, edits, fired>>

\* Mistake: the fan-out commits whatever has become of the claim.
HoldsAnySchedule(f) == TRUE

HoldsSchedule(f) == schedule.generation = firer[f].generation /\ schedule.claim = f

\* The execution pool is full (ReleaseScheduleClaim), a statement fails, or the
\* process stops: only the first gives the claim back.
DropFire(f) ==
  /\ firer[f].pc = "fire"
  /\ \/ UNCHANGED schedule
     \/ HoldsSchedule(f) /\ schedule' = Unclaimed(schedule)
  /\ firer' = [firer EXCEPT ![f] = IdleFirer]
  /\ UNCHANGED <<clock, queued, editor, edits, fired>>

MovedOn ==
  IF schedule.kind = "once" THEN Unclaimed([schedule EXCEPT !.status = "done"])
  ELSE Replanned(Unclaimed([schedule EXCEPT !.at = NextFire(schedule.kind, clock)]))

OnDayOff == schedule.kind = "daily" /\ clock \in DaysOff

\* A daily schedule that comes late to a day off only moves on.
SkipDayOff(f) ==
  /\ firer[f].pc = "fire"
  /\ OnDayOff
  /\ HoldsSchedule(f)
  /\ schedule' = MovedOn
  /\ firer' = [firer EXCEPT ![f] = IdleFirer]
  /\ UNCHANGED <<clock, queued, editor, edits, fired>>

\* One row per recipient, unless this generation has one.
FanOut(f) ==
  /\ firer[f].pc = "fire"
  /\ ~OnDayOff
  /\ HoldsSchedule(f)
  /\ queued' = [r \in Generations \X People |->
                  IF r[1] = firer[f].generation /\ r[2] \in schedule.target /\ queued[r] = NoInstant
                  THEN firer[f].at ELSE queued[r]]
  /\ schedule' = MovedOn
  /\ fired' = fired \cup {firer[f].at}
  /\ firer' = [firer EXCEPT ![f] = IdleFirer]
  /\ UNCHANGED <<clock, editor, edits>>

\* scheduleDeliveryLease runs out.
ScheduleLeaseEnds ==
  /\ schedule.claim # 0
  /\ ~schedule.stale
  /\ schedule' = [schedule EXCEPT !.stale = TRUE]
  /\ UNCHANGED <<clock, queued, firer, editor, edits, fired>>

SchedulesNext ==
  \/ \E k \in ScheduleKinds : RemindMe(k) \/ Push(k)
  \/ OpenEdit \/ SaveEdit \/ CancelSchedule \/ RebaseDaily
  \/ InstantComes \/ ScheduleLeaseEnds
  \/ \E f \in Firers : ClaimSchedule(f) \/ DropFire(f) \/ SkipDayOff(f) \/ FanOut(f)

\* The scheduler polls, statements return, leases run out, and not every attempt
\* fails or finds the pool full.
SchedulesFairness ==
  /\ WF_scheduleVars(\E f \in Firers : ClaimSchedule(f))
  /\ WF_scheduleVars(ScheduleLeaseEnds)
  /\ \A f \in Firers : SF_scheduleVars(SkipDayOff(f) \/ FanOut(f)) /\ WF_scheduleVars(DropFire(f))

SchedulesSpec == SchedulesInit /\ [][SchedulesNext]_scheduleVars /\ SchedulesFairness

--------------------------------------------------------------------------------
(* Properties *)

\* An instant is fired only while it is what the schedule stands at: neither an
\* edit nor a cancellation nor another firer that came between the claim and the
\* fan-out is overwritten.
FiresTheCurrentPlan ==
  [][\A i \in fired' \ fired : schedule.status = "active" /\ schedule.at = i /\ i <= clock]_scheduleVars

\* No occurrence is lost: through whatever instants a schedule is moved, each one
\* it fired left every recipient a row of its own.
FiredMeansQueued ==
  \A i \in fired, u \in schedule.target : \E g \in Generations : queued[<<g, u>>] = i

\* A due schedule does not stay due, whoever gave up on firing it.
SchedulesSettled == ScheduleDue => clock < MaxInstant
\* In the end the schedule is not due, or the instants of the instance are over.
DueSchedulesFire == <>[]SchedulesSettled
==============================================================================
