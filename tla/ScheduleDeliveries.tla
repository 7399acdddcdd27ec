-------------------------- MODULE ScheduleDeliveries --------------------------
(***************************************************************************)
(* The rows a schedule's fan-out left for one recipient, and the couriers  *)
(* that deliver them: while the recipient opts in and out, the schedule is *)
(* made mandatory or cancelled, couriers stop, and their leases run out.   *)
(* The time stamp of a claim is represented by who holds it.               *)
(***************************************************************************)
EXTENDS Integers

CONSTANTS
  MaxRows,         \* bound: rows
  MaxChanges,      \* bound: changes of preference and policy
  Modes,           \* modes explored: "message", "ai"
  Couriers,        \* goroutines running deliverScheduleRecipient: numbers from 1
  MaxRowAttempts   \* scheduleRecipientMaxAttempts

RowIds == 1 .. MaxRows

ASSUME DeliveriesAssumption ==
  /\ {MaxRows, MaxChanges} \subseteq Nat
  /\ Modes \subseteq {"message", "ai"}
  /\ Couriers \subseteq Nat \ {0}
  /\ MaxRowAttempts \in Nat \ {0}

VARIABLES
  rowMode,    \* schedules.mode
  policy,     \* schedules: recipient_policy and status
  enabled,    \* schedule_delivery_preferences of the recipient
  changes,    \* changes of those so far
  row,        \* schedule_deliveries
  rowReceipt, \* notification_deliveries under "schedule-delivery:<id>"
  rowCourier, \* claimed copies of rows
  sentTo,     \* by row: messages given to the channel
  refused     \* rows the recipient opted out of before any courier decided to send

deliveryVars == <<rowMode, policy, enabled, changes, row, rowReceipt, rowCourier, sentTo, refused>>

NoRow       == [status |-> "absent", attempts |-> 0, claim |-> 0, ready |-> FALSE, stale |-> FALSE, text |-> FALSE]
FreeCourier == [pc |-> "idle", row |-> 1, attempts |-> 0]

DeliveriesInit ==
  /\ rowMode \in Modes
  /\ policy = [mandatory |-> FALSE, active |-> TRUE]
  /\ enabled = TRUE
  /\ changes = 0
  /\ row = [r \in RowIds |-> NoRow]
  /\ rowReceipt = [r \in RowIds |-> "none"]
  /\ rowCourier = [c \in Couriers |-> FreeCourier]
  /\ sentTo = [r \in RowIds |-> 0]
  /\ refused = {}

--------------------------------------------------------------------------------
(* Rows, preferences and policy *)

OpenRows == {r \in RowIds : row[r].status \in {"pending", "processing"}}
Closed(rows, status) ==
  [r \in RowIds |-> IF r \in rows THEN [row[r] EXCEPT !.status = status, !.claim = 0, !.stale = FALSE] ELSE row[r]]

\* FanOutScheduleOccurrence inserts the row of the next occurrence.
QueueRow ==
  /\ policy.active
  /\ \E r \in RowIds :
       /\ row[r].status = "absent"
       /\ \A q \in 1 .. r - 1 : row[q].status # "absent"
       /\ row' = [row EXCEPT ![r] = [NoRow EXCEPT !.status = "pending", !.ready = TRUE]]
  /\ UNCHANGED <<rowMode, policy, enabled, changes, rowReceipt, rowCourier, sentTo, refused>>

Decided(r) == \E c \in Couriers : rowCourier[c].row = r /\ rowCourier[c].pc \in {"send", "transmit"}

\* SetScheduleDeliveryPreference; only an optional schedule can be muted.
OptOut ==
  /\ changes < MaxChanges
  /\ enabled /\ policy.active /\ ~policy.mandatory
  /\ enabled' = FALSE
  /\ row' = Closed(OpenRows, "suppressed")
  /\ refused' = refused \cup {r \in OpenRows : ~Decided(r) /\ sentTo[r] = 0}
  /\ changes' = changes + 1
  /\ UNCHANGED <<rowMode, policy, rowReceipt, rowCourier, sentTo>>

OptIn ==
  /\ changes < MaxChanges
  /\ ~enabled /\ policy.active
  /\ enabled' = TRUE
  /\ refused' = {}
  /\ changes' = changes + 1
  /\ UNCHANGED <<rowMode, policy, row, rowReceipt, rowCourier, sentTo>>

\* update_schedule changes the policy under rows already queued.
SetPolicy ==
  /\ changes < MaxChanges
  /\ policy.active
  /\ policy' = [policy EXCEPT !.mandatory = ~@]
  /\ refused' = {}
  /\ changes' = changes + 1
  /\ UNCHANGED <<rowMode, enabled, row, rowReceipt, rowCourier, sentTo>>

CancelRows ==
  /\ policy.active
  /\ policy' = [policy EXCEPT !.active = FALSE]
  /\ row' = Closed(OpenRows, "cancelled")
  /\ UNCHANGED <<rowMode, enabled, changes, rowReceipt, rowCourier, sentTo, refused>>

Allowed == policy.mandatory \/ enabled

--------------------------------------------------------------------------------
(* Claiming *)

RowDue(r) ==
  \/ row[r].status = "pending" /\ row[r].ready
  \/ row[r].status = "processing" /\ row[r].stale

OthersStay == UNCHANGED <<rowMode, policy, enabled, changes, refused>>

\* Mistake: a row interrupted in its last attempt is left as it is.
ExhaustWaitingRow(r) ==
  /\ row[r].status = "pending" /\ row[r].ready
  /\ row[r].attempts >= MaxRowAttempts
  /\ row' = Closed({r}, "failed")
  /\ OthersStay /\ UNCHANGED <<rowReceipt, rowCourier, sentTo>>

ExhaustRow(r) ==
  /\ RowDue(r)
  /\ row[r].attempts >= MaxRowAttempts
  /\ row' = Closed({r}, "failed")
  /\ OthersStay /\ UNCHANGED <<rowReceipt, rowCourier, sentTo>>

ClaimRow(c, r) ==
  /\ rowCourier[c].pc = "idle"
  /\ RowDue(r)
  /\ row[r].attempts < MaxRowAttempts
  /\ row' = [row EXCEPT ![r] = [@ EXCEPT !.status = "processing", !.claim = c, !.stale = FALSE,
                                          !.attempts = row[r].attempts + 1]]
  /\ rowCourier' = [rowCourier EXCEPT ![c] = [pc |-> "check", row |-> r, attempts |-> row[r].attempts + 1]]
  /\ OthersStay /\ UNCHANGED <<rowReceipt, sentTo>>

RowTimePasses(r) ==
  /\ \/ row[r].status = "processing" /\ ~row[r].stale /\ row' = [row EXCEPT ![r].stale = TRUE]
     \/ row[r].status = "pending" /\ ~row[r].ready /\ row' = [row EXCEPT ![r].ready = TRUE]
  /\ OthersStay /\ UNCHANGED <<rowReceipt, rowCourier, sentTo>>

--------------------------------------------------------------------------------
(* Delivering *)

HoldsRow(c)  == row[rowCourier[c].row].status = "processing" /\ row[rowCourier[c].row].claim = c
Walk(c, pc)  == rowCourier' = [rowCourier EXCEPT ![c].pc = pc]
Leave(c)     == rowCourier' = [rowCourier EXCEPT ![c] = FreeCourier]
BackInQueue(r, n, ready) ==
  [row EXCEPT ![r] = [@ EXCEPT !.status = "pending", !.claim = 0, !.stale = FALSE, !.attempts = n, !.ready = ready]]

\* The pool has no slot: the attempt is given back.
ReleaseRow(c) ==
  LET r == rowCourier[c].row IN
  /\ rowCourier[c].pc = "check"
  /\ HoldsRow(c)
  /\ row' = BackInQueue(r, row[r].attempts - 1, row[r].ready)
  /\ Leave(c)
  /\ OthersStay /\ UNCHANGED <<rowReceipt, sentTo>>

\* The preference or the recipient may be unreadable, the recipient disabled; a
\* text the model writes is written before the preference is looked at again.
CheckRecipient(c) ==
  /\ rowCourier[c].pc = "check"
  /\ \/ Walk(c, "retry")
     \/ ~Allowed /\ Walk(c, "suppress")
     \/ Allowed /\ Walk(c, "fail")
     \/ Allowed /\ Walk(c, IF rowMode = "ai" /\ ~row[rowCourier[c].row].text THEN "prepare" ELSE "recheck")
  /\ OthersStay /\ UNCHANGED <<row, rowReceipt, sentTo>>

\* prepareScheduleAI may find that there is nothing to tell; the text is stored
\* by the holder of the claim only.
PrepareText(c) ==
  /\ rowCourier[c].pc = "prepare"
  /\ \/ HoldsRow(c) /\ row' = [row EXCEPT ![rowCourier[c].row].text = TRUE] /\ Walk(c, "recheck")
     \/ Walk(c, "suppress") /\ UNCHANGED row
     \/ Walk(c, "retry") /\ UNCHANGED row
  /\ OthersStay /\ UNCHANGED <<rowReceipt, sentTo>>

\* Mistake: the first look at the preference is taken for the last.
RecheckNothing(c) ==
  /\ rowCourier[c].pc = "recheck"
  /\ \/ Walk(c, "retry")
     \/ Walk(c, "send")
  /\ OthersStay /\ UNCHANGED <<row, rowReceipt, sentTo>>

Recheck(c) ==
  /\ rowCourier[c].pc = "recheck"
  /\ \/ Walk(c, "retry")
     \/ Walk(c, IF Allowed THEN "send" ELSE "suppress")
  /\ OthersStay /\ UNCHANGED <<row, rowReceipt, sentTo>>

\* Mistake: only a receipt marked delivered keeps the message from going out.
SendRowUnlessDelivered(c) ==
  LET r == rowCourier[c].row IN
  /\ rowCourier[c].pc = "send"
  /\ IF rowReceipt[r] = "delivered" THEN Walk(c, "delivered") /\ UNCHANGED rowReceipt
     ELSE rowReceipt' = [rowReceipt EXCEPT ![r] = "started"] /\ Walk(c, "transmit")
  /\ OthersStay /\ UNCHANGED <<row, sentTo>>

\* SendOnce: the receipt is created once, and whoever finds it settles by it.
SendRow(c) ==
  LET r == rowCourier[c].row IN
  /\ rowCourier[c].pc = "send"
  /\ \/ Walk(c, "retry") /\ UNCHANGED rowReceipt     \* the ledger or the channel is not there
     \/ CASE rowReceipt[r] = "none"      -> rowReceipt' = [rowReceipt EXCEPT ![r] = "started"] /\ Walk(c, "transmit")
          [] rowReceipt[r] = "delivered" -> Walk(c, "delivered") /\ UNCHANGED rowReceipt
          [] OTHER                       -> Walk(c, "fail") /\ UNCHANGED rowReceipt
  /\ OthersStay /\ UNCHANGED <<row, sentTo>>

\* The channel confirms or refuses; the receipt's mark may be lost.
TransmitRow(c) ==
  LET r == rowCourier[c].row IN
  /\ rowCourier[c].pc = "transmit"
  /\ sentTo' = [sentTo EXCEPT ![r] = @ + 1]
  /\ \E ok \in BOOLEAN :
       /\ Walk(c, IF ok THEN "delivered" ELSE "fail")
       /\ rowReceipt' \in {rowReceipt, [rowReceipt EXCEPT ![r] = IF ok THEN "delivered" ELSE "failed"]}
  /\ OthersStay /\ UNCHANGED row

RowEnd(pc) == CASE pc = "suppress" -> "suppressed" [] pc = "fail" -> "failed" [] pc = "delivered" -> "delivered"

\* MarkScheduleDelivery...: by the holder of the claim only.
SettleRow(c) ==
  /\ rowCourier[c].pc \in {"suppress", "fail", "delivered"}
  /\ row' = IF HoldsRow(c) THEN Closed({rowCourier[c].row}, RowEnd(rowCourier[c].pc)) ELSE row
  /\ Leave(c)
  /\ OthersStay /\ UNCHANGED <<rowReceipt, sentTo>>

RetryRow(c) ==
  LET r == rowCourier[c].row IN
  /\ rowCourier[c].pc = "retry"
  /\ row' = IF ~HoldsRow(c) THEN row
            ELSE IF rowCourier[c].attempts >= MaxRowAttempts THEN Closed({r}, "failed")
            ELSE BackInQueue(r, row[r].attempts, FALSE)
  /\ Leave(c)
  /\ OthersStay /\ UNCHANGED <<rowReceipt, sentTo>>

\* The process stops, or a settling statement fails.
LoseCourier(c) ==
  /\ rowCourier[c].pc # "idle"
  /\ Leave(c)
  /\ OthersStay /\ UNCHANGED <<row, rowReceipt, sentTo>>

DeliverRow(c) ==
  \/ CheckRecipient(c) \/ PrepareText(c) \/ Recheck(c) \/ SendRow(c) \/ TransmitRow(c) \/ SettleRow(c) \/ RetryRow(c)

DeliveriesNext ==
  \/ QueueRow \/ OptOut \/ OptIn \/ SetPolicy \/ CancelRows
  \/ \E r \in RowIds : ExhaustRow(r) \/ RowTimePasses(r) \/ \E c \in Couriers : ClaimRow(c, r)
  \/ \E c \in Couriers : ReleaseRow(c) \/ DeliverRow(c) \/ LoseCourier(c)

\* The scheduler polls (Run), statements return, time passes, and the pool is not
\* full whenever a row is claimed.
DeliveriesFairness ==
  /\ \A r \in RowIds : WF_deliveryVars(RowTimePasses(r))
                       /\ SF_deliveryVars(ExhaustRow(r) \/ \E c \in Couriers : ClaimRow(c, r))
  /\ \A c \in Couriers : SF_deliveryVars(CheckRecipient(c)) /\ WF_deliveryVars(DeliverRow(c))

DeliveriesSpec == DeliveriesInit /\ [][DeliveriesNext]_deliveryVars /\ DeliveriesFairness

--------------------------------------------------------------------------------
(* Properties *)

\* A row is told to its recipient once at most, however many couriers claim it, and
\* not at all when the recipient had opted out before a courier looked for the last
\* time.
ToldOnceAndWelcome == \A r \in RowIds : sentTo[r] <= 1 /\ (r \in refused => sentTo[r] = 0)

\* Every row comes to an end: interrupted claims run out, attempts are counted.
RowsSettled == \A r \in RowIds : row[r].status \notin {"pending", "processing"}
\* Every delivery row is settled in the end (claims, back-off, attempt limit).
EveryRowEnds == <>[]RowsSettled
==============================================================================
