----------------------------- MODULE GroupMonitor -----------------------------
(***************************************************************************)
(* The event monitor of one Telegram group: captured messages wake a timer *)
(* in memory; its flush claims a page of messages for analysis; the        *)
(* analysis stores its result, then its facts, then alerts the person who  *)
(* asked for it, and moves the cursor.                                     *)
(*                                                                         *)
(* The row in kv_state is only changed under its row lock.  Messages and   *)
(* flushes of a chat exclude each other (the chat lock), the configuring   *)
(* tool and the analyses in progress do not: an analysis whose batch was   *)
(* taken away by the tool goes on beside the next one.  Message ids are    *)
(* numbers from 1; a batch's end time is a number drawn when the batch is  *)
(* claimed.  An analysis lasts at most three minutes, its lease four: a    *)
(* lease runs out only when nobody works under it.                         *)
(***************************************************************************)
EXTENDS Integers

CONSTANTS
  MaxMessages,   \* bound: messages captured
  PageSize,      \* messages of a page (300)
  Analyses,      \* bound: analyses in progress at a time
  MaxConfigs,    \* bound: calls of set_telegram_group_monitor
  MaxMonFaults   \* bound: failures and restarts

ASSUME MonitorAssumption ==
  /\ MaxMessages \in Nat
  /\ PageSize \in Nat \ {0}
  /\ MaxConfigs \in Nat
  /\ MaxMonFaults \in Nat

VARIABLES
  mon,        \* the row
  recorded,   \* messages in the transcript
  unobserved, \* the last one is recorded, the monitor not yet told
  monTimer,   \* generation of the armed timer, 0: none
  callbacks,  \* generations of timers that fired and wait for the mutex
  generation, \* monitorGeneration[chat], 0: absent
  flush,      \* the flush that holds the chat lock
  judge,      \* the analyses in progress
  instance,   \* monitorInstanceID: the process's number
  monFaults,  \* failures and restarts so far
  monConfigs, \* configurations so far
  batches,    \* batch end times drawn
  judged,     \* messages whose page was analysed to the end
  findings,   \* <<batch, result>> whose facts were stored
  alerts,     \* batches whose alert was given to the channel
  alertKeys   \* receipts of alerts

monitorVars == <<mon, recorded, unobserved, monTimer, callbacks, generation, flush, judge, instance,
                 monFaults, monConfigs, batches, judged, findings, alerts, alertKeys>>

NoBatch == [through |-> 0, last |-> 0, result |-> "none"]
NoFlush == [pc |-> "none", seen |-> 0]
NoJudge == [pc |-> "none", config |-> 0, through |-> 0, from |-> 0, last |-> 0, result |-> "none", ok |-> FALSE]

MonitorInit ==
  /\ mon = [enabled |-> TRUE, config |-> 0, pending |-> FALSE, owner |-> 0, through |-> 0, leaseOver |-> FALSE,
            batch |-> NoBatch, since |-> 0, last |-> 0]
  /\ recorded = 0
  /\ unobserved = FALSE
  /\ monTimer = 0
  /\ callbacks = {}
  /\ generation = 0
  /\ flush = NoFlush
  /\ judge = [j \in Analyses |-> NoJudge]
  /\ instance = 1
  /\ monFaults = 0
  /\ monConfigs = 0
  /\ batches = 0
  /\ judged = {}
  /\ findings = {}
  /\ alerts = {}
  /\ alertKeys = {}

history == <<judged, findings, alerts, alertKeys>>
MonFault == monFaults < MaxMonFaults /\ monFaults' = monFaults + 1

--------------------------------------------------------------------------------
(* Timers *)

\* scheduleGroupMonitorAfter: the timer that is armed is stopped.
Arm    == /\ generation' = generation + 1
          /\ monTimer' = generation + 1
NoTimer == UNCHANGED <<generation, monTimer>>

TimerFires ==
  /\ monTimer # 0
  /\ callbacks' = callbacks \cup {monTimer}
  /\ monTimer' = 0
  /\ UNCHANGED <<mon, recorded, unobserved, generation, flush, judge, instance, monFaults, monConfigs, batches, history>>

--------------------------------------------------------------------------------
(* Messages and configuration *)

\* A message of the group is written to the shared transcript ...
Capture ==
  /\ flush = NoFlush
  /\ ~unobserved
  /\ recorded < MaxMessages
  /\ mon.enabled
  /\ recorded' = recorded + 1
  /\ unobserved' = TRUE
  /\ UNCHANGED <<mon, monTimer, callbacks, generation, flush, judge, instance, monFaults, monConfigs, batches, history>>

\* ... and then reported to the monitor (observeGroupMonitor); when that fails the
\* update is processed again and finds its message recorded.
Observe ==
  /\ flush = NoFlush
  /\ unobserved
  /\ unobserved' = FALSE
  /\ IF mon.enabled THEN mon' = [mon EXCEPT !.pending = TRUE] /\ Arm
                    ELSE UNCHANGED mon /\ NoTimer
  /\ UNCHANGED <<recorded, callbacks, flush, judge, instance, monFaults, monConfigs, batches, history>>

Unowned(m) == [m EXCEPT !.owner = 0, !.through = 0, !.leaseOver = FALSE]

\* set_telegram_group_monitor: switched on, off, or given other instructions.
Configure ==
  /\ monConfigs < MaxConfigs
  /\ monConfigs' = monConfigs + 1
  /\ \E enabled \in BOOLEAN :
       LET reset == [Unowned(mon) EXCEPT !.batch = NoBatch, !.config = monConfigs + 1, !.enabled = enabled] IN
       mon' = IF ~enabled THEN [reset EXCEPT !.pending = FALSE]
              ELSE IF mon.enabled THEN [reset EXCEPT !.pending = @ \/ mon.through # 0]
              ELSE [reset EXCEPT !.pending = FALSE, !.since = recorded, !.last = 0]
  /\ UNCHANGED <<recorded, unobserved, monTimer, callbacks, generation, flush, judge, instance, monFaults, batches, history>>

\* The lease of an analysis that is gone.
MonLeaseEnds ==
  /\ mon.through # 0
  /\ ~mon.leaseOver
  /\ \A j \in Analyses : judge[j].pc = "none" \/ judge[j].through # mon.through
  /\ mon' = [mon EXCEPT !.leaseOver = TRUE]
  /\ UNCHANGED <<recorded, unobserved, monTimer, callbacks, generation, flush, judge, instance, monFaults, monConfigs, batches, history>>

--------------------------------------------------------------------------------
(* flushGroupMonitor *)

\* A timer that was replaced changes nothing.  An analysis that is alive is waited
\* for; one that is not is taken down, and its messages are pending again.
FlushBegins ==
  /\ flush = NoFlush
  /\ \E g \in callbacks :
       /\ callbacks' = callbacks \ {g}
       /\ IF g # generation THEN UNCHANGED <<mon, flush>> /\ NoTimer
          ELSE IF mon.enabled /\ mon.through # 0 /\ ~mon.leaseOver
          THEN UNCHANGED <<mon, flush>> /\ generation' = 1 /\ monTimer' = 1
          ELSE LET m == IF mon.enabled /\ mon.through # 0 THEN [Unowned(mon) EXCEPT !.pending = TRUE] ELSE mon IN
               /\ mon' = m
               /\ generation' = 0
               /\ monTimer' = monTimer
               /\ flush' = IF m.enabled /\ m.pending THEN [pc |-> "read", seen |-> m.config] ELSE NoFlush
  /\ UNCHANGED <<recorded, unobserved, judge, instance, monFaults, monConfigs, batches, history>>

Lowest == IF mon.last > 0 THEN mon.last ELSE mon.since
Upmost == IF mon.batch.last > 0 THEN mon.batch.last ELSE recorded
Least(a, b) == IF a < b THEN a ELSE b

Judges(j, state) == judge' = [judge EXCEPT ![j] = state]

\* The page is claimed, or found empty, unless the configuration changed since the
\* row was read; a page that cannot be read is retried.
FlushPage ==
  /\ flush.pc = "read"
  /\ flush' = NoFlush
  /\ LET end == Least(Lowest + PageSize, Upmost) IN
     \/ /\ MonFault
        /\ UNCHANGED <<mon, judge, batches>>
        /\ IF mon.enabled THEN Arm ELSE NoTimer
     \/ /\ mon.config # flush.seen
        /\ UNCHANGED <<mon, judge, batches, monFaults>>
        /\ IF mon.enabled /\ mon.pending THEN Arm ELSE NoTimer
     \/ /\ mon.config = flush.seen
        /\ end <= Lowest
        /\ mon' = [mon EXCEPT !.batch = NoBatch, !.since = recorded, !.pending = FALSE]
        /\ NoTimer
        /\ UNCHANGED <<judge, batches, monFaults>>
     \/ /\ mon.config = flush.seen
        /\ end > Lowest
        /\ \E j \in Analyses : judge[j] = NoJudge
        /\ LET j == CHOOSE i \in Analyses : judge[i] = NoJudge
               through == IF mon.batch.through # 0 THEN mon.batch.through ELSE batches + 1 IN
           /\ batches' = IF mon.batch.through # 0 THEN batches ELSE batches + 1
           /\ mon' = [mon EXCEPT !.owner = instance, !.through = through, !.leaseOver = FALSE, !.pending = FALSE,
                                 !.batch = [@ EXCEPT !.through = through, !.last = end]]
           /\ Judges(j, [pc |-> "judge", config |-> mon.config, through |-> through, from |-> Lowest + 1,
                         last |-> end, result |-> mon.batch.result, ok |-> FALSE])
        /\ NoTimer
        /\ UNCHANGED monFaults
  /\ UNCHANGED <<recorded, unobserved, callbacks, instance, monConfigs, history>>

--------------------------------------------------------------------------------
(* evaluateGroupMonitor *)

OwnsBatch(j, m) == m.enabled /\ m.owner = instance /\ m.through = judge[j].through

\* Mistake: the result is only kept in memory.
JudgeUnsaved(j) ==
  /\ judge[j].pc = "judge"
  /\ \E result \in {"alert", "quiet"} : Judges(j, [judge[j] EXCEPT !.pc = "facts", !.result = result])
  /\ UNCHANGED <<mon, recorded, unobserved, monTimer, callbacks, generation, flush, instance, monFaults, monConfigs, batches, history>>

\* The model judges the page, or the stored result is taken; an analysis whose batch
\* was taken away stops, and a new result is stored before it is used.
Judge(j) ==
  /\ judge[j].pc = "judge"
  /\ \/ MonFault /\ Judges(j, [judge[j] EXCEPT !.pc = "finish"]) /\ UNCHANGED mon
     \/ /\ UNCHANGED monFaults
        /\ IF ~OwnsBatch(j, mon) THEN Judges(j, [judge[j] EXCEPT !.pc = "finish", !.ok = TRUE]) /\ UNCHANGED mon
           ELSE \E result \in IF judge[j].result # "none" THEN {judge[j].result} ELSE {"alert", "quiet"} :
                  /\ Judges(j, [judge[j] EXCEPT !.pc = "facts", !.result = result])
                  /\ mon' = [mon EXCEPT !.batch.result = result]
  /\ UNCHANGED <<recorded, unobserved, monTimer, callbacks, generation, flush, instance, monConfigs, batches, history>>

PersistFacts(j) ==
  /\ judge[j].pc = "facts"
  /\ \/ MonFault /\ Judges(j, [judge[j] EXCEPT !.pc = "finish"]) /\ UNCHANGED findings
     \/ /\ findings' = findings \cup {<<judge[j].through, judge[j].result>>}
        /\ Judges(j, IF judge[j].result = "alert" THEN [judge[j] EXCEPT !.pc = "alert"]
                     ELSE [judge[j] EXCEPT !.pc = "finish", !.ok = TRUE])
        /\ UNCHANGED monFaults
  /\ UNCHANGED <<mon, recorded, unobserved, monTimer, callbacks, generation, flush, instance, monConfigs, batches,
                 judged, alerts, alertKeys>>

\* SendOnce under the key of the batch; a second attempt finds the first one's receipt.
Alert(j) ==
  /\ judge[j].pc = "alert"
  /\ \/ MonFault /\ Judges(j, [judge[j] EXCEPT !.pc = "finish"]) /\ UNCHANGED <<alertKeys, alerts>>
     \/ /\ Judges(j, [judge[j] EXCEPT !.pc = "finish", !.ok = TRUE])
        /\ alertKeys' = alertKeys \cup {judge[j].through}
        /\ alerts' = IF judge[j].through \in alertKeys THEN alerts
                     ELSE alerts \cup {<<judge[j].from, judge[j].config, judge[j].through>>}
        /\ UNCHANGED monFaults
  /\ UNCHANGED <<mon, recorded, unobserved, monTimer, callbacks, generation, flush, instance, monConfigs, batches,
                 judged, findings>>

\* Mistake: whoever ends an analysis moves the cursor.
FinishedByAnyone(j, m) == [Unowned(m) EXCEPT !.last = judge[j].last, !.batch = NoBatch, !.pending = TRUE]

\* Mistake: a failed analysis leaves its page behind.
FinishedUnretried(j, m) ==
  IF m.owner # instance \/ m.through # judge[j].through THEN m
  ELSE IF judge[j].ok THEN [Unowned(m) EXCEPT !.last = m.batch.last, !.batch = NoBatch, !.pending = TRUE]
  ELSE [Unowned(m) EXCEPT !.pending = FALSE]

\* finishGroupMonitorAnalysis: the cursor moves past an analysed page, or the page
\* stays to be retried; nothing when the batch is no longer this analysis's.
Finished(j, m) ==
  IF m.owner # instance \/ m.through # judge[j].through THEN m
  ELSE IF ~m.enabled THEN [Unowned(m) EXCEPT !.pending = FALSE]
  ELSE IF judge[j].ok THEN [Unowned(m) EXCEPT !.last = m.batch.last, !.batch = NoBatch, !.pending = TRUE]
  ELSE [Unowned(m) EXCEPT !.pending = TRUE]

FinishAnalysis(j) ==
  /\ judge[j].pc = "finish"
  /\ flush = NoFlush
  /\ Judges(j, NoJudge)
  /\ \/ MonFault /\ Arm /\ UNCHANGED <<mon, judged>>
     \/ /\ mon' = Finished(j, mon)
        /\ judged' = IF judge[j].ok /\ OwnsBatch(j, mon) THEN judged \cup judge[j].from..judge[j].last ELSE judged
        /\ IF mon'.enabled /\ mon'.pending THEN Arm ELSE NoTimer
        /\ UNCHANGED monFaults
  /\ UNCHANGED <<recorded, unobserved, callbacks, flush, instance, monConfigs, batches, findings, alerts, alertKeys>>

--------------------------------------------------------------------------------
(* Restart *)

\* What is in memory is lost; resumeGroupMonitors arms the timer of a monitor that
\* has something to do.
MonitorRestart ==
  /\ MonFault
  /\ instance' = instance + 1
  /\ flush' = NoFlush
  /\ judge' = [j \in Analyses |-> NoJudge]
  /\ callbacks' = {}
  /\ IF mon.enabled /\ (mon.pending \/ mon.through # 0) THEN generation' = 1 /\ monTimer' = 1
                                                        ELSE generation' = 0 /\ monTimer' = 0
  /\ UNCHANGED <<mon, recorded, unobserved, monConfigs, batches, history>>

MonitorNext ==
  \/ Capture \/ Configure \/ MonitorRestart
  \/ TimerFires \/ Observe \/ MonLeaseEnds \/ FlushBegins \/ FlushPage
  \/ \E j \in Analyses : Judge(j) \/ PersistFacts(j) \/ Alert(j) \/ FinishAnalysis(j)

\* Timers fire, callbacks get the mutex, statements and model calls return.
MonitorFairness ==
  /\ WF_monitorVars(TimerFires) /\ WF_monitorVars(Observe) /\ WF_monitorVars(MonLeaseEnds)
  /\ WF_monitorVars(FlushBegins) /\ WF_monitorVars(FlushPage)
  /\ \A j \in Analyses :
       /\ WF_monitorVars(Judge(j)) /\ WF_monitorVars(PersistFacts(j)) /\ WF_monitorVars(Alert(j))
       /\ WF_monitorVars(FinishAnalysis(j))

MonitorSpec == MonitorInit /\ [][MonitorNext]_monitorVars /\ MonitorFairness

--------------------------------------------------------------------------------
(* Properties *)

\* The cursor passes a message only when the page that holds it was analysed to the
\* end, whatever was reconfigured, retried or restarted in between.
CursorFollowsJudgement == mon.last > 0 => (mon.since + 1)..mon.last \subseteq judged

\* A batch is judged once: its facts come from one result, and under one configuration
\* its messages are alerted of at most once.
JudgedOnce ==
  /\ \A a, b \in findings : a[1] = b[1] => a = b
  /\ \A a, b \in alerts : a[1] = b[1] /\ a[2] = b[2] => a = b

\* The cursor passes only what was analysed to the end, a batch has one result, and nobody is
\* alerted of a message twice under one configuration (flushGroupMonitor,
\* evaluateGroupMonitor, finishGroupMonitorAnalysis).
BatchesAreExact == CursorFollowsJudgement /\ JudgedOnce

\* A message that was captured is analysed, or the monitor is switched off: no wake-up
\* is lost between the timers, the claims and a restart.
MonitorSettled == recorded > Lowest /\ mon.enabled => recorded \in judged
\* In the end what was captured is analysed (the wake-up and poll timers).
CapturedIsJudged == <>[]MonitorSettled
==============================================================================
