------------------------------ MODULE MCServices -------------------------------
(* The services that must get their work done, one at a time.  They share no    *)
(* variable; "active" says which one runs.  At the start none of the others has *)
(* work, so that their fairness asks nothing of them.  The inbox handles a      *)
(* third message once.                                                          *)
EXTENDS EventBus, DomainOutbox, TelegramInbox, Schedules, ScheduleDeliveries, AutomationRuns,
        Reminders, GroupMonitor, Knowledge, FileIndex, TLC

CONSTANTS
  Services, \* the services of the instance
  p1, p2    \* processes

VARIABLE active     \* the one that runs

\* What a service varies at its start is fixed in the runs of the others.
Plain == /\ active # "deliveries" => rowMode = "ai"
         /\ active # "automation" => runKind = "action"
         /\ active # "reminders" => item.kind = "goal"

ServicesInit ==
  /\ active \in Services
  /\ BusInit /\ OutboxInit /\ InboxInit /\ SchedulesInit
  /\ DeliveriesInit /\ AutomationInit /\ RemindersInit /\ MonitorInit /\ KnowledgeInit
  /\ FileIndexInit
  /\ Plain

servicesVars == <<active, busVars, outboxVars, inboxVars, scheduleVars, deliveryVars, automationVars,
                  reminderVars, monitorVars, knowledgeVars, fileIndexVars>>

ServicesNext ==
  /\ UNCHANGED active
  /\ \/ active = "bus" /\ BusNext
     \/ active # "bus" /\ UNCHANGED busVars
  /\ \/ active = "outbox" /\ OutboxNext
     \/ active # "outbox" /\ UNCHANGED outboxVars
  /\ \/ active = "inbox" /\ InboxNext /\ \A u \in Inbound : u > 2 => inbound'[u].attempts <= 1
     \/ active # "inbox" /\ UNCHANGED inboxVars
  /\ \/ active = "schedules" /\ SchedulesNext
     \/ active # "schedules" /\ UNCHANGED scheduleVars
  /\ \/ active = "deliveries" /\ DeliveriesNext
     \/ active # "deliveries" /\ UNCHANGED deliveryVars
  /\ \/ active = "automation" /\ AutomationNext
     \/ active # "automation" /\ UNCHANGED automationVars
  /\ \/ active = "reminders" /\ RemindersNext
     \/ active # "reminders" /\ UNCHANGED reminderVars
  /\ \/ active = "monitor" /\ MonitorNext
     \/ active # "monitor" /\ UNCHANGED monitorVars
  /\ \/ active = "knowledge" /\ KnowledgeNext
     \/ active # "knowledge" /\ UNCHANGED knowledgeVars
  /\ \/ active = "files" /\ FileIndexNext
     \/ active # "files" /\ UNCHANGED fileIndexVars

ServicesSpec ==
  /\ ServicesInit /\ [][ServicesNext]_servicesVars
  /\ BusFairness /\ OutboxFairness /\ InboxFairness /\ SchedulesFairness
  /\ DeliveriesFairness /\ AutomationFairness /\ RemindersFairness /\ MonitorFairness
  /\ KnowledgeFairness /\ FileIndexFairness


\* The processes that drain an outbox, send reminders or index files are alike.
Alike == Permutations({p1, p2})
================================================================================
