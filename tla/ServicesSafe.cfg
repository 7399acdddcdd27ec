SPECIFICATION ServicesSpec
CONSTANTS
  Services = {"bus", "outbox", "inbox", "schedules", "deliveries", "automation", "reminders", "monitor", "knowledge", "files"}
  p1 = p1
  p2 = p2
  Facts = {"f", "s"}
  StableFacts = {"s"}
  MaxEvents = 1
  MaxReports = 2
  MaxEventAttempts = 2
  MaxHandlers = 2
  MaxUpdate = 3
  ActiveUpdates = {1, 3}
  MaxApplications = 3
  MaxOutboxAttempts = 2
  Gateways = {p1, p2}
  MaxInbound = 3
  InboundKinds = {"textA", "album"}
  MaxInFlight = 2
  MaxInboundAttempts = 2
  People = {"o", "p"}
  Owner = "o"
  ScheduleKinds = {"once", "daily", "repeat"}
  MaxInstant = 3
  MaxEdits = 2
  DaysOff = {2}
  Firers = {1, 2}
  MaxRows = 1
  MaxChanges = 2
  Modes = {"message", "ai"}
  Couriers = {1, 2}
  MaxRowAttempts = 2
  RunKinds = {"report", "action", "silent"}
  Runners = {1, 2}
  MaxRunAttempts = 2
  Items = {"task", "goal"}
  RemCouriers = {p1, p2}
  EscalateAfter = 2
  MaxDeadlines = 2
  MaxNudges = 2
  MaxRemFaults = 0
  MaxMessages = 2
  PageSize = 1
  Analyses = {1, 2}
  MaxConfigs = 1
  MaxMonFaults = 1
  Entries = {1, 2}
  EmbedSlots = {1}
  MaxWrites = 2
  MaxSetbacks = 1
  Documents = {1}
  Indexers = {p1, p2}
  MaxIndexAttempts = 2
  MaxUpgrades = 1
  MaxIndexFaults = 2
SYMMETRY Alike
INVARIANTS
  MarkedIsFindable
 BusKeepsFaith
 MembershipHolds
 ConversationInLine
 FiredMeansQueued
 ToldOnceAndWelcome
 RunsAreHonest
 RemindersAreTrue
 BatchesAreExact
 HealthyPointsStay
PROPERTIES
 FiresTheCurrentPlan
CHECK_DEADLOCK FALSE
