SPECIFICATION RequestsSpec
CONSTANTS
  Requests = {"conversation", "transcript", "uploads", "analyses", "rights", "joining", "tokens", "runs", "learning",
              "campaign", "reviews", "changes", "lines", "signals",
              "stream"}
  p1 = p1
  p2 = p2
  SourceKeys = {"m1", "m2"}
  GatedTools = {"t", "u"}
  Plans <- MessagePlans
  MaxTurnAttempts = 2
  Processes = {p1, p2}
  MaxTranscript = 8
  CompactKeep = 3
  CompactMaxFold = 3
  CompactMinFold = 1
  CompactAlign = 2
  HistoryLimit = 4
  Folders = {1, 2}
  ApiRefs = {"k"}
  ChatRefs = {"m"}
  RunRefs = {"w"}
  Batch = {}
  Uploaders = {p1, p2}
  MaxUploads = 3
  MaxFiles = 2
  MaxAnalyses = 2
  MaxFileFaults = 1
  Humans = {"r", "a", "b"}
  Workers = {"w"}
  Owner <- OwnedByA
  Founders = {"r"}
  Rights <- GrantedRights
  All = "_all"
  MaxRows = 3
  MaxCalls = 1
  Newcomers = {"n1", "n2"}
  HttpClients = {"h"}
  Groups = {"g1", "g2"}
  InviteAsks = {"i"}
  Devices = {1, 2}
  MaxInvites = 2
  MaxTokens = 3
  RunIds = {p1, p2}
  Engines = {"cli", "builtin", "command"}
  Signatures = {p1, p2}
  AuditInterval = 2
  MaxStalledTurns = 2
  MaxRejections = 2
  MaxSilentTurns = 2
  MaxTurns = 4
  MaxJobs = 2
  Messages = {"m"}
  Commanding = {"m"}
  Findings = {"rule", "rule2"}
  Title <- OneRule
  Miners = {p1, p2}
  Reviewers = {"s"}
  MaxMining = 2
  MaxCandidates = 2
  MaxEntries = 2
  MaxFound = 1
  Members = {"x", "y"}
  Required = {"f"}
  Askers = {p1, p2}
  MaxCampaignCalls = 3
  Manager = "m"
  People = {"h", "r"}
  Robots = {"w"}
  Rosters <- DeskRosters
  Desks = {p1, p2}
  MaxDeskCalls = 3
  MaxDeskRuns = 3
  Pushers = {p1, p2}
  MaxLines = 3
  MaxQueued = 2
  CancelSlots = 1
  MaxStops = 1
  Parts = 2
  Drafts = 2
  MaxMessages = 4
  MaxHandlings = 2
SYMMETRY Alike
INVARIANTS
  RepliesAreSafe
  ContextIsFaithful
  FilesAreKept
  DelegationsAreRooted
  CredentialsAreSafe
  WorkIsHonest
PROPERTIES
  EndedTurnsStayEnded
CHECK_DEADLOCK FALSE
