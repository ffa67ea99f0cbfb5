SPECIFICATION RequestsSpec
CONSTANTS
  Papers = {p3, p4}
  Walkers = {w1, w2}
  Nowhere = Nowhere
  MaxSteps = 2
  Readers = {k1, k2}
  MaxCards = 1
  MaxShown = 1
  MaxCaptured = 1
  Refs = {1}
  NoRef = NoRef
  Importers = {j1, j2}
  Payloads = {"copilot"}
  MaxEntries = 2
  MaxImported = 2
  Visits = {v1, v2}
  MaxTokens = 2
  MaxGrants = 1
  FullLife = 1
  OnboardingLife = 2
  MaxNow = 1
  MaxChanges = 2
  Forms = {f1, f2}
  OtpMax = 1
  MailLimit = 1
  MaxCodes = 2
  Agents = {g1}
  Own = {o1, o2}
  Foreign = {o3}
  Calls = {c1, c2}
  NoId = NoId
  Facts = {1, 2}
  Recent = {2}
  Turns = {t1, t2}
  TopK = 1
  ContextCap = 1
  RecentLimit = 1
  MaxSalience = 2
  Usual = 1
  Floor = 1
  MaxUses = 2
  MaxEdits = 1
  Questions = {b1, b2}
  NoQuestion = NoQuestion
  Chats = {h1, h2}
  Rounds = {n1, n2, n3}
  NoHistory = NoHistory
  NoChat = NoChat
  Accounts = {x1, x2}
  Updates = {y1, y2}
  Nobody = Nobody
  Subjects = {z1}
  Names = {m1, m2}
  DefaultName = m1
  Hashes = {2}
  Weights = {1}
  MaxTrials = 2
  MaxVariants = 3
  Topics = {e1, e2, e3}
CONSTRAINTS
  OneKind
  FewCodes
SYMMETRY Symmetric
CHECK_DEADLOCK FALSE
INVARIANTS
  JourneyIsAChain
  ActedOnIsNotNew
  ImportedExactlyOnce
  EndedSessionsStayEnded
  FewCodesWork
  LedgerExplains
  DeletedIsNotRecalled
  EveryUseCounted
  AnsweredOnce
  LeavingStopsStreams
  TurnsSeeTheirPast
  AnAdminRemains
  VariantIsKept
  ClustersAreComponents
