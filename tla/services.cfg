\* Two requests at a time in each of the services.
CONSTANTS
    p1 = p1
    p2 = p2
    b1 = b1
    b2 = b2
    x1 = x1
    x2 = x2
    Cases = {"c1"}
    Testers = {p1, p2}
    QuestionLists <- QuestionListsDef
    TopK = 2
    MaxBatches = 3
    MaxRuns = 1
    NoCase = NoCase
    Evaluators = {p1, p2}
    Metrics = {"faithfulness", "context_recall"}
    NeedReference = {"context_recall"}
    SpecLists <- SpecListsDef
    MaxSamples = 2
    MaxEvaluations = 2
    Codes = {1, 2, 3}
    Guest = 2
    Seeded = {1, 2}
    Users = {"u1"}
    KBs = {b1, b2}
    NoCode = NoCode
    MaxAdmin = 4
    ModelIds = {1, 2, 3}
    TypeOf <- TypeOfDef
    Params = {"p"}
    Registry = TRUE
    Admins = {p1, p2}
    MaxChanges = 3
    Keep = Keep
    Members = {"super", "ann"}
    OldRoles = {{"super_admin"}, {"user", "team"}}
    Names = {"super_admin", "admin", "guest", "user", "team"}
    Builtin = {"super_admin", "admin", "guest"}
    Permissions <- AllCodes
    CodeLists = {{}, {"user:write", "role:write"}}
    BuiltinCodes <- BuiltinCodesDef
    RankOf <- RankDef
    LevelOf <- LevelDef
    Successor <- SuccessorDef
    MaxAccountRequests = 3
    Callers = {p1, p2}
    Clients = {"client"}
    Sources = {"s1"}
    Keys = {"k1"}
    NoKey = "none"
    Contents = {x1, x2}
    Tables <- TablesDef
    Header = 1
    MaxBytes = 3
    MaxRows = 3
    MaxFiles = 2
    Writers = {p1, p2}
    MaxCount = 1
    RetentionDays = 0
    MaxSnapshots = 3
    MaxDay = 1
    Analysts = {p1, p2}
    CacheQuestions = {"c1", "c2", "c3"}
    DocumentLimit = 1
    HistoryLimit = 1
    MaxAnalyses = 3
    Observers = {p1, p2}
    WindowDays = 2
    KeyDays = 4
    MaxShadowDay = 7
    MaxOutages = 2
    NoDay = NoDay
    Faqs = {x1, x2}
    Checkers = {p1, p2}
    DailyLimit = 2
    MaxWaiting = 3
    MaxToday = 2
    MaxDecisions = 2
    RatedMessages = {b1, b2}
    RatedFaqs = {"f1"}
    AnswerFrom <- AnswerFromDef
    NoFaqUsed = NoFaqUsed
    Raters = {p1, p2}
    RejectLimit = 2
    MaxRatings = 4
SPECIFICATION Spec
SYMMETRY Symmetry
INVARIANTS ServicesSound ListsWhole AllOrNothing  UncontestedDefault OneSuper
           ExternalKept CleanupKept RoleCachesKept VerifyKept FeedbackKept
PROPERTIES SettledStays  
\* Every part is bounded and may stop.
CHECK_DEADLOCK FALSE
