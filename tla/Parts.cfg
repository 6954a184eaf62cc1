SPECIFICATION PartsSpec
CHECK_DEADLOCK FALSE
CONSTANTS
    Callers = {g1, g2, g3}
    Registered = {u1}
    NoDsn = {u3}
    Unknown = {u4}
    MaxHandles = 3
    Fallback = dsn
    None = None
    ReconnectInitial = 1
    ReconnectMax = 60
    MaxRefused = 8
    Terminals = {t1, t2}
    ConnNames = {1, 2}
    ConnUuids = {1, 2}
    MaxCommands = 2
    MaxAgents = 3
    MaxAgentCommands = 3
    MaxK8sRuns = 3
    MaxPolls = 1
    Hosts = {"domain"}
    Writers = {w1, w2}
    Fields = {"vm", "agent"}
    MaxStoreOps = 4
    Updaters = {x1, x2}
    Newest = 3
    ShopApi = ShopApi
    BlogApi = BlogApi
    Projects = {ShopApi, BlogApi}
    AppUser <- DistinctUsers
    MaxBoxCommands = 3
    MaxRuns = 2
    MaxPieces = 4
    Client = Client
    Server = Server
    InClient = InClient
    InServer = InServer
    Paths = {InClient, InServer}
    Roots = {".", Client, Server}
    Flat = "."
    RootOf <- PathRoots
    MaxGenerations = 2
SYMMETRY Symmetry
VIEW View
INVARIANTS OneHandlePerConnection HandedOutIsOpen NoHandleLost
    RefusalsSlowDown
    BillingIsTold LastReportIsTrue
    DeploysWhatItGenerated
    DSNSurvives
    NoOrphans CredsMatch PublishedUnderOwnAgent
    RecordKeepsWhatIsKnown
    LossIsAuthorized SaysWhatRan
    AlwaysACLI
    VMAnnounced SaidIsNotBehind
    NeverLockedOut TenantIsServed
    SplitsAsRead VerbIsSeen
    UserWorkSurvives NothingStale
PROPERTIES ErrorIsOwn
