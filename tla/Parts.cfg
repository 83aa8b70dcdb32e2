CONSTANTS
    None = None
    NoOne = NoOne
    NoPost = NoPost
    Absent = Absent
    n1 = n1
    n2 = n2
    a = a
    b = b
    LocalSid = LocalSid
    b1 = b1
    g1 = g1
    g2 = g2
    h1 = h1
    k1 = k1
    k2 = k2
    k3 = k3
    d1 = d1
    d2 = d2
    d3 = d3
    q1 = q1
    v1 = v1
    Sid = {a, b}
    VaultServer = {s1}
    Host = {h1, h2}
    Admin = {x1}
    Client = {c1}
    ConsoleBeside = FALSE
    MaxKeys = 2
    MaxMoves = 1
    FLOW_SECS = 1
    Skew = 1
    MAX_SPENT = 4
    Validity = {1}
    Delay = 1
    Post = {p1, p2}
    MaxClock = 2
    MaxRequests = 2
    MaxAnswers = 2
    MaxStarts = 2
    FirstYears = {0, 1900, 1968, 2000, 2100}
    Years = 2
    DirAccount = {d1, d2, d3}
    Own = {d1, d2}
    Name = {n1, n2}
    TypedName = {n1}
    Urls = 2
    Version = {1, 2}
    MaxWrites = 3
    Conn = {w1, w2, w3}
    max_connections = 2
    Build = {1, 2, 3}
    MaxChanges = 1
    MaxCopySeconds = 2
    MaxCopies = 3
    MaxEntries = 4
    GateRequest = {q1, q2}
    MAX_PENDING = 1
    PENDING_TTL = 1
    KEEP_BACKUPS = 1
    MaxImports = 2
    MaxUploads = 2
    MaxSeconds = 1
    MaxCrashes = 1
    Process = {f1, f2}
    Dir = {v1, v2}
    Copy = {y1, y2}
    ServerName = {n1, n2}
    GroupName = {g1, g2}
    ServerHost = {h1}
    Port = {22}
    DEFAULT_PORT = 3389
    MaxServers = 2
    MaxGroups = 2
    Forms <- MCForms
    Rows <- MCRows
    MaxLines = 2
    PageUser = {u1, u2}
    NOTICES_KEPT = 2
    MaxNotices = 3
    Local = {t1, t2, t3}
    Address = {}
    Limit = 2
    WINDOW = 3
    BindTime = 1
    Permits = 1
    MaxTime = 5
    MAX_PDU = 3
    MaxChunk = 2
    MaxRead = 5
    Pinned <- MCPinned
    OtherCert = k3
    MaxChildren = 4
    MaxSigs = 2
SPECIFICATION Spec
CHECK_DEADLOCK FALSE
INVARIANTS
    HandedToItsOwner
    
    AcceptedOnce
    AcceptedIsCovered
    CalendarAgrees
    LocalGuessesBounded
    
    ReplacedIsBackedUp
    
    WholeIsOnePdu
    
    PlacesAccounted
    RollbackKept
    
    
    
    
    StatusIsTrue
PROPERTIES
    UnusableLosesSessions
    WaitingEnds
    ImportIsAsWritten
