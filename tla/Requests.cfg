\* Small instances of what answers requests; see MCRequests.
SPECIFICATION RequestsSpec
CONSTANTS
    ClusterIds = {c1, c2}
    ClusterNames = {n1, n2}
    Targets = {t1}
    NObjects = 2
    Callers = {k1, k2}
    CallOps = {"register", "update", "check", "checkAll", "tick"}
    MaxCalls = 3
    Nil = Nil
    V4 = {v4a, v4b}
    V6 = {v6a}
    DnsWorkers = {w1, w2}
    MaxDnsCalls = 3
    MaxRows = 3
    PageLimit = 1
    EventKinds = {"a", "b"}
    IngestLimit = 2
    MaxBatch = 3
    u1 = u1
    p1 = p1
    CredNames = {n}
    CredUsers = {u1, u2}
    CredProjects = {p1}
    OwnerOf <- SomeOwner
    Registries = {r1}
    AnyRegistry = AnyRegistry
    CredCallers = {1, 2}
    MaxCredCalls = 3
    JsonKeys = {"image", "env", "x"}
    Documents <- SomeDocuments
    Null = Null
    Source = "image"
    MaxTemplates = 1
    MaxToggles = 2
    LogLines = {"x", "y"}
    MaxLog = 5
    MaxTail = 3
    Global = {"app", "audit"}
    MaxReopens = 2
    MaxRenames = 1
    MaxSegment = 3
    Objects <- SomeNames
    Kind <- SomeKinds
    TenantLabels = {t1, t2}
    NoLabel = NoLabel
    MaxAdmissions = 3
    RegistryHosts <- SomeHosts
    HostPatterns <- SomeHostPatterns
    Repos <- SomeRepos
    RepoPatterns <- SomeRepoPatterns
    Unset = Unset
    Bad = Bad
INVARIANTS
    RegistrationAtomic UnhealthyWasObserved 
    DnsCallSettles
    ReleaseWalkComplete  
     
    CallerWinsByPath
      TailIsLastLines
    
    RefsStayInTenant 
CHECK_DEADLOCK FALSE
