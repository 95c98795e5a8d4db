SPECIFICATION ControllersSpec
CONSTANTS
    img = img
    r1 = r1
    None = None
    Apps = {web, api}
    Sources <- SomeSources
    MaxApps = 1
    MaxUid = 2
    MaxGen = 2
    MaxFaults = 1
    NoTenant = NoTenant
    Tenants = {acme, globex}
    Namespaces = {n1, n2}
    NRoles = 2
    MaxChanges = 4
    MaxTenantFaults = 1
    UsagePods <- SomePods
    Subjects <- SomeSubjects
    MaxHour = 1
    MaxUsageFaults = 1
    Absent = Absent
    NCrds = 2
    Manifests <- SomeManifests
    MaxBootFaults = 1
    MaxCrdWrites = 1
INVARIANTS
    ReadyMeansRunning 
    TenantsPayForTheirApps InstalledBeforeUse TrailMatchesCluster
PROPERTIES
    AppsConverge TenantsProvisioned UsageIsRecovered ManagerIsStarted
    UsageLedgerKept SiteLabelsSurvive
CHECK_DEADLOCK FALSE
