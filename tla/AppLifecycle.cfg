\* Requests on two apps of a project, with faults; MaxRequests bounds a behaviour.
SPECIFICATION Spec
CONSTANTS
    a1 = a1
    a2 = a2
    h1 = h1
    None = None
    Apps = {a1, a2}
    Hosts = {h1}
    Refs = {"", "c1"}
    Specs <- MCSpecs
    CertManager = TRUE
    MaxLB = 1
    q1 = q1
    q2 = q2
    Procs = {q1, q2}
    Ops = {"deploy", "delete", "scale", "image", "restart", "attachConfig", "detachConfig", "attachSecret", "detachSecret", "webhook", "status", "list", "maintenance"}
    Faults = {"stop", "ignored", "list"}
    MaxRequests = 3
    MaxFaults = 1
SYMMETRY Symmetry
INVARIANTS
    RequestSettles
    LoadBalancerBound
    DnsTracksApp
    DeletedStaysDeleted
PROPERTY UpdatesIsolated
CHECK_DEADLOCK FALSE
