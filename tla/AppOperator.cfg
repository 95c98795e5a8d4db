\* One app deployed and deleted, nothing fails, the operator reconciles.
SPECIFICATION ComposedSpec
CONSTANTS
    None = None
    Apps = {a1}
    Hosts = {h1}
    Refs = {""}
    Specs <- MCSpecs
    CertManager = TRUE
    MaxLB = 1
    Procs = {q1}
    Ops = {"deploy", "delete"}
    Faults = {}
    MaxRequests = 2
    MaxFaults = 0
INVARIANT DeleteRemovesWorkload
CHECK_DEADLOCK FALSE
