SPECIFICATION Spec
CONSTANTS
    u1 = u1
    u2 = u2
    p1 = p1
    usr = usr
    userNs = userNs
    projectNs = projectNs
    None = None
    Scopes = {u1, p1}
    UserScopes = {u1}
    UserOf <- MCUserOf
    NamespaceOf <- MCNamespaceOf
    Secrets = {k1, k2, k3, k4}
    Procs = {r1, r2}
    Ops = {"ensure", "bootstrap", "create", "renew", "rotate"}
    Faults = {"stop", "ignored"}
SYMMETRY Symmetry
INVARIANTS
    RecordedTokensLive
CHECK_DEADLOCK FALSE
