SPECIFICATION Spec
CONSTANTS
    u1 = u1
    u2 = u2
    p1 = p1
    usr = usr
    userNs = userNs
    projectNs = projectNs
    None = None
    Scopes = {p1}
    UserScopes = {}
    UserOf <- MCUserOf
    NamespaceOf <- MCNamespaceOf
    Secrets = {k1, k2, k3}
    Procs = {r1}
    Ops = {"create", "ensure", "delete"}
    Faults = {}
INVARIANT
    EnsureNeverFails
CHECK_DEADLOCK FALSE
