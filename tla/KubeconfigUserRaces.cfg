SPECIFICATION Spec
CONSTANTS
    u1 = u1
    u2 = u2
    p1 = p1
    usr = usr
    userNs = userNs
    projectNs = projectNs
    None = None
    Scopes = {u1}
    UserScopes = {u1}
    UserOf <- MCUserOf
    NamespaceOf <- MCNamespaceOf
    Secrets = {k1, k2, k3}
    Procs = {r1, r2}
    Ops = {"ensure", "bootstrap", "renew", "rotate", "delete", "deleteUser"}
    Faults = {"stop", "lookup", "ignored"}
SYMMETRY Symmetry
INVARIANTS
    RotationSupersedes
    StoredTokensWereIssued
CHECK_DEADLOCK FALSE
