SPECIFICATION Spec
CONSTANTS
    p1 = p1
    p2 = p2
    n1 = n1
    n2 = n2
    small = small
    Default = Default
    None = None
    Quotas = {Default, small}
    Projects = {p1, p2}
    NamespaceOf <- SameName
    UserNamespace = n2
    Procs = {a}
    Ops = {"create"}
    Faults = {}
INVARIANT ManyProjectsPerUser
CHECK_DEADLOCK FALSE
