SPECIFICATION Spec
CONSTANTS
    p1 = p1
    p2 = p2
    n1 = n1
    n2 = n2
    small = small
    Default = Default
    None = None
    Quotas = {Default, small}
    Projects = {p1}
    NamespaceOf <- SameName
    UserNamespace = n2
    Procs = {a}
    Ops = {"create", "suspend", "quota"}
    Faults = {}
INVARIANT SuspensionHolds
CHECK_DEADLOCK FALSE
