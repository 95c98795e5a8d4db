SPECIFICATION Spec
CONSTANTS
    p1 = p1
    p2 = p2
    n1 = n1
    n2 = n2
    small = small
    Default = Default
    None = None
    Quotas = {Default, small}
    Projects = {p1, p2}
    NamespaceOf <- SameName
    UserNamespace = n2
    Procs = {a, b}
    Ops = {"create", "suspend", "unsuspend", "quota", "delete", "deleteUser", "maintenance"}
    Faults = {"stop", "ignored"}
SYMMETRY Symmetry
INVARIANTS LimitsMatchRow SoloRequestSettles 
CHECK_DEADLOCK FALSE
