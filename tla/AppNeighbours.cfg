SPECIFICATION Spec
CONSTANTS
    img = img
    r1 = r1
    None = None
    Apps = {web, api}
    Sources <- SomeSources
    MaxApps = 2
    MaxUid = 2
    MaxGen = 2
    MaxFaults = 0
INVARIANT ReadyMeansRunning
CHECK_DEADLOCK FALSE
