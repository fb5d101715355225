SPECIFICATION Spec
CONSTANTS
    w1 = w1  w2 = w2  h1 = h1  h2 = h2  r1 = r1
    Workers = {w1, w2}
    Helpers = {h1, h2}
    Runtimes = {r0, r1}
    InitialRuntime = r0
    Limit = 1
    MaxSlices = 2
    Costs = {1}
    Mixes <- AllMixes
INVARIANTS
    WorkIsSafe
PROPERTY
    CallsReturn
CHECK_DEADLOCK FALSE
