SPECIFICATION FairSpec
CONSTANTS
    c1 = c1  c2 = c2  c3 = c3  o1 = o1  o2 = o2  b1 = b1  k = k  NoKey = NoKey
    Calls = {c1, c2}
    Waits = {c1}
    Batches = {b1}
    Ops = {o1}
    KeyOf <- MCKeyOf
    BatchOf <- MCBatchOf
    MaxInflight = 2
    MaxWorkers = 2
    ThreadsMayFail = TRUE
INVARIANTS GateSound StartedGivesBack
PROPERTIES CallersReturn
CHECK_DEADLOCK FALSE
