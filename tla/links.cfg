SPECIFICATION FairSpec
CONSTANTS
    m1 = m1
    m2 = m2
    a1 = a1
    a2 = a2
    b1 = b1
    Machines = {m1, m2}
    Threads = {a1, a2, b1}
    MachineOf <- MCMachineOf
    Links <- MCLinks
    FoundOn <- MCFoundOn
    Owner <- MCOwner
    BatchSize = 1
    MaxFailures = 1
INVARIANT BufferBounded
PROPERTY KeepsLinkPromise
PROPERTY BatchEnds
CHECK_DEADLOCK FALSE
