SPECIFICATION FairSpec
CONSTANTS
    r1 = r1
    r2 = r2
    r3 = r3
    u1 = u1
    u2 = u2
    p1 = p1
    Malformed = Malformed
    None = None
    Runner = {r1, r2, r3}
    Mortal = {r1}
    Unit = {u1, u2}
    Partition = {p1}
    Log <- TwoUnits
    Faults = {"crash"}
INVARIANTS
    CommittedUnitsAreStored
PROPERTIES
    RunsOneAtATime
    InProgressUnitsFinish
CHECK_DEADLOCK FALSE
