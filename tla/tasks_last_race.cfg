SPECIFICATION Spec
CONSTANTS
    a = a
    b = b
    v = v
    w1 = w1
    w2 = w2
    TaskId = {1, 2}
    File = {1}
    Page = {1}
    User = {a, b}
    Annotator = {a, b}
    Validator = {}
    Owner = {}
    ValidationType = "extensive_coverage"
    Coverage = 2
    Worker = {w1, w2}
    Interleave = TRUE
    AdminOps = {}
    MaxAdmin = 0
SYMMETRY Threads
INVARIANTS
    JobFinishesWithItsTasks
CHECK_DEADLOCK FALSE
