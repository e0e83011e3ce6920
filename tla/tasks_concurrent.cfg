SPECIFICATION Spec
CONSTANTS
    a = a
    b = b
    v = v
    w1 = w1
    w2 = w2
    TaskId = {1, 2, 3}
    File = {1}
    Page = {1}
    User = {a, v}
    Annotator = {a}
    Validator = {v}
    Owner = {}
    ValidationType = "hierarchical"
    Coverage = 1
    Worker = {w1, w2}
    Interleave = TRUE
    AdminOps = {"post", "update", "delete", "delete_batch", "distribute", "unassigned", "start"}
    MaxAdmin = 1
SYMMETRY Threads
INVARIANTS
    TypeOK
    DistributedPagesMatchTasks
CHECK_DEADLOCK FALSE
