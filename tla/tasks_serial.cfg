SPECIFICATION Spec
CONSTANTS
    a = a
    b = b
    v = v
    w1 = w1
    w2 = w2
    TaskId = {1, 2, 3, 4, 5}
    File = {1}
    Page = {1, 2}
    User = {a, b, v}
    Annotator = {a, b}
    Validator = {v}
    Owner = {}
    ValidationType = "hierarchical"
    Coverage = 1
    Worker = {w1}
    Interleave = FALSE
    AdminOps = {}
    MaxAdmin = 0
INVARIANTS
    FirstRoundUnblocks
    ValidatedPagesWereApproved
    OneValidatorPerPage
    LoadIsRemainingWork
    JobFinishesWithItsTasks
PROPERTIES
    FailedPagesAreReworked
    JobFinishedOnlyWhenAllFinished
    ValidationStartsAfterAnnotation
CHECK_DEADLOCK FALSE
