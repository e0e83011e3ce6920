SPECIFICATION Spec
CONSTANTS
    Parts = {"queries", "revisions", "redistribution", "categories", "agreement", "search",
             "managed", "restarted", "extensive"}
    s1 = s1
    s2 = s2
    w1 = w1
    CategoryId = {"a", "b", "c"}
    CategorySession = {s1, s2}
    SearchedRoots = {"a", "b"}
    MaxCategoryOps = 5
SYMMETRY Interchangeable
INVARIANTS
    ManifestIsCurrent
    ReadersAgree
    EveryPageIsGiven
    ChangesKeepThePages
    CacheIsCurrent
    
    TasksAreCounted
PROPERTIES
    RestartsKeepValidationClosed
CHECK_DEADLOCK FALSE
