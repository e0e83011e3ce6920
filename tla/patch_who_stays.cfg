SPECIFICATION Spec
CONSTANTS
    Parts = {"redistribution"}
    s1 = s1
    s2 = s2
    w1 = w1
    CategoryId = {"a", "b", "c"}
    CategorySession = {s1, s2}
    SearchedRoots = {"a", "b"}
    MaxCategoryOps = 5
PROPERTY WhoStaysKeepsHisWork
CHECK_DEADLOCK FALSE
