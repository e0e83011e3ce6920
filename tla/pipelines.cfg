SPECIFICATION Spec
CONSTANTS
    Task = {1, 2}
    Step = {"a", "b", "c"}
    Pipelines <- MCPipelines
    Outcomes = {"result", "empty", "error"}
    MaxRetries = 2
    Faults = {"crash", "send", "commit", "webhook", "token", "merge", "file", "repeat", "delete", "retries"}
    MaxFaults = 1
INVARIANTS
    TypeOK
    MergedResultsAreComplete
    JobToldOutcome
PROPERTIES
    EndedTasksStay
    StepsInOrder
    TasksEnd
CHECK_DEADLOCK FALSE
