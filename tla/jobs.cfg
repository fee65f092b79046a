CONSTANTS
    Replicas = {a}
    Jobs = {j1, o1}
    Others = {o1}
    Outcomes = {"failed"}
    MaxJobs = 1
    MaxDisturbances = 2
SPECIFICATION FairSpec
CHECK_DEADLOCK FALSE
INVARIANTS
    OrderExact
    NothingInvented
    ConfirmedIsThere
PROPERTIES
    EndIsReported
    EndIsRecorded
