CONSTANTS
    Campaigns = {k1}
    Recipients = {p1, p2}
    Callers = {u1}
    Scheduler = Scheduler
    None = None
    MaxRuns = 2
SPECIFICATION FairSpec
CHECK_DEADLOCK FALSE
INVARIANTS
    ScheduledOnce
    OneSendPerRun
    FinalMeansTried
    RowsSettled
PROPERTIES
    DueIsRun
    RunningEnds
