\* Two workers that keep up with the intervals, a job without handler, two faults.
SPECIFICATION FairSpec
CONSTANTS
    w1 = w1
    w2 = w2
    None = None
    Workers = {w1, w2}
    Jobs = {"purge", "scan", "repair"}
    Handled = {"purge", "scan"}
    Overload = FALSE
    MaxFaults = 2
INVARIANTS
    NoOverlap
    RunsAreRecorded
PROPERTIES
    StaleJobRecovered
    EveryJobRuns
