\* Two overlapping invocations, two targets, three attempts, one fault.
SPECIFICATION FairSpec
CONSTANTS
    w1 = w1
    w2 = w2
    e1 = e1
    t1 = t1
    t2 = t2
    None = None
    Runners = {w1, w2}
    Events = {e1}
    Targets = {t1, t2}
    Types = {"object.created"}
    MaxAttempts = 3
    Limit = 2
    MaxFaults = 1
INVARIANTS
    RetryBudget
    NoDoubleSend
    DeliveredWasReceived
PROPERTIES
    HeldDeliveriesSettle
