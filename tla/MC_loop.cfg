SPECIFICATION FairSpec
CONSTANTS
    e1 = e1
    e2 = e2
    e3 = e3
    Events = {e1, e2, e3}
    DueTimes <- MCDueTimes
    Null = Null
    Horizon = 2
    DefaultSleep = 1
INVARIANTS NoCrossLinks NoLostWakeup SleepsUntilDue
PROPERTIES ImplementsDelayedTasks EventsRun QuitStops
CHECK_DEADLOCK FALSE
