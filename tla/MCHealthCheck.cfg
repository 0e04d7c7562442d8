\* Three runs, three changes of the world, one fault.  Two failures or slow
\* requests make a check critical; an alert is repeated after two ticks.
SPECIFICATION HealthSpec
CHECK_DEADLOCK FALSE
CONSTANTS
    r1 = r1
    r2 = r2
    None = None
    Calls = {r1, r2}
    Services <- MCServices
    Served <- MCServed
    Window = 1
    Cooldown = 2
    BackupMaxAge = 2
    MinRequests = 1
    ErrorPercent = 50
    MinFailures = 2
    MinSlow = 2
    MaxClock = 3
    MaxEvents = 3
    MaxFaults = 1
SYMMETRY Symmetry
INVARIANTS
    LedgerMatchesState
    SlowAlarmsEarned
PROPERTIES
    LedgerStory
