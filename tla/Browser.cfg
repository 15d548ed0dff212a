\* Two tabs beside the controller, and one click more than there are tabs.
SPECIFICATION FairSpec
CONSTANTS
    UNRECLAIMED_TAB_COUNTER = 3
    PipeSize = 2
    NoTab = NoTab
    MaxUris = 2
    MaxClicks = 3
    MaxCrashes = 1
    MaxForkFailures = 1
INVARIANTS
    TypeOK
    UrisReachTheirTabs
    KilledTabIsSender
    PipesReclaimed
PROPERTIES
    TabsAndRouterEnd
    UrisRead
CHECK_DEADLOCK FALSE
