SPECIFICATION Spec
CONSTANTS
    Runs = {1, 2}
    Platforms = {"android"}
    Suites = {"smoke"}
    ProjectOf <- MCProjectOf
    PlatformOf <- MCPlatformOf
    SuiteOf <- MCSuiteOf
    LastDay = 2
    DaysPerWeek = 2
    FirstWeekDay = 1
    FlakinessDays = 2
    Requests <- MCRequests
    MaxFaults = 1
INVARIANT CountedWhereItEnded
PROPERTY RowsCatchUp
CHECK_DEADLOCK FALSE
