SPECIFICATION Spec
CONSTANTS
    fund = fund
    bond = bond
    Products <- MCProducts
    Quoted = {fund}
    FirstClients = {"tushare"}
    LastDay = 4
    OpenDays <- MCOpenDays
    Requests <- MCRequests
    Lookback = 1
    Navs = {1, 2}
    MaxChanges = 2
    MaxJobs = 1
    MaxFaults = 1
INVARIANT TypeOK
INVARIANT ReturnsCompound
PROPERTY ReportTrue
PROPERTY AccumKept
PROPERTY LateNavStored
CHECK_DEADLOCK FALSE
