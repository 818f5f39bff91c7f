SPECIFICATION Spec
CONSTANTS
  Refreshers = {"scheduler", "http"}
  MaxEntries = 2
  LogSize = 1
  Keep = 1
  MaxEdits = 1
  MaxOutages = 1
  Configs <- MCConfigs
  Default <- MCDefault
  MaxUpdates = 2
  MaxFaults = 2
  Schedules = {s1}
  Periods = {2}
  MaxTime = 7
  MaxSaves = 2
  MaxMishaps = 2
  Collectors <- MCCollectors
  Sections = {1, 2}
  Required = {1}
  KeepRows = 2
  MaxSnapshots = 2
  MaxTurns = 1
  Configurers = {1, 2}
  MaxRuns = 2
  MaxBreaks = 1
  Devices <- MCDevices
  Observers = {"d1"}
  Macs = {"m1", "m2"}
  Ips = {"i1"}
  Names = {"n1"}
  Claimed <- MCClaimed
  MaxRows = 3
  Said <- MCSaid
  CompactAt = 20
  Sizes = {0, 1, 2, 5, 64, 129}
  MaxChunks = 5
  Payloads = {2, 4}
  MaxInstalls = 3
  MaxUpsets = 2
  Scripts <- MCScripts
  RowLimit = 1
  Owner <- MCOwner
  First = "A"
  Stored = {"b1", "b3"}
  MaxAsks = 3
  MaxPosts = 2
  MaxEvents = 1
INVARIANTS TypeOK EventsTellTheState OutageIsReal SettingsAgree EachPeriodOnce
  HistoryHolds OneRuleOneAction OneNodePerMac CutsDoNotMatter UpgradeKeepsItsWord
  ReportIsTrue PageIsTrue
CHECK_DEADLOCK FALSE
