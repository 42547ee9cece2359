\* The smaller components, one at a time: events, device locks, rules, update,
\* the agent's removal, its computer's presence, the
\* sites it looked up.
SPECIFICATION PartsSpec
CHECK_DEADLOCK FALSE
CONSTANTS
  Events = 4
  Invalid = {2}
  Critical = {1, 3, 4}
  BufferCap = 3
  BatchMax = 2
  ServerMax = 2
  AlertLimit = 1
  LogFaults = 1
  LockdownDays = 1
  LastDay = 1
  Unlocks = 1
  Edits = 2
  SyncFaults = 2
  Builds = {1, 2, 3, 4, 5, 6}
  Version <- MCVersion
  FailsPreflight = {5}
  CrashLoops = {2}
  NeverBeats = {4}
  HangsLater = {6}
  FirstBuild = 1
  Offers = 2
  UpdateFaults = 1
  NoBuild = 0
  RetireFaults = 2
  Sockets = 3
  PresenceFaults = 2
  Lookups = 4
  SliceOf <- MCSliceOf
  MaxPending = 2
  DrainCap = 1
  ReadCap = 2
  TruncateAt = 2
  SliceFaults = 1
INVARIANTS LogHonest  NoSilentStale WayBack OnlyRemovedComeOff LookupsAccounted
PROPERTIES EventsArrive LocksLift PolicyConverges EndsOnAWorkingBuild ComesOff ShownAsItIs EveryLookupOnce
