\* Three edits and no fault: is every edit's way to the computer known to be open?
SPECIFICATION SyncSpec
CHECK_DEADLOCK FALSE
CONSTANTS
  Edits = 3
  SyncFaults = 0
INVARIANT EditsReach
