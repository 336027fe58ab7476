CONSTANTS
  Rules = {"slow", "quick"}
  Keys = {"a"}
  Window <- MCWindow
  MinRetention = 2
  MaxDedupeKeys = 1
  MaxAttempts = 2
  NotifyBatch = 2
  Messages <- MCMessages
  MaxLog = 2
  MaxTime = 1
  MaxFaults = 2
SPECIFICATION FairSpec
INVARIANTS
  NotificationsFollowAlerts
  PostsAreCounted
  ShortWindowsHold
PROPERTIES
  ImplementsContract
  NotificationsAreAnswered
CHECK_DEADLOCK FALSE
