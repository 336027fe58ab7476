CONSTANTS
  MaxEvents = 3
  MaxRequest = 2
  Size <- MCSize
  QueueCapacity = 2
  BatchMaxEvents = 2
  BatchMaxBytes = 3
  RetryAttempts = 2
  MaxFaults = 2
SPECIFICATION FairSpec
INVARIANTS
  ClaimsAreExclusive
  AnswersAreTrue
  DuplicatesHaveFaults
PROPERTY
  SpooledIsDelivered
CHECK_DEADLOCK FALSE
