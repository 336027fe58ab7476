CONSTANTS
  Partitions = {p1}
  Workers = {w1, w2}
  Definitions = {d1}
  Messages <- MCMessages
  MaxLog = 3
  MaxFaults = 2
  NoMessage = NoMessage
SPECIFICATION FairSpec
INVARIANTS
  CommittedIsAccounted
  TopicsFollowDurableRecords
PROPERTIES
  ImplementsContract
  EveryMessageIsAnswered
CHECK_DEADLOCK FALSE
