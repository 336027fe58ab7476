CONSTANTS
  Servers = {"s1", "s2"}
  Handlers = {"h1", "h2"}
  Home <- MCHome
  Orgs = {"o1"}
  Keys = {"k1"}
  Owner <- MCOwner
  MaxFaults = 2
SPECIFICATION FairSpec
PROPERTIES
  CachesConverge
CHECK_DEADLOCK FALSE
