SPECIFICATION FairSpec
CONSTANTS
  Client = {k1,k2,k3}
  Conn = {c1,c2}
  NoConn = NoConn
INVARIANTS
  HeldIsOpen
  NoConnectionLeaks
  HolderNotShutDown
  EntryIsWatched
PROPERTIES
  OutageIsNoticed
  WatchersEnd
CHECK_DEADLOCK FALSE
