SPECIFICATION FairSpec
CONSTANTS
  k1 = k1  k2 = k2  Ctls = {k1, k2}
  Nobody = Nobody
  MaxCommands = 2
  MaxLaunches = 1
INVARIANTS DaemonTypeOK Listed
PROPERTIES StopStops CommandsEnd StartServes
CHECK_DEADLOCK FALSE
CONSTRAINT AloneOrOneCommand
