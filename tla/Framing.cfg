SPECIFICATION FairSpec
CONSTANTS
  HeaderLen = 2
  MaxPayload = 3
  MaxNoise = 4
  TagLen = 1
  BufCap = 6
  NetCap = 3
  Sizes = {1, 3, 4}
  MaxSends = 3
INVARIANTS FramingTypeOK QuietMeansDelivered RefusesOnlyOversize
PROPERTIES ImplementsChannel FlushedArrives OversizeEnds
CHECK_DEADLOCK FALSE
