SPECIFICATION FairSpec
CONSTANTS
  c1 = c1  c2 = c2  Clients = {c1, c2}
  TheServer = srv
  Fragments <- Pieces
  UserTexts <- AllTexts
  NoText = NoText
  QueueCap = 1
  OutCap = 0
  NetCap = 1
  MaxCopies = 2
INVARIANTS ClipboardTypeOK CaughtUp QuietMeansAgreed
PROPERTY Settles
CHECK_DEADLOCK FALSE
CONSTRAINT Scenarios
