SPECIFICATION Spec
CONSTANTS
  c1 = c1  c2 = c2  Clients = {c1}
  TheServer = srv
  Fragments <- Pieces
  UserTexts <- JustTwoLines
  NoText = NoText
  QueueCap = 1
  OutCap = 0
  NetCap = 1
  MaxCopies = 1
INVARIANT NotEchoed
CHECK_DEADLOCK FALSE
CONSTRAINT PatientFromTheStart
