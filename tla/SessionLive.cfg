SPECIFICATION SessionFairSpec
CONSTANTS
  c1 = c1  c2 = c2  left = left  right = right
  NoConn = NoConn  NoName = NoName  NoMsg = NoMsg  NoContent = NoContent
  NoText = NoText
  Conns = {c1}
  Names = {left}
  Configured = {left}
  Owner <- LeftOnly
  Position <- LeftPosition
  PositionOf <- PositionOfOwner
  ScreenWidth = 3
  ScreenHeight = 1
  EdgeThreshold = 0
  EntryOffset = 2
  ClientWidth <- Width3
  ClientHeight <- Height1
  ScreenW <- W3
  ScreenH <- H1
  ClipboardSharing = FALSE
  Sharing = FALSE
  Keys = {}
  Buttons = {}
  Contents = {}
  Deltas <- Sideways
  Inputs <- NoInput
  MaxPending = 0
  MaxTotal = 1
  QueueCap = 1
  EventCap = 1
  InboxCap = 1
  NetCap = 1
  Heartbeats = FALSE
  Faults = {"link","client"}
  PeerMessages <- Anything
PROPERTIES ImplementsServer HandshakeEnds ControlArrives LockoutEnds ReturnsControl
CHECK_DEADLOCK FALSE
