SPECIFICATION SessionSpec
CONSTANTS
  c1 = c1  c2 = c2  left = left  right = right
  NoConn = NoConn  NoName = NoName  NoMsg = NoMsg  NoContent = NoContent
  NoText = NoText
  Conns = {c1}
  Names = {left}
  Configured = {left}
  Owner <- LeftOnly
  Position <- LeftPosition
  PositionOf <- PositionOfOwner
  ScreenWidth = 3
  ScreenHeight = 1
  EdgeThreshold = 0
  EntryOffset = 2
  ClientWidth <- Width3
  ClientHeight <- Height1
  ScreenW <- W3
  ScreenH <- H1
  ClipboardSharing = FALSE
  Sharing = FALSE
  Keys = {30}
  Buttons = {}
  Contents = {}
  Deltas <- Sideways
  Inputs <- KeyStrokes
  MaxPending = 0
  MaxTotal = 1
  QueueCap = 5
  EventCap = 1
  InboxCap = 1
  NetCap = 1
  Heartbeats = FALSE
  Faults = {}
  PeerMessages <- Anything
INVARIANT OneKeyboard
CHECK_DEADLOCK FALSE
