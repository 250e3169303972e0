SPECIFICATION SessionSpec
CONSTANTS
  c1 = c1  c2 = c2  left = left  right = right
  NoConn = NoConn  NoName = NoName  NoMsg = NoMsg  NoContent = NoContent
  NoText = NoText
  Conns = {c1, c2}
  Names = {left, right}
  Configured = {left, right}
  Owner <- TwoOwners
  Position <- TwoPositions
  PositionOf <- PositionOfOwner
  ScreenWidth = 3
  ScreenHeight = 1
  EdgeThreshold = 0
  EntryOffset = 2
  ClientWidth <- Width3
  ClientHeight <- Height1
  ScreenW <- W3
  ScreenH <- H1
  ClipboardSharing = TRUE
  Sharing = TRUE
  Keys = {30}
  Buttons = {}
  Contents = {"a"}
  Deltas <- Sideways
  Inputs <- PressAndScroll
  MaxPending = 0
  MaxTotal = 1
  QueueCap = 1
  EventCap = 1
  InboxCap = 1
  NetCap = 1
  Heartbeats = TRUE
  Faults = {"link","client","server"}
  PeerMessages <- Anything
INVARIANTS SessionTypeOK ControlIsOneToken ActiveMeansActive PushOnlyAfterGrace MotionNeedsControl OneClientInControl
PROPERTY ImplementsControl
CONSTRAINT OneThingAtATime
CHECK_DEADLOCK FALSE
