SPECIFICATION Spec
CONSTANTS
  c1 = c1  c2 = c2  left = left
  NoConn = NoConn  NoName = NoName  NoMsg = NoMsg  NoContent = NoContent
  Conns = {c1, c2}
  Names = {left}
  Configured = {left}
  Owner <- OneOwner
  Position <- LeftPosition
  ScreenWidth = 3
  ScreenHeight = 1
  EdgeThreshold = 0
  EntryOffset = 100
  ClientWidth <- Width200
  ClientHeight <- Width200
  ClipboardSharing = TRUE
  Keys = {30}
  Buttons = {}
  Contents = {"a"}
  Deltas <- Leftwards
  Inputs <- TypingAndScrolling
  MaxPending = 1
  QueueCap = 2
  EventCap = 2
  NetCap = 1
  PeerMessages <- SayAnything
INVARIANTS ServerTypeOK ControlConsistent NoMotionLeftOver DeadTasksAreReported
PROPERTIES MotionBeforeKeys NoBounce
CHECK_DEADLOCK FALSE
CONSTRAINT AloneOrCalm
