SPECIFICATION FairSpec
CONSTANTS
  keyboard = keyboard  mouse = mouse  Devices = {keyboard, mouse}
  NoEvent = NoEvent
  CaptureCap = 1
  EventCap = 1
  KernelCap = 2
  MaxEvents = 2
  MaxSwitches = 3
INVARIANTS CaptureTypeOK ReadIfGrabbed
PROPERTIES ReachesOneSide InOrder CapturedIsHandled
CHECK_DEADLOCK FALSE
