SPECIFICATION Spec
CONSTANTS
  Client = {"wm", "app"}
  Nobody = "nobody"
  Depth = 2
  Key = {"k"}
  Button = {"b"}
  Repeating = {"k"}
  ActiveGrab <- MCActiveGrab
  PassiveGrab <- MCPassiveGrab
  Owner <- MCOwner
  Listener <- MCListener
  CloseDownModes = {"DestroyAll"}
  MaxQueue = 2
INVARIANTS TypeOK FreezeHasAGrab ButtonGrabHasAButton
PROPERTY RightsKept
CHECK_DEADLOCK FALSE
