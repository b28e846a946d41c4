SPECIFICATION Spec
CONSTANTS
  Client = {"wm", "app"}
  Nobody = "nobody"
  Depth = 2
  Key = {"k"}
  Button = {"b"}
  Repeating = {}
  ActiveGrab <- MCActiveGrab
  PassiveGrab <- MCPassiveGrab
  Owner <- MCOwner
  Listener <- MCListener
  CloseDownModes = {"DestroyAll"}
  MaxQueue = 2
INVARIANT NoStuckKeys
CHECK_DEADLOCK FALSE
