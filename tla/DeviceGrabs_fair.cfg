SPECIFICATION FairSpec
CONSTANTS
  Client = {"wm", "app"}
  Nobody = "nobody"
  Depth = 2
  Key = {"k"}
  Button = {"b"}
  Repeating = {"k"}
  ActiveGrab <- MCActiveGrab2
  PassiveGrab <- MCPassiveGrab2
  Owner <- MCOwner
  Listener <- MCListener
  CloseDownModes = {"Retain"}
  MaxQueue = 2
PROPERTIES DevicesThaw CallsReturn
CHECK_DEADLOCK FALSE
