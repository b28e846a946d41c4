SPECIFICATION Spec
CONSTANTS
  LastFd = 2
  MAXCLIENTS = 4
  InitialMaxClients = 4
  MAX_TIMES_PER = 1
  BufSize = 2
  MaxWire = 1
  MaxBacklog = 1
  Requests = {"work", "mode", "killSelf", "killGone", "killOther", "killTemporary"}
  WriteErrors = TRUE
  Signals = FALSE
INVARIANTS
  OneClientPerDescriptor
  ConnectionsCounted
VIEW LiveOnly
