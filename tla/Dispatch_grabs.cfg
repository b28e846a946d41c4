SPECIFICATION Spec
CONSTANTS
  LastFd = 2
  MAXCLIENTS = 3
  InitialMaxClients = 2
  MAX_TIMES_PER = 2
  BufSize = 4
  MaxWire = 3
  MaxBacklog = 1
  Requests = {"work", "bad", "grab", "mode", "killSelf", "killGone", "killOther", "killTemporary"}
  WriteErrors = FALSE
  Signals = TRUE
INVARIANTS
  TypeOK
  GrabExcludesOthers
  GrabConfinesInput
  NobodyForgotten
  NoStrandedRequest
PROPERTIES
  RoundIsLive
  GenerationEndsEmpty
  RetainedIsKept
VIEW LiveOnly
