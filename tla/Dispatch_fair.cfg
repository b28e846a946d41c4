SPECIFICATION FairSpec
CONSTANTS
  LastFd = 2
  MAXCLIENTS = 3
  InitialMaxClients = 3
  MAX_TIMES_PER = 2
  BufSize = 4
  MaxWire = 3
  MaxBacklog = 1
  Requests = {"work", "bad", "grab"}
  WriteErrors = FALSE
  Signals = FALSE
PROPERTIES
  EveryRequestServed
