SPECIFICATION FairSpec
CONSTANTS
  LastFd = 2
  Indices = {1, 2}
  OutputBufferSize = 1
  SockSize = 2
  Sizes = {1}
  MaxUnread = 3
  MaxBacklog = 1
  MemoryFails = FALSE
  EmptyWriteFails = FALSE
  Grabs = FALSE
PROPERTIES
  BlockedAreRetried
  ConnectionsAnswered
