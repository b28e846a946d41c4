SPECIFICATION Spec
CONSTANTS
  LastFd = 2
  Indices = {1, 2}
  OutputBufferSize = 1
  SockSize = 1
  Sizes = {1, 2}
  MaxUnread = 3
  MaxBacklog = 1
  MemoryFails = TRUE
  EmptyWriteFails = FALSE
  Grabs = TRUE
INVARIANTS
  TypeOK
  NothingForgotten
PROPERTY StreamKept
