\* Two connections and the preload over two depots.
CONSTANTS
  Conns = {c1, c2}
  Preloader = preloader
  None = none
  Depots <- MCDepots
  Preload <- MCPreload
  MaxRequests = 2
SPECIFICATION Spec
INVARIANTS
  TypeOK
  OneDownloader
  OneReplyEach
PROPERTIES
  EveryoneGetsThrough
  PreloadVisitsAll
\* The preload ends and every connection is closed.
CHECK_DEADLOCK FALSE
