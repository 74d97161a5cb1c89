SPECIFICATION Spec
CONSTANTS
  None = None
  a = a
  b = b
  p1 = p1
  p2 = p2
  p3 = p3
  Sites <- SitesAB
  Pids <- ThreePids
  Home = a
  First = p1
  WindowCmds = {"nav", "local", "stop"}
  MaxNav = 2
  MaxInbox = 2
  MaxQueue = 4
  MaxWire = 1
  MaxFrames = 0
  PipeRoom = 1
INVARIANTS TypeOK RouterCoherent NoOrphanProcess SwapReleasesWhatItReplaces
PROPERTIES StopBeatsSwap StopTakesEffect SwapResolves CloseReapsAll
