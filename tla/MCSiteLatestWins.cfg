SPECIFICATION Spec
CONSTANTS
  None = None
  a = a
  b = b
  p1 = p1
  p2 = p2
  p3 = p3
  Sites <- SitesAB
  Pids <- ThreePids
  Home = a
  First = p1
  WindowCmds = {"nav"}
  MaxNav = 2
  MaxInbox = 2
  MaxQueue = 2
  MaxWire = 1
  MaxFrames = 1
  PipeRoom = 2
SYMMETRY SparePids
PROPERTIES LatestNavigationWins
