SPECIFICATION Spec
CONSTANTS
  None = None
  a = a
  b = b
  p1 = p1
  p2 = p2
  p3 = p3
  Sites <- SitesAB
  Pids <- ThreePids
  Home = a
  First = p1
  WindowCmds = {"nav", "local", "input", "resize", "host", "stop"}
  MaxNav = 2
  MaxInbox = 1
  MaxQueue = 1
  MaxWire = 1
  MaxFrames = 2
  PipeRoom = 2
SYMMETRY SparePids
INVARIANTS NavigationStaysInItsSite
PROPERTIES ShownNeverRegresses
