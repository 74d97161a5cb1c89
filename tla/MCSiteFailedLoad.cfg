SPECIFICATION FairSpec
CONSTANTS
  None = None
  a = a
  b = b
  p1 = p1
  p2 = p2
  p3 = p3
  Sites <- SitesAB
  Pids <- ThreePids
  Home = a
  First = p1
  WindowCmds = {"nav"}
  MaxNav = 1
  MaxInbox = 1
  MaxQueue = 1
  MaxWire = 1
  MaxFrames = 1
  PipeRoom = 2
PROPERTIES FailedLoadEndsLoading
