SPECIFICATION Spec
CONSTANTS
  N = 4
  Cascade = 2
  Device <- MCDevice
  ElcrMask <- MCElcrMask
  Elcr = {{}, {3}}
  Mask = {{}, {0, 1, 2, 3}}
  Icw1 <- MCIcw1
  Icw4 <- MCIcw4
  Polling = TRUE
  Ocw2Cmd = {1, 3, 5, 6, 7}
  MaxNesting = 2
INVARIANTS
  WantedIsRaised
  HandlersEndTheirOwn
  NoEdgeLost
PROPERTY
  NoInterruptTwice
