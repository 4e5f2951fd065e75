CONSTANTS
  AddressSpace = 8
  Address = {1, 3, 6}
  Name = {"MemCheck_Alloc", "mykfree", "__bss_stop"}
  Intercepted <- MCIntercepted
  MaxLines = 3
  Frame = {4, 8, 16}
  Wild = 12
  Unreadable = 91
  Code = 92
  Eip = 93
  Caller = 94
  Junk = 95
  DepthLimit = 5
SPECIFICATION ReportSpec
CHECK_DEADLOCK FALSE
INVARIANTS
  LookupIsNearest
  PresentIsIntercepted
  TraceFollowsFrames
PROPERTY
  WalkEnds
