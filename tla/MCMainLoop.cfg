CONSTANTS
  RtTimer = {r1}
  VmTimer = {v1}
  BH = {b1}
  Dynticks = TRUE
  MaxTime = 3
SPECIFICATION LoopSpec
INVARIANTS
  AlarmCoversTimers
  ExitIsPrompt
PROPERTIES
  
  
  GuestRequestsServed
CHECK_DEADLOCK FALSE
