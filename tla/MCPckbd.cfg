CONSTANTS
  PS2_QUEUE_SIZE = 12
  Slack = 9
  MaxDelta = 1
  MaxUnsent = 1
  KbdCommand = {"leds"}
  AuxCommand = {"enable", "remote", "poll", "sample", "wrap", "reset"}
  Command = {"WRITE_MODE", "WRITE_OBUF", "WRITE_MOUSE", "WRITE_OUTPORT",
             "READ_MODE", "TEST", "KBD_DISABLE"}
  Mode <- MCMode
  MaxInput = 3
  MaxCommands = 4
  MaxResets = 1
SPECIFICATION KbdFairSpec
INVARIANTS DataIsPending 
PROPERTY Drained
