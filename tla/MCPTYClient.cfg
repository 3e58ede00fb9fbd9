CONSTANTS
  Callers = {p1, p2}
  Nobody = nobody
  MaxOut = 3
  Odd = {2}
  Base = 6
  ExitCodes <- MCExitCodes
  ExitLengths = {4, 5}
  SendWindow = 1
  BufferLimit = 1
  Unused = {"resize"}
  MaxCalls = 3
SPECIFICATION FairSpec
INVARIANTS OneWriter OutputInOrder ExitCodeIsTheProcess
PROPERTIES ReleasedByClose ReleasedByCancel
CHECK_DEADLOCK FALSE
