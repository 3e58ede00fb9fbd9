CONSTANTS
  Callers = {"main", "reader", "stdin", "winch"}
  Nobody = nobody
  MaxOut = 1
  Odd = {}
  Base = 6
  ExitCodes = {0}
  ExitLengths = {5}
  SendWindow = 1
  BufferLimit = 0
  ReuseFlags = {TRUE, FALSE}
  KeepFlags = {FALSE}
  MaxPolls = 2
  MaxTries = 2
  MaxInput = 1
SPECIFICATION FairSpec
INVARIANTS TypeOK GivenUpOnExit GivenUpInOrder ReadyIsFirst OutputIsComplete
PROPERTY Ends
