CONSTANTS
  Text <- MCText
  Lines <- MCLines
  MaxLines = 4
SPECIFICATION FairSpec
INVARIANTS TypeOK BrokenIsReported YieldsTheEvents
PROPERTIES NoYieldAfterStop EndsWithStream
