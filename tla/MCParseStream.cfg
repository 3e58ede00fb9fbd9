CONSTANTS
  Text <- MCText
  Lines <- MCLines
  Payloads <- MCPayloads
SPECIFICATION FairSpec
INVARIANT WholeStreamIsReported
PROPERTIES ImplementsParseWatch ReturnsWhenStreamEnds
