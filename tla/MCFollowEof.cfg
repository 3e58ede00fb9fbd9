CONSTANTS
  Text <- MCText
  Lines <- MCLines
  Payloads <- MCPayloads
  Names <- MCNames
SPECIFICATION FollowSpec
INVARIANT EndsOnlyWithEof
