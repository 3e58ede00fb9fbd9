CONSTANTS
  Text <- MCText
  Lines <- MCLines
  Payloads <- MCPayloads
  Names <- MCNames
SPECIFICATION FairFollowSpec
INVARIANT WholeStreamIsFollowed
PROPERTIES ImplementsLineFeed EndsWithStream
