CONSTANTS
  Text <- MCText
  Lines <- MCRunLines
  MaxLines = 5
SPECIFICATION Spec
INVARIANTS CommentsAreIgnored
