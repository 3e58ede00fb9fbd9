CONSTANTS
  MaxSize = 3
  Limit = 2
SPECIFICATION Spec
INVARIANTS BodyIsReleased SuccessIsWhole RefusalIsReported SuccessIsCarriedOut
