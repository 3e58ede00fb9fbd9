CONSTANTS
  N = 5
  BatchSizes = {0, 1, 3}
  DefaultSize = 2
SPECIFICATION FairSpec
INVARIANTS TypeOK InOrderOnce NothingSkipped
PROPERTY Ends
