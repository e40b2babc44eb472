SPECIFICATION FairSpec
CONSTANTS
  i1 = i1
  i2 = i2
  None = None
  MaxUsers = 2
  Elsewhere = Elsewhere
  Instances = {i1, i2}
  Shapes <- MCShapes
INVARIANTS TypeOK AckNeedsCompletion DoneBit CompletedIsEarned CancelReaches OverlayIsOfARun
PROPERTY OverlayEnds
