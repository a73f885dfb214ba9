SPECIFICATION Spec
CONSTANTS
  Mobile = {o1, o2}
  Trigger = {t1}
  Points = {}
  Extent <- Extents
  Place <- TwoPlaces
  Depth = 2
  FirstLife = 1
  MaxLife = 1
  MaxMoves = 2
SYMMETRY Symmetry
INVARIANTS
  FiledAtMostOnce
PROPERTIES
  TreeHoldsNoDeleted
  SettledIsSeen
