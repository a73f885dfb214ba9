SPECIFICATION Spec
CONSTANTS
  Mobile = {o1, o2, o3}
  Trigger = {t1}
  Points = {}
  Extent <- Extents
  Place <- FewPlaces
  Depth = 2
  FirstLife = 1
  MaxLife = 3
  MaxMoves = 3
SYMMETRY Symmetry
PROPERTIES
  CreatedIsFiled
