SPECIFICATION Spec
CONSTANTS
  Client = {c1, c2}
  Object = {o1, o2, o3}
  MaxId = 2
  NoObject = NoObject
SYMMETRY Symmetry
INVARIANTS
  IdsAreExact
  NoGhosts
  StaleIsPending
