SPECIFICATION Spec
CONSTANTS
  Client <- Addresses
  User = {u1}
  Player = {p1, p2, p3}
  Catalyst = {t1, t2}
  LastSlot = 1
  None = None
INVARIANTS
  IndexIdentifiesPlayer
