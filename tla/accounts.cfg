SPECIFICATION Spec
CONSTANTS
    Names = {1, 2}
    Conns = {c1}
    Sessions = {s1}
    MaxUsers = 2
    Initial <- MCInitial
    Templates = {1}
    Upgrades = {36, 49, 64}
    Word = 1073741824
INVARIANTS RegisteredIsCurrent NothingForNothing SquadsResolve
PROPERTY FailureChangesNothing
VIEW state
