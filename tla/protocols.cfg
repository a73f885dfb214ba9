CONSTANTS
    Kinds <- AllKinds
    AttributeTypes = {"0", "4", "110"}
    Names <- AllNames
    Sizes = {0, 1, 2}
SPECIFICATION ProtocolSpec
INVARIANTS
    ReadsBack
    Intact
    NothingMissed
    ParsedWhole
    Restored
