SPECIFICATION FairSpec
CONSTANTS
    Fingers = {f1, f2}
    Stylus = st
    None = none
    Modes <- MCModes
    MaxContacts = 2
    MaxWire = 1
    MaxRejects = 1
INVARIANTS
    LiftedWhenQuiet
    HeldIsRepeated
PROPERTIES
    RefusedEdgesOnly
    LiftedInTheEnd
CHECK_DEADLOCK FALSE
