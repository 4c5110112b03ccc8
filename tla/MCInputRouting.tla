--------------------------- MODULE MCInputRouting ---------------------------
EXTENDS InputRouting

\* Three contacts for the touch injector, one pointer at a time for the mouse, two devices.
MCModes == {[finger |-> "touch", stylus |-> "touch"], [finger |-> "mouse", stylus |-> "mouse"],
            [finger |-> "mouse", stylus |-> "pen"]}
=============================================================================
