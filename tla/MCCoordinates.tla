---------------------------- MODULE MCCoordinates ----------------------------
EXTENDS Coordinates

MCTablets == {1, 7, 1200, 1600}

\* At 595 of 1200 a pointer lands more than a pixel to the left of its place.
MCPlaces == {-1, 0, 1, 2, 3, 6, 7, 595, 600, 800, 1199, 1200, 1201, 1599, 1600, 1601}

MCDesktops ==
    {[surface |-> s, offset |-> o, origin |-> g, size |-> o - g + s + r] :
        s \in {1, 2, 7, 1080, 2560}, o \in {0, 100}, g \in {-50, 0}, r \in {0, 5}}

\* Where a pointer rests that plays no part.
MCRest ==
    /\ dimension = 7 /\ desktop = [surface |-> 7, offset |-> 0, origin |-> 0, size |-> 7]
    /\ place = 0 /\ pixel = Pixel(0) /\ step = Step(0)
=============================================================================
