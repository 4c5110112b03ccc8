----------------------------- MODULE Coordinates -----------------------------
(***************************************************************************)
(* Where a pointer lands, along one axis: its place on the tablet becomes  *)
(* one of 65536 fractions of the surface (InputRouter), which becomes a    *)
(* pixel of the virtual desktop (touch and pen injector) or one of 65536   *)
(* steps across it (mouse injector).  Places are whole multiples of some   *)
(* part of a pixel; that the tablet computes with floats is left out.      *)
(***************************************************************************)
EXTENDS Integers

\* FRAC_MAX: a fraction has 16 bits.
FracMax == 65535

CONSTANTS
    Tablets,   \* lengths of the tablet's surface
    Places,    \* where a pointer may be, beyond the edges included
    Desktops   \* what is captured, in the virtual desktop: see below

\* surface pixels from offset on are captured, of the size ones from origin on.
ASSUME PointAssumption ==
    /\ Tablets \subseteq Nat \ {0}
    /\ Places \subseteq Int
    /\ \A d \in Desktops :
          /\ d.surface \in Nat \ {0} /\ d.size \in 1..(FracMax + 1)
          /\ d.offset \in Int /\ d.origin \in Int
          /\ d.origin <= d.offset /\ d.offset + d.surface <= d.origin + d.size

VARIABLES
    dimension,  \* length of the tablet's surface
    desktop,    \* what is captured
    place,      \* where the pointer is on the tablet
    pixel,      \* where a touch or the pen is injected
    step        \* where the mouse is injected

pointVars == <<dimension, desktop, place, pixel, step>>
-----------------------------------------------------------------------------
Clamp(v, lo, hi) == IF v < lo THEN lo ELSE IF v > hi THEN hi ELSE v

\* getSurfaceRelativeNormalizedXY holds a place inside the surface.
Inside(v, length) == Clamp(v, 0, length)

\* The nearest of the fractions.
NormalizePosition(v, length) ==
    IF length <= 0 THEN 0 ELSE Clamp((2 * (v * FracMax) + length) \div (2 * length), 0, FracMax)

\* From the first pixel of the virtual desktop, and never outside of it.
InVirtualDesktop(local, d) ==
    Clamp(d.offset - d.origin + local, 0, IF d.size > 1 THEN d.size - 1 ELSE 0)

(* Mutant: the last fraction is the pixel behind the surface. *)
MapPastTheEdge(x, d) == InVirtualDesktop((x * d.surface) \div FracMax, d)

(* Mutant: the fraction is a signed number. *)
MapSigned(x, d) ==
    LET signed == IF x > FracMax \div 2 THEN x - (FracMax + 1) ELSE x
    IN  InVirtualDesktop((signed * (d.surface - 1)) \div FracMax, d)

MapToVirtualDesktop(x, d) ==
    InVirtualDesktop(IF d.surface > 1 THEN (x * (d.surface - 1)) \div FracMax ELSE 0, d)

(* Mutant: the fraction is injected as it came. *)
FractionAsStep(x, d) == x

MouseAbsolute(x, d) ==
    IF d.size > 1 THEN (MapToVirtualDesktop(x, d) * FracMax) \div (d.size - 1) ELSE 0

Fraction(v) == NormalizePosition(Inside(v, dimension), dimension)
Pixel(v) == MapToVirtualDesktop(Fraction(v), desktop)
Step(v) == MouseAbsolute(Fraction(v), desktop)

PointInit ==
    /\ dimension \in Tablets /\ desktop \in Desktops
    /\ place \in Places /\ pixel = Pixel(place) /\ step = Step(place)

\* A pointer is somewhere else.
Point ==
    /\ \E v \in Places : place' = v /\ pixel' = Pixel(v) /\ step' = Step(v)
    /\ UNCHANGED <<dimension, desktop>>

PointSpec == PointInit /\ [][Point]_pointVars
-----------------------------------------------------------------------------
(* A touch or the pen lands on the captured display, edge on edge, and its *)
(* exact place is at most half a pixel outside of the pixel it lands on:   *)
(* rounded to a fraction, then cut off to a pixel.                         *)
TouchLands ==
    LET at == pixel - (desktop.offset - desktop.origin)
        v == Inside(place, dimension)
        last == desktop.surface - 1
    IN  /\ at \in 0..last
        /\ (v = 0 => at = 0) /\ (v = dimension => at = last)
        /\ (2 * at - 1) * dimension <= 2 * v * last
        /\ 2 * v * last < (2 * at + 3) * dimension

(* What drives the mouse lands where a touch would: of the desktop's       *)
(* pixels, spread over the steps, the mouse's step is that of the touch's. *)
MouseMeetsTouch ==
    /\ step \in 0..FracMax
    /\ (step * (desktop.size - 1) + FracMax - 1) \div FracMax = pixel

(* A pointer lands where it is on the tablet, whichever device it drives.  *)
PointsLand == TouchLands /\ MouseMeetsTouch

(* A pointer that moves to the right never lands further to the left.      *)
NeverBackwards == [][place <= place' => pixel <= pixel' /\ step <= step']_pointVars
=============================================================================
