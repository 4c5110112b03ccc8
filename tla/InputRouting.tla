---------------------------- MODULE InputRouting ----------------------------
(***************************************************************************)
(* The way of a pointer event from the tablet to Windows.  InputRouter     *)
(* (Android UI thread) turns a MotionEvent into touch, pen or mouse        *)
(* messages; recv_loop (desktop) hands each to an injector; the touch      *)
(* injector keeps a slot for every live contact and a repeat thread that   *)
(* injects the live contacts again every 50 ms.  Windows may reject a      *)
(* frame.  A session ends by a teardown that lifts what is pressed.        *)
(* Positions, pressure and contact areas are abstracted away.              *)
(***************************************************************************)
EXTENDS Naturals, Sequences, FiniteSets

CONSTANTS
    Fingers,      \* pointer ids of fingers
    Stylus,       \* pointer id of the stylus
    None,         \* no pointer
    Modes,        \* the input settings considered
    MaxContacts,  \* kMaxContacts, slots of the touch injector
    MaxWire,      \* bound: an event is routed while fewer messages are in flight
    MaxRejects    \* bound: injections Windows rejects

ASSUME InputAssumption ==
    /\ IsFiniteSet(Fingers) /\ Stylus \notin Fingers /\ None \notin Fingers \cup {Stylus}
    /\ Modes \subseteq [finger : {"touch", "mouse"}, stylus : {"pen", "touch", "mouse"}]
    /\ MaxContacts \in Nat \ {0}
    /\ {MaxWire, MaxRejects} \subseteq Nat

VARIABLES
    mode,       \* input settings: what fingers and the stylus drive
    down,       \* pointers touching the tablet
    hovering,   \* is the stylus over the tablet without touching it?
    barrel,     \* is the stylus button pressed?
    active,     \* activeMousePointerId, or None
    deckShown,  \* isDeckVisible
    wire,       \* messages sent and not yet received
    phase,      \* the session: "up", then the steps of its teardown
    slots,      \* touch_infos_: pointer id and flags of every slot
    penFlags,   \* pointerFlags of pen_info_
    penDevice,  \* pen_device_ could be created
    buttons,    \* current_buttons_ of the mouse injector
    repeater,   \* repeat thread: "wait" (untimed), "timed" or "done"
    poked,      \* repeat_cv_ notified, repeat_reset_pending_ set, since its wait began
    stopRepeat,
    os,         \* what Windows holds pressed
    rejects,    \* injections rejected so far
    orphaned    \* history: a release can no longer reach Windows

android == <<mode, down, hovering, barrel, active, deckShown>>
touchVars == <<slots, penFlags, penDevice>>
threadVars == <<repeater, poked, stopRepeat>>
vars == <<android, wire, phase, touchVars, buttons, threadVars, os, rejects, orphaned>>

Pointers == Fingers \cup {Stylus}
Edges == {"down", "up", "canceled", "update"}
FreeSlot == [id |-> None, flags |-> {}]
NothingPressed == [touch |-> {}, pen |-> FALSE, buttons |-> {}]
NoThread == "done"

-----------------------------------------------------------------------------
(* InputRouter: one message for one pointer, or none.                      *)

Target(p) == IF p = Stylus THEN mode.stylus ELSE mode.finger

\* Only one pointer at a time drives the mouse.
DrivesMouse(p, act) ==
    IF act \in {"move", "up", "cancel"} THEN active = p
                                        ELSE active \in {None, p}

DesiredButtons(p, act) ==
    IF p # Stylus THEN IF act \in {"down", "move"} THEN {"L"} ELSE {}
    ELSE CASE act \in {"down", "move"} -> IF barrel' THEN {"R"} ELSE {"L"}
           [] act \in {"button", "hover"} -> IF barrel' THEN {"R"} ELSE {}
           [] OTHER -> {}

Message(kind, act, p, btn) == [kind |-> kind, act |-> act, id |-> p, btn |-> btn]

RoutePointer(p, act) ==
    CASE Target(p) = "touch" -> <<Message("touch", act, p, {})>>
      [] Target(p) = "pen" -> <<Message("pen", act, p, {})>>
      [] Target(p) = "mouse" /\ DrivesMouse(p, act) ->
            <<Message("mouse", act, p, DesiredButtons(p, act))>>
      [] OTHER -> <<>>

ActiveAfter(p, act) ==
    IF Target(p) # "mouse" \/ ~DrivesMouse(p, act) THEN active
    ELSE CASE act = "down" -> p
           [] act \in {"up", "cancel"} -> None
           [] OTHER -> active

\* Messages reach the wire only on a connected client; the bound lets them join
\* fewer than MaxWire others.
Transmit(msgs) ==
    /\ msgs # <<>> => Len(wire) < MaxWire
    /\ wire' = IF phase = "up" THEN wire \o msgs ELSE wire

(* Mutant: Only touches are cancelled. *)
RouteCancelTouchOnly ==
    IF "touch" \in {Target(p) : p \in down} THEN <<Message("touch", "cancelAll", None, {})>>
                                           ELSE <<>>

RouteCancelAll ==
    LET targets == {Target(p) : p \in down}
        Cancel(kind, act) == IF kind \in targets
                             THEN <<Message(kind, act, None, {})>> ELSE <<>>
    IN  Cancel("touch", "cancelAll") \o Cancel("pen", "cancelAll")
            \o Cancel("mouse", "cancel")

-----------------------------------------------------------------------------
(* The touch injector, under its mutex.                                    *)

Populate(f, act) ==
    CASE act = "hover"  -> (f \ {"contact"}) \cup {"range", "update"}
      [] act = "down"   -> f \cup {"range", "contact", "down"}
      [] act = "move"   -> f \cup {"range", "contact", "update"}
      [] act = "up"     -> (f \ {"contact", "range"}) \cup {"up"}
      [] act = "cancel" -> (f \ {"contact", "range"}) \cup {"canceled"}
                             \cup (IF "contact" \in f THEN {"up"} ELSE {"update"})
      [] act = "leave"  -> (f \ {"contact", "range"}) \cup {"update"}
      [] act = "button" -> IF f = {} THEN f ELSE f \cup {"update"}

Live(s) == {i \in 1..MaxContacts : s[i].flags # {}}

\* The k-th number of a set, in their order.
Nth(S, k) == CHOOSE i \in S : Cardinality({j \in S : j <= i}) = k

\* Live slots moved to the front, in order; their number is active_touch_slots_.
Compacted(s) ==
    LET live == Live(s)
        active_touch_slots == Cardinality(live)
    IN  [k \in 1..MaxContacts |->
            IF k <= active_touch_slots THEN s[Nth(live, k)] ELSE FreeSlot]

AllFree == [i \in 1..MaxContacts |-> FreeSlot]

\* The slot of pointer p in compacted slots: its own, or the first free one; 0 if none.
SlotFor(s, p) ==
    LET own == {i \in Live(s) : s[i].id = p}
        free == (1..MaxContacts) \ Live(s)
    IN  IF own # {} THEN CHOOSE i \in own : TRUE
        ELSE IF free # {} THEN CHOOSE i \in free : \A j \in free : i <= j
        ELSE 0

(* Mutant: the edges of the first slot are cleared, whoever has it. *)
ClearFirst(s, i) == [s EXCEPT ![1].flags = @ \ Edges]
ClearEdges(s, i) == [s EXCEPT ![i].flags = @ \ Edges]

\* What Windows holds after it accepts a frame of the live slots.
AfterTouchFrame(pressed, s) ==
    (pressed \ {s[i].id : i \in Live(s)})
        \cup {s[i].id : i \in {j \in Live(s) : "contact" \in s[j].flags}}

Cancelled(s) ==
    [i \in 1..MaxContacts |->
        IF i \in Live(s) THEN [s[i] EXCEPT !.flags = Populate(@, "cancel")] ELSE s[i]]

\* Two injections, each accepted or rejected; MaxRejects bounds the rejections.
Count(ok1, ok2) ==
    /\ rejects' = rejects + Cardinality({i \in 1..2 : ~<<ok1, ok2>>[i]})
    /\ rejects' <= MaxRejects

NotifyRepeater == poked' = TRUE

\* cancel_all_touches_locked: what a rejected cancellation leaves pressed is lost.
CancelAllTouches(ok) ==
    /\ slots' = AllFree
    /\ os' = IF ok THEN [os EXCEPT !.touch = AfterTouchFrame(@, Cancelled(slots))] ELSE os
    /\ orphaned' = (orphaned \/ (~ok /\ os.touch # {}))

(* Mutant: The edges are cleared whether or not Windows accepted the frame. *)
InjectAndForget(s, i, p, act, ok) ==
    LET named == IF i \in Live(s) THEN s ELSE [s EXCEPT ![i] = [id |-> p, flags |-> {}]]
        posed == Compacted([named EXCEPT ![i].flags = Populate(@, act)])
    IN  /\ slots' = ClearEdges(posed, i)
        /\ os' = IF ok THEN [os EXCEPT !.touch = AfterTouchFrame(@, posed)] ELSE os
        /\ UNCHANGED orphaned
\* inject_touch_locked for a pointer that has a slot in s: s[i] is populated, the
\* live slots are injected, and on success the slot's edges are cleared.
InjectSlot(s, i, p, act, ok) ==
    LET named == IF i \in Live(s) THEN s ELSE [s EXCEPT ![i] = [id |-> p, flags |-> {}]]
        posed == Compacted([named EXCEPT ![i].flags = Populate(@, act)])
    IN  /\ slots' = IF ok THEN ClearEdges(posed, i) ELSE posed
        /\ os' = IF ok THEN [os EXCEPT !.touch = AfterTouchFrame(@, posed)] ELSE os
        /\ UNCHANGED orphaned

\* No slot is free: every contact is cancelled and the pointer takes the first slot.
InjectAfterOverflow(p, act, cancelled, ok) ==
    LET posed == [AllFree EXCEPT ![1] = [id |-> p, flags |-> Populate({}, act)]]
        left == IF cancelled THEN AfterTouchFrame(os.touch, Cancelled(slots)) ELSE os.touch
    IN  /\ slots' = IF ok THEN ClearEdges(posed, 1) ELSE posed
        /\ os' = [os EXCEPT !.touch = IF ok THEN AfterTouchFrame(left, posed) ELSE left]
        /\ orphaned' = (orphaned \/ ~cancelled)

InjectTouch(m, ok) ==
    LET s == Compacted(slots)
        i == SlotFor(s, m.id)
    IN  /\ \/ m.act = "cancelAll" /\ CancelAllTouches(ok) /\ Count(ok, TRUE)
           \/ m.act # "cancelAll" /\ i # 0 /\ InjectSlot(s, i, m.id, m.act, ok)
              /\ Count(ok, TRUE)
           \/ /\ m.act # "cancelAll" /\ i = 0
              /\ \E cancelled \in BOOLEAN : /\ InjectAfterOverflow(m.id, m.act, cancelled, ok)
                                          /\ Count(ok, cancelled)
        /\ IF ok \/ m.act = "cancelAll" THEN NotifyRepeater
                                        ELSE UNCHANGED poked
        /\ UNCHANGED <<penFlags, buttons>>

InjectPen(m, ok) ==
    LET posed == IF m.act = "cancelAll"
                 THEN IF penFlags = {} THEN {} ELSE Populate(penFlags, "cancel")
                 ELSE Populate(penFlags, m.act)
    IN  /\ os' = IF ok /\ posed # {} THEN [os EXCEPT !.pen = "contact" \in posed] ELSE os
        /\ penFlags' = IF m.act = "cancelAll" THEN {}
                       ELSE IF ok THEN posed \ Edges ELSE posed
        /\ orphaned' = (orphaned \/ (m.act = "cancelAll" /\ ~ok /\ os.pen))
        /\ IF ok \/ m.act = "cancelAll" THEN NotifyRepeater
                                        ELSE UNCHANGED poked
        /\ UNCHANGED <<slots, buttons>> /\ Count(ok, TRUE)

\* current_buttons_ becomes the desired set whether or not SendInput succeeds.
InjectMouse(m, ok) ==
    LET desired == IF m.act \in {"up", "cancel", "leave"} THEN {} ELSE m.btn
    IN  /\ buttons' = desired
        /\ os' = IF ok THEN [os EXCEPT !.buttons =
                                (@ \ (buttons \ desired)) \cup (desired \ buttons)]
                 ELSE os
        /\ orphaned' = (orphaned \/ (~ok /\ buttons # desired))
        /\ UNCHANGED <<slots, penFlags, poked>> /\ Count(ok, TRUE)

-----------------------------------------------------------------------------
(* Tablet: what the user does, and what forwardTouch sends for it.         *)

NotAndroid == <<phase, touchVars, buttons, threadVars, os, rejects>>

\* A touch event of pointer p; with the deck shown it is not forwarded.
Touched(p, act) ==
    /\ IF deckShown
       THEN /\ orphaned' = (orphaned \/ act \in {"up", "cancel"})
            /\ UNCHANGED <<wire, active>>
       ELSE /\ Transmit(RoutePointer(p, act))
            /\ active' = ActiveAfter(p, act)
            /\ UNCHANGED orphaned
    /\ UNCHANGED <<NotAndroid, mode, hovering, barrel, deckShown>>

Press(p) ==
    /\ p \notin down /\ (p = Stylus => ~hovering)
    /\ down' = down \cup {p} /\ barrel' = barrel
    /\ Touched(p, "down")

Release(p) ==
    /\ p \in down
    /\ down' = down \ {p} /\ barrel' = barrel
    /\ \E act \in {"up", "cancel"} : Touched(p, act)

\* ACTION_MOVE routes the pointers of the event, one message after the other.
Move(p) ==
    /\ p \in down /\ ~deckShown /\ barrel' = barrel
    /\ Transmit(RoutePointer(p, "move"))
    /\ UNCHANGED <<NotAndroid, mode, down, hovering, active, deckShown, orphaned>>

\* ACTION_CANCEL ends the gesture of every pointer.
CancelGesture ==
    /\ down # {} /\ down' = {}
    /\ IF deckShown THEN orphaned' = TRUE /\ UNCHANGED <<wire, active>>
                    ELSE active' = None /\ Transmit(RouteCancelAll) /\ UNCHANGED orphaned
    /\ UNCHANGED <<NotAndroid, mode, hovering, barrel, deckShown>>

\* Generic motion of the stylus: forwarded whether or not the deck is shown.
Generic(act) ==
    /\ Transmit(RoutePointer(Stylus, act))
    /\ UNCHANGED <<NotAndroid, mode, down, active, deckShown, orphaned>>

Hover ==
    /\ Stylus \notin down /\ barrel' = barrel
    /\ \/ hovering' = TRUE /\ Generic("hover")
       \/ hovering /\ hovering' = FALSE /\ Generic("leave")

BarrelButton ==
    /\ hovering \/ Stylus \in down
    /\ barrel' = ~barrel /\ hovering' = hovering
    /\ Generic("button")

ToggleDeck ==
    /\ deckShown' = ~deckShown
    /\ UNCHANGED <<wire, NotAndroid, mode, down, hovering, barrel, active, orphaned>>

Tablet == \/ \E p \in Pointers : Press(p) \/ Release(p) \/ Move(p)
          \/ CancelGesture \/ Hover \/ BarrelButton \/ ToggleDeck

-----------------------------------------------------------------------------
(* Desktop: recv_loop, the repeat thread, the session.                     *)

\* recv_loop takes a message and hands it to the injector of its kind.
Dispatch ==
    /\ phase = "up" /\ wire # <<>> /\ wire' = Tail(wire)
    /\ LET m == Head(wire) IN \E ok \in BOOLEAN :
         \/ m.kind = "touch" /\ InjectTouch(m, ok)
         \/ m.kind = "pen" /\ penDevice /\ InjectPen(m, ok)
         \/ m.kind = "mouse" /\ InjectMouse(m, ok)
         \/ /\ m.kind = "pen" /\ ~penDevice /\ ok
            /\ UNCHANGED <<slots, penFlags, buttons, os, rejects, orphaned, poked>>
    /\ UNCHANGED <<android, phase, penDevice, repeater, stopRepeat>>

(* Mutant: only pressed contacts are injected again. *)
HasContact == "contact" \in penFlags \/ \E i \in Live(slots) : "contact" \in slots[i].flags
HasRepeatable == penFlags # {} \/ Live(slots) # {}

\* The repeat thread at the head of its loop: it ends, waits 50 ms, or sleeps.
LoopHead ==
    /\ repeater' = IF stopRepeat THEN NoThread ELSE IF HasRepeatable THEN "timed" ELSE "wait"
    /\ poked' = FALSE

RepeaterWakes ==
    /\ repeater = "wait" /\ poked /\ LoopHead
    /\ UNCHANGED <<android, wire, phase, touchVars, buttons, stopRepeat, os, rejects,
                   orphaned>>

\* The 50 ms pass with nothing injected: the live contacts are injected again.
RepeatFrames ==
    \E ok, penOk \in BOOLEAN :
      /\ Count(ok, penOk)
      /\ (~ok => Live(slots) # {}) /\ (~penOk => penFlags # {})
      /\ slots' = Compacted(slots)
      /\ os' = [os EXCEPT
             !.touch = IF ok THEN AfterTouchFrame(@, slots) ELSE @,
             !.pen = IF penOk /\ penFlags # {} THEN "contact" \in penFlags ELSE @]

RepeaterTimes ==
    /\ repeater = "timed" /\ LoopHead
    /\ IF stopRepeat \/ poked \/ ~HasRepeatable
       THEN UNCHANGED <<slots, os, rejects>> ELSE RepeatFrames
    /\ UNCHANGED <<android, wire, phase, penFlags, penDevice, buttons, stopRepeat,
                   orphaned>>

\* The connection ends; the pipeline joins recv_loop before any injector is touched.
StopPipeline ==
    /\ phase = "up" /\ phase' = "touch" /\ wire' = <<>>
    /\ UNCHANGED <<android, touchVars, buttons, threadVars, os, rejects, orphaned>>

\* WinTouchInjector::shutdown: ask the repeat thread to stop, ...
ShutdownTouch ==
    /\ phase = "touch" /\ phase' = "join"
    /\ stopRepeat' = TRUE /\ NotifyRepeater
    /\ UNCHANGED <<android, wire, touchVars, buttons, repeater, os, rejects, orphaned>>

\* ... join it, cancel what is live and destroy the devices, which lifts the rest.
TouchIsDown ==
    /\ phase = "join" /\ repeater = NoThread
    /\ phase' = "mouse"
    /\ slots' = AllFree /\ penFlags' = {}
    /\ os' = [os EXCEPT !.touch = {}, !.pen = FALSE]
    /\ stopRepeat' = FALSE /\ poked' = FALSE
    /\ UNCHANGED <<android, wire, penDevice, buttons, repeater, rejects,
                   orphaned>>

\* current_buttons_ is cleared whether or not SendInput succeeds.
ShutdownMouse ==
    /\ phase = "mouse" /\ phase' = "down" /\ buttons' = {}
    /\ \E ok \in BOOLEAN :
         /\ (~ok => buttons # {}) /\ Count(ok, TRUE)
         /\ os' = IF ok THEN [os EXCEPT !.buttons = @ \ buttons] ELSE os
         /\ orphaned' = (orphaned \/ ~ok)
    /\ UNCHANGED <<android, wire, touchVars, threadVars>>

\* A new session makes new injectors; the pen device may be missing.
StartSession ==
    /\ phase = "down" /\ phase' = "up"
    /\ penDevice' \in {penDevice, TRUE} /\ slots' = AllFree /\ penFlags' = {} /\ buttons' = {}
    /\ repeater' = "wait" /\ poked' = FALSE /\ stopRepeat' = FALSE
    /\ orphaned' = (os # NothingPressed)
    /\ UNCHANGED <<android, wire, os, rejects>>

Init ==
    /\ mode \in Modes
    /\ down = {} /\ hovering = FALSE /\ barrel = FALSE /\ active = None
    /\ deckShown = FALSE /\ wire = <<>> /\ phase = "up"
    /\ slots = AllFree /\ penFlags = {} /\ penDevice \in BOOLEAN /\ buttons = {}
    /\ (mode.stylus # "pen" => penDevice)   \* nothing else uses it
    /\ repeater = "wait" /\ poked = FALSE /\ stopRepeat = FALSE
    /\ os = NothingPressed /\ rejects = 0 /\ orphaned = FALSE

Desktop == \/ Dispatch \/ RepeaterWakes \/ RepeaterTimes
           \/ StopPipeline \/ ShutdownTouch \/ TouchIsDown \/ ShutdownMouse \/ StartSession

Next == Tablet \/ Desktop

Spec == Init /\ [][Next]_vars

\* The repeat thread runs; the user, the connection and recv_loop need not act.
FairSpec == Spec /\ WF_vars(RepeaterWakes) /\ WF_vars(RepeaterTimes)

-----------------------------------------------------------------------------
(* Properties.                                                             *)

Untouched == phase = "up" /\ down = {} /\ wire = <<>>

(* Once every pointer has left the tablet and every message is handled,    *)
(* Windows holds nothing pressed, whichever device the pointers drove and  *)
(* however contacts were cancelled on the way - provided no injection was  *)
(* rejected and no release was swallowed by the deck.                      *)
LiftedWhenQuiet ==
    Untouched /\ ~barrel /\ ~orphaned /\ rejects = 0 => os = NothingPressed

(* Whatever the rejected frames, a pointer has one live slot at most       *)
(* (touch_pointer_by_id_locked), and a contact Windows still holds is one  *)
(* of a live slot, which the repeat thread, awake, injects until it is     *)
(* lifted.                                                                 *)
HeldIsRepeated ==
    /\ \A i, j \in Live(slots) : slots[i].id = slots[j].id => i = j
    /\ ~orphaned /\ phase = "up" =>
        /\ os.touch \subseteq {slots[i].id : i \in Live(slots)}
        /\ os.pen => penFlags # {}
        /\ os.touch # {} \/ os.pen => repeater = "timed" \/ poked

\* The pointers of which a frame to be repeated has edges.
Retained == {slots[i].id : i \in {j \in Live(slots) : slots[j].flags \cap Edges # {}}}
                \cup {p \in {Stylus} : penFlags \cap Edges # {}}

\* The pointer of the touch or pen message that a step handles.
Handled == IF phase' = phase /\ Len(wire') < Len(wire) /\ Head(wire).kind # "mouse"
           THEN {Head(wire).id} ELSE {}

(* An edge (down, up, canceled, update) that stays in a slot, and that the *)
(* repeat thread therefore injects again, belongs to a pointer whose own   *)
(* latest frame Windows refused: an accepted frame clears the edges of its *)
(* pointer, wherever compaction has moved its slot, and no step that       *)
(* nothing refuses leaves a new one behind.                                *)
RefusedEdgesOnly ==
    [][Retained' \subseteq (IF rejects' = rejects THEN Retained \ Handled
                                               ELSE Retained \cup Handled)]_vars

(* Once every pointer has left the tablet for good and every message is    *)
(* handled, Windows lets go of every contact even when it refused the      *)
(* frame of a release: the repeat thread injects the slots that are still  *)
(* live again, pressed or not, until they are lifted.  A refused mouse     *)
(* button is not injected again (orphaned).                                *)
LiftedInTheEnd ==
    <>[](Untouched /\ ~barrel /\ ~orphaned) => <>[](os = NothingPressed)
=============================================================================
