--------------------------- MODULE MediaController ---------------------------
(***************************************************************************)
(* What the tablet's media tile shows.  WinMediaController reads the       *)
(* player and sends its state from five places at once: a thread that      *)
(* polls, the handlers of the system's events, the application's thread,   *)
(* the receive thread after a key of the tile, and a detached burst after  *)
(* that.  The artwork goes only with a track that was not sent before.     *)
(***************************************************************************)
EXTENDS Naturals, FiniteSets

CONSTANTS
  Players, NoPlayer,     \* the media sessions of the system
  Tracks, NoTrack,
  Handlers,              \* threads of the system that deliver events
  App, Poll, Recv, Burst,
  MaxChanges,            \* bound: changes of the players and keys of the tile
  MaxFails,              \* bound: snapshots that fail
  MaxEmitting            \* bound: threads inside emit_state at once

Threads == Handlers \cup {App, Poll, Recv, Burst}
Events == {"sessions", "media", "playback"}

VARIABLES
  current, track, pending, changes, fails,  \* the system: players and events
  pipeline,                                 \* is g_app.pipeline set?
  registered,   \* the manager's handlers are registered
  session,      \* the session of impl_, its handlers registered with it
  callback, running, last_track_key,
  mutex,        \* who holds it over more than one step, <<>> if nobody
  freed,        \* reset() destroyed the controller
  dangling,     \* a thread used it after that: undefined from then on
  thread,       \* what each thread does
  overtaken,    \* one stored or sent while another had decided on its artwork
  tile          \* what the tablet shows

systemVars == <<current, track, pending, changes, fails>>
implVars   == <<registered, session, callback, running, last_track_key>>
tileVars   == <<overtaken, tile>>
vars == <<systemVars, pipeline, implVars, mutex, freed, dangling, thread, tileVars>>

Nothing == [key |-> NoTrack, art |-> FALSE]
Off == [pc |-> "off", then |-> "off", include |-> FALSE, snapshot |-> Nothing]

First == CHOOSE k \in Tracks : TRUE     \* one track is as good as another

Init ==
  /\ current \in Players \cup {NoPlayer}
  /\ track = [p \in Players |-> First]
  /\ pending = [e \in Events |-> 0] /\ changes = 0 /\ fails = 0
  /\ pipeline = TRUE
  /\ registered = FALSE /\ session = NoPlayer
  /\ callback = TRUE /\ running = FALSE /\ last_track_key = NoTrack
  /\ mutex = <<>> /\ freed = FALSE /\ dangling = FALSE
  /\ thread = [t \in Threads |-> IF t = App THEN [Off EXCEPT !.pc = "init"] ELSE Off]
  /\ overtaken = FALSE
  /\ tile \in {Nothing, [key |-> First, art |-> TRUE]}   \* of an earlier session
-----------------------------------------------------------------------------
At(t, pc) == thread[t].pc = pc
Goto(t, pc) ==
  thread' = [thread EXCEPT
    ![t] = IF pc = "off" THEN Off ELSE [@ EXCEPT !.pc = pc, !.include = @ /\ pc = "art"]]

(* The record of a thread that is about to run emit_state and then go on. *)
Emission(include, then) ==
  [pc |-> "read", then |-> then, include |-> include, snapshot |-> Nothing]
MayEmit == Cardinality({t \in Threads : thread[t].then # "off"}) < MaxEmitting
Emits(t, include, then) ==
  /\ MayEmit
  /\ thread' = [thread EXCEPT ![t] = Emission(include, then)]

(* build_snapshot: the session's track.  Without a session, or when a call *)
(* fails, the snapshot is empty and the mutex is not taken again.          *)
Reads(t) ==
  /\ At(t, "read")
  /\ mutex = <<>>
  /\ \/ /\ session # NoPlayer
        /\ thread' = [thread EXCEPT ![t].pc = "art", ![t].snapshot.key = track[session]]
        /\ UNCHANGED fails
     \/ /\ session = NoPlayer \/ fails < MaxFails
        /\ fails' = IF session = NoPlayer THEN fails ELSE fails + 1
        /\ Goto(t, "store")
  /\ UNCHANGED <<current, track, pending, changes, pipeline, implVars, mutex, tileVars>>

(* The artwork is read with the mutex held, and its reading may fail too. *)
ComparesKey(t) ==
  /\ At(t, "art")
  /\ mutex = <<>>
  /\ IF thread[t].include \/ thread[t].snapshot.key # last_track_key
     THEN /\ mutex' = <<t>>
          /\ Goto(t, "artwork")
     ELSE /\ Goto(t, "store")
          /\ UNCHANGED mutex
  /\ UNCHANGED <<systemVars, pipeline, implVars, tileVars>>

ReadsArtwork(t) ==
  /\ At(t, "artwork")
  /\ mutex' = <<>>
  /\ \/ /\ thread' = [thread EXCEPT ![t].pc = "store", ![t].snapshot.art = TRUE]
        /\ UNCHANGED fails
     \/ /\ fails < MaxFails
        /\ fails' = fails + 1
        /\ thread' = [thread EXCEPT ![t].pc = "store", ![t].snapshot = Nothing]
  /\ UNCHANGED <<current, track, pending, changes, pipeline, implVars, tileVars>>

(* The thread goes on; after a key of the tile the burst is detached.      *)
Finishes(t) ==
  LET then == thread[t].then
  IN  thread' = [thread EXCEPT
        ![t] = IF then \in {"return", "detach"} THEN Off ELSE [Off EXCEPT !.pc = then],
        ![Burst] = IF then = "detach" THEN [Off EXCEPT !.pc = "pause"] ELSE @]

Overtakes(t) ==
  overtaken' = (overtaken \/ \E u \in Threads \ {t} :
                               thread[u].pc \in {"artwork", "store", "send"})

(* Mutant: the key of what plays now, and not of what was read. *)
StoresCurrentKey(t) ==
  /\ At(t, "store")
  /\ mutex = <<>>
  /\ last_track_key' = IF session = NoPlayer THEN NoTrack ELSE track[session]
  /\ Overtakes(t)
  /\ IF callback THEN Goto(t, "send") ELSE Finishes(t)
  /\ UNCHANGED <<systemVars, pipeline, registered, session, callback, running,
                 mutex, tile>>

(* emit_state: the key, and a copy of the callback. *)
Stores(t) ==
  /\ At(t, "store")
  /\ mutex = <<>>
  /\ last_track_key' = thread[t].snapshot.key
  /\ Overtakes(t)
  /\ IF callback THEN Goto(t, "send") ELSE Finishes(t)
  /\ UNCHANGED <<systemVars, pipeline, registered, session, callback, running,
                 mutex, tile>>

(* MediaState.fromJson: a state without artwork keeps that of its track.   *)
Shown(old, m) == [m EXCEPT !.art = @ \/ (old.key = m.key /\ old.art)]

(* The callback sends, if there is a pipeline; the tablet shows what it    *)
(* gets in the order of the connection.                                    *)
Sends(t) ==
  /\ At(t, "send")
  /\ tile' = IF pipeline THEN Shown(tile, thread[t].snapshot) ELSE tile
  /\ Overtakes(t)
  /\ Finishes(t)
  /\ UNCHANGED <<systemVars, pipeline, implVars, mutex>>

EmitStep(t) ==
  \/ Reads(t) \/ ComparesKey(t) \/ ReadsArtwork(t) \/ Stores(t) \/ Sends(t)
-----------------------------------------------------------------------------
(* The system: players come, go and change tracks, and report it to the    *)
(* handlers that are registered at that time.                              *)

Raise(condition, event) ==
  pending' = IF condition THEN [pending EXCEPT ![event] = @ + 1] ELSE pending

CurrentSessionChanges ==
  /\ changes < MaxChanges
  /\ changes' = changes + 1
  /\ current' \in (Players \cup {NoPlayer}) \ {current}
  /\ Raise(registered, "sessions")
  /\ UNCHANGED <<track, fails, pipeline, implVars, mutex, thread, tileVars>>

TrackChanges(p) ==
  /\ changes < MaxChanges
  /\ changes' = changes + 1
  /\ \E k \in Tracks \ {track[p]} : track' = [track EXCEPT ![p] = k]
  /\ Raise(session = p, "media")
  /\ UNCHANGED <<current, fails, pipeline, implVars, mutex, thread, tileVars>>

PlaybackChanges ==
  /\ changes < MaxChanges
  /\ changes' = changes + 1
  /\ session # NoPlayer
  /\ Raise(TRUE, "playback")
  /\ UNCHANGED <<current, track, fails, pipeline, implVars, mutex, thread, tileVars>>

(* A handler is called; playback events within 250 ms of the last emission *)
(* are passed over.                                                        *)
Handles(h) ==
  /\ At(h, "off")
  /\ \E e \in Events :
       /\ pending[e] > 0
       /\ pending' = [pending EXCEPT ![e] = @ - 1]
       /\ \/ e = "sessions" /\ Goto(h, "register")
          \/ e = "media" /\ Emits(h, TRUE, "return")
          \/ e = "playback" /\ Emits(h, FALSE, "return")
          \/ e = "playback" /\ UNCHANGED thread
  /\ UNCHANGED <<current, track, changes, fails, pipeline, implVars, mutex, tileVars>>

(* register_session_locked; shutdown() took the manager away.              *)
RegistersSession(t) ==
  /\ At(t, "register")
  /\ mutex = <<>>
  /\ session' = IF registered THEN current ELSE NoPlayer
  /\ UNCHANGED <<registered, callback, running, last_track_key>>

HandlerRegisters(h) ==
  /\ RegistersSession(h)
  /\ Emits(h, TRUE, "return")
  /\ UNCHANGED <<systemVars, pipeline, mutex, tileVars>>

(* toggle_play_pause, skip_previous, skip_next of a key of the tile: the   *)
(* player may refuse, and may change its track.                            *)
KeyPressed ==
  /\ At(Recv, "off") /\ At(Burst, "off")
  /\ pipeline /\ ~freed /\ mutex = <<>>
  /\ changes < MaxChanges
  /\ changes' = changes + 1
  /\ session # NoPlayer
  /\ \/ /\ Emits(Recv, FALSE, "detach")
        /\ \E k \in Tracks : track' = [track EXCEPT ![session] = k]
        /\ Raise(track' # track, "media")
     \/ UNCHANGED <<track, pending, thread>>
  /\ UNCHANGED <<current, fails, pipeline, implVars, mutex, tileVars>>
-----------------------------------------------------------------------------
(* The controller's own threads. *)

Polls ==
  /\ At(Poll, "sleep")
  /\ IF running THEN Emits(Poll, FALSE, "sleep") ELSE Goto(Poll, "exited")
  /\ UNCHANGED <<systemVars, pipeline, implVars, mutex, tileVars>>

Bursts ==
  /\ \/ /\ At(Burst, "pause")
        /\ IF running THEN Emits(Burst, FALSE, "pause again") ELSE Goto(Burst, "off")
     \/ /\ At(Burst, "pause again")
        /\ IF running THEN Emits(Burst, FALSE, "return") ELSE Goto(Burst, "off")
  /\ UNCHANGED <<systemVars, pipeline, implVars, mutex, tileVars>>

(* init(): the manager may be unavailable, and the application then sends  *)
(* an empty state and destroys the controller.                             *)
InitFails ==
  /\ At(App, "init")
  /\ Goto(App, "done")
  /\ tile' = Nothing
  /\ freed' = TRUE
  /\ UNCHANGED <<systemVars, pipeline, implVars, mutex, overtaken>>

InitRegisters ==
  /\ At(App, "init")
  /\ registered' = TRUE
  /\ Goto(App, "register")
  /\ UNCHANGED <<systemVars, pipeline, session, callback, running, last_track_key,
                 mutex, tileVars>>

AppRegisters ==
  /\ RegistersSession(App)
  /\ Goto(App, "start")
  /\ UNCHANGED <<systemVars, pipeline, mutex, tileVars>>

(* The poll thread, the first state, and connect_sync's second one.        *)
Starts ==
  /\ At(App, "start")
  /\ MayEmit
  /\ running' = TRUE
  /\ thread' = [thread EXCEPT ![App] = Emission(TRUE, "push"),
                              ![Poll] = [Off EXCEPT !.pc = "sleep"]]
  /\ UNCHANGED <<systemVars, pipeline, registered, session, callback, last_track_key,
                 mutex, tileVars>>

Pushes ==
  /\ At(App, "push")
  /\ Emits(App, TRUE, "up")
  /\ UNCHANGED <<systemVars, pipeline, implVars, mutex, tileVars>>

(* disconnect_sync: stop() joins the receive thread.                       *)
Disconnects ==
  /\ At(App, "up") /\ At(Recv, "off")
  /\ pipeline' = FALSE
  /\ Goto(App, "shutdown")
  /\ UNCHANGED <<systemVars, implVars, mutex, tileVars>>

(* Mutant: the mutex is taken before the poll thread is joined.            *)
ShutdownLocked ==
  /\ At(App, "shutdown")
  /\ mutex = <<>> /\ mutex' = <<App>>
  /\ running' = FALSE
  /\ Goto(App, "join")
  /\ UNCHANGED <<systemVars, pipeline, registered, session, callback, last_track_key,
                 tileVars>>

(* shutdown(): running (generation says no more than it does), the poll    *)
(* thread, and everything else under the mutex.                            *)
Shutdown ==
  /\ At(App, "shutdown")
  /\ running' = FALSE
  /\ Goto(App, "join")
  /\ UNCHANGED <<systemVars, pipeline, registered, session, callback, last_track_key,
                 mutex, tileVars>>

JoinsPoll ==
  /\ At(App, "join") /\ At(Poll, "exited")
  /\ Goto(App, "unregister")
  /\ UNCHANGED <<systemVars, pipeline, implVars, mutex, tileVars>>

Unregisters ==
  /\ At(App, "unregister")
  /\ mutex \in {<<>>, <<App>>} /\ mutex' = <<>>
  /\ registered' = FALSE /\ session' = NoPlayer /\ callback' = FALSE
  /\ last_track_key' = NoTrack
  /\ pending' = [e \in Events |-> 0]
  /\ Goto(App, "reset")
  /\ UNCHANGED <<current, track, changes, fails, pipeline, running, tileVars>>

(* reset(): the controller goes, whoever is in it.                         *)
Resets ==
  /\ At(App, "reset")
  /\ freed' = TRUE
  /\ Goto(App, "done")
  /\ UNCHANGED <<systemVars, pipeline, implVars, mutex, tileVars>>

(* A handler or the burst uses the controller that was destroyed.          *)
UsesFreed ==
  /\ freed
  /\ \E t \in Handlers \cup {Burst} : ~At(t, "off")
  /\ dangling' = TRUE
  /\ UNCHANGED <<systemVars, pipeline, implVars, mutex, freed, thread, tileVars>>
-----------------------------------------------------------------------------
AppStep ==
  \/ InitFails \/ Resets
  \/ /\ \/ InitRegisters \/ AppRegisters \/ Starts \/ Pushes \/ Shutdown
        \/ JoinsPoll \/ Unregisters \/ EmitStep(App)
     /\ UNCHANGED freed

System ==
  CurrentSessionChanges \/ PlaybackChanges \/ \E p \in Players : TrackChanges(p)

Own(t) ==
  /\ ~freed \/ At(t, "send")
  /\ \/ EmitStep(t)
     \/ t \in Handlers /\ (Handles(t) \/ HandlerRegisters(t))
     \/ t = Poll /\ Polls
     \/ t = Burst /\ Bursts
  /\ UNCHANGED freed

Next ==
  \/ /\ ~dangling
     /\ \/ AppStep
        \/ /\ System \/ KeyPressed \/ Disconnects
           /\ UNCHANGED freed
        \/ \E t \in Threads \ {App} : Own(t)
     /\ UNCHANGED dangling
  \/ ~dangling /\ UsesFreed

Spec == Init /\ [][Next]_vars

(* Threads run and get the mutex in the end: it is held for one reading of *)
(* the artwork.  Users, players and keys do nothing of necessity.          *)
FairSpec ==
  /\ Spec
  /\ SF_vars(AppStep /\ ~dangling /\ UNCHANGED dangling)
  /\ \A t \in Threads \ {App} : SF_vars(Own(t) /\ ~dangling /\ UNCHANGED dangling)
-----------------------------------------------------------------------------
(* Properties. *)

Playing == IF current = NoPlayer THEN NoTrack ELSE track[current]

(* Whatever events were passed over, snapshots failed or states overtook   *)
(* each other: while the controller runs the tile ends with the track that *)
(* plays, and with its artwork too unless one state was stored or sent     *)
(* while another had already decided on its artwork.                       *)
TileSettles ==
  <>[]running => <>[](tile.key = Playing /\ (overtaken \/ tile.art = (Playing # NoTrack)))

(* shutdown(), which joins the poll thread and takes the mutex its         *)
(* emissions take, returns, unless a thread has used what was destroyed.   *)
ShutdownReturns == At(App, "shutdown") ~> At(App, "done")
=============================================================================
