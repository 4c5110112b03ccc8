----------------------------- MODULE WindowsApp -----------------------------
(***************************************************************************)
(* The Windows tray application: the global g_app, its three atomic flags, *)
(* the unguarded objects of a stream and the threads that create and       *)
(* destroy them.  connect_sync and disconnect_sync run on detached         *)
(* threads, one per click, stats tick, device tick or Apply, and on the    *)
(* message loop when it quits; no lock orders them.  The virtual display   *)
(* has a keep-alive thread of its own.                                     *)
(***************************************************************************)
EXTENDS Naturals, Sequences

CONSTANTS
  Workers,      \* bound: detached threads alive at once
  UI,           \* the thread of the message loop
  MaxPosted     \* bound: messages posted to the window when the user acts

ASSUME WindowsAppAssumption ==
  /\ UI \notin Workers
  /\ MaxPosted \in Nat

Threads == Workers \cup {UI}

VARIABLES
  isStreaming, isBusy, userDisconnected,   \* the atomic flags
  objects,       \* the unique_ptrs of g_app that are set
  handle,        \* device_handle_ of the virtual display is open
  plugged,       \* the driver has a display of ours
  ping_running,  \* flag of the keep-alive thread
  pinger,        \* that thread
  forward,       \* is the adb forward of the port in place?
  posted,        \* messages in the window's queue: WM_UPDATE_UI, 1 or 2
  statsTimer,    \* is TIMER_STATS set?
  raw,           \* on_stats_timer holds a raw pointer to the pipeline
  connected,     \* adb sees the tablet
  alive,         \* is_running() of the pipeline
  thread,        \* what each thread is doing
  clash          \* two threads worked on the objects of g_app at once

flagVars    == <<isStreaming, isBusy, userDisconnected>>
displayVars == <<handle, plugged, ping_running, pinger>>
windowVars  == <<posted, statsTimer, raw>>
deviceVars  == <<connected, alive>>
vars == <<flagVars, objects, displayVars, forward, windowVars, deviceVars,
          thread, clash>>

Idle == [pc |-> "idle", job |-> "none"]

Init ==
  /\ isStreaming = FALSE /\ isBusy = FALSE /\ userDisconnected = FALSE
  /\ objects = {}
  /\ handle = FALSE /\ plugged = FALSE /\ ping_running = FALSE /\ pinger = "none"
  /\ forward = FALSE
  /\ posted = <<>> /\ statsTimer = FALSE /\ raw = FALSE
  /\ connected = FALSE /\ alive = FALSE
  /\ thread = [t \in Threads |-> Idle]
  /\ clash = FALSE
-----------------------------------------------------------------------------
(* Threads. *)

At(t, pc) == thread[t].pc = pc

(* Thread t goes on at pc; a thread that returns forgets what it knew.     *)
Goto(t, pc) ==
  thread' = [thread EXCEPT ![t] = IF pc = "idle" THEN Idle
                                                 ELSE [@ EXCEPT !.pc = pc]]

(* std::thread(...).detach(): some idle worker takes the job. *)
Spawn(job, pc) ==
  \E w \in Workers :
    /\ At(w, "idle")
    /\ thread' = [thread EXCEPT ![w] = [pc |-> pc, job |-> job]]

Spawns(condition, job, pc) ==
  IF condition THEN Spawn(job, pc) ELSE UNCHANGED thread

(* The places where a thread reads or writes the objects of g_app.         *)
InBody(t) ==
  thread[t].pc \in {"monitor", "capturer", "encoder", "client", "pipeline",
                    "stream", "controllers", "stop", "reset", "unping", "join"}

Alone(t) == \A u \in Threads \ {t} : ~InBody(u)

(* Where a thread goes when connect_sync or disconnect_sync returns.  Apply *)
(* goes on to connect; the message loop ends after its second look.        *)
AfterConnect == "idle"
AfterDisconnect(t) ==
  CASE thread[t].job = "apply" -> "sleep"
    [] thread[t].job = "quit"  -> "leaving"
    [] thread[t].job = "exit"  -> "exited"
    [] OTHER                   -> "idle"
-----------------------------------------------------------------------------
(* connect_sync. *)

ConnectChecks(t) ==
  /\ At(t, "connect")
  /\ Goto(t, IF isBusy \/ isStreaming THEN AfterConnect ELSE "claim")
  /\ UNCHANGED <<flagVars, objects, displayVars, forward,
                 windowVars, deviceVars, clash>>

ConnectClaims(t) ==
  /\ At(t, "claim")
  /\ isBusy' = TRUE
  /\ Goto(t, "forward")
  /\ UNCHANGED <<isStreaming, userDisconnected, objects, displayVars,
                 forward, windowVars, deviceVars, clash>>

(* adb_forward_setup fails without a device. *)
ConnectForwards(t) ==
  /\ At(t, "forward")
  /\ \/ /\ connected
        /\ forward' = TRUE
        /\ Goto(t, "display")
        /\ UNCHANGED isBusy
     \/ /\ isBusy' = FALSE
        /\ Goto(t, AfterConnect)
        /\ UNCHANGED forward
  /\ UNCHANGED <<isStreaming, userDisconnected, objects, displayVars,
                 windowVars, deviceVars, clash>>

(* The first half of VirtualDisplayWin::create: the driver's handle, the   *)
(* display, the keep-alive thread.                                         *)
CreatesDisplay ==
  /\ handle' = TRUE /\ plugged' = TRUE
  /\ ping_running' = TRUE /\ pinger' = "running"

(* make_unique<VirtualDisplayWin>, is_driver_installed and create(): the   *)
(* driver, its handle or the display may be refused, and the object then   *)
(* goes at once.                                                           *)
ConnectPlugs(t) ==
  /\ At(t, "display")
  /\ \/ /\ objects' = objects \cup {"vdisplay"}
        /\ CreatesDisplay
        /\ Goto(t, "monitor")
     \/ /\ objects' = objects \ {"vdisplay"}
        /\ Goto(t, "unforward")
        /\ UNCHANGED displayVars
  /\ clash' = (~Alone(t) \/ objects # {})
  /\ UNCHANGED <<flagVars, forward, windowVars, deviceVars>>

(* What each stage of connect_sync sets, and what it resets, besides the   *)
(* virtual display, when it fails.                                         *)
Sets == [monitor  |-> {},
         capturer |-> {"capturer"},
         encoder  |-> {"encoder"},
         client   |-> {"injectors", "client"},
         pipeline |-> {"deck", "controllers", "pipeline"}]

(* Mutant: the failed TCP connect leaves the injectors. *)
ResetsForgetful ==
  [monitor  |-> {},
   capturer |-> {"capturer"},
   encoder  |-> {"encoder", "capturer"},
   client   |-> {"encoder", "capturer", "client"},
   pipeline |-> {"pipeline", "deck", "controllers", "encoder", "client",
                 "capturer", "injectors"}]

Resets ==
  [monitor  |-> {},
   capturer |-> {"capturer"},
   encoder  |-> {"encoder", "capturer"},
   client   |-> {"encoder", "capturer", "injectors", "client"},
   pipeline |-> {"pipeline", "deck", "controllers", "encoder", "client",
                 "capturer", "injectors"}]

Following == [monitor |-> "capturer", capturer |-> "encoder",
              encoder |-> "client", client |-> "pipeline", pipeline |-> "stream"]

(* A stage: the monitor is found, or the part is made and works, or all is *)
(* undone.  TCP needs the forward, the handshake of Pipeline::start the    *)
(* application on the tablet, which answers or hangs up.                   *)
ConnectStage(t, stage) ==
  /\ At(t, stage)
  /\ \/ /\ stage = "client" => forward
        /\ stage = "pipeline" => connected
        /\ objects' = objects \cup Sets[stage]
        /\ alive' = (alive \/ stage = "pipeline")
        /\ Goto(t, Following[stage])
     \/ /\ objects' = (objects \cup Sets[stage]) \ Resets[stage]
        /\ Goto(t, "unping")
        /\ UNCHANGED alive
  /\ UNCHANGED <<flagVars, displayVars, forward, windowVars,
                 connected, clash>>

ConnectStreams(t) ==
  /\ At(t, "stream")
  /\ isStreaming' = TRUE
  /\ Goto(t, "controllers")
  /\ UNCHANGED <<isBusy, userDisconnected, objects, displayVars,
                 forward, windowVars, deviceVars, clash>>

(* The controllers are initialised and may fail; the timer is asked for.   *)
ConnectControls(t) ==
  /\ At(t, "controllers")
  /\ objects' \in {objects, objects \ {"controllers"}}
  /\ posted' = Append(posted, "start")
  /\ Goto(t, "release")
  /\ UNCHANGED <<flagVars, displayVars, forward, statsTimer, raw,
                 deviceVars, clash>>

ConnectReleases(t) ==
  /\ At(t, "release")
  /\ isBusy' = FALSE
  /\ Goto(t, AfterConnect)
  /\ UNCHANGED <<isStreaming, userDisconnected, objects, displayVars,
                 forward, windowVars, deviceVars, clash>>
-----------------------------------------------------------------------------
(* VirtualDisplayWin::destroy and the removal of the forward: the end of   *)
(* every undone connect_sync and of disconnect_sync.                       *)

StopPinging(t) ==
  /\ At(t, "unping")
  /\ ping_running' = FALSE
  /\ Goto(t, "join")
  /\ UNCHANGED <<flagVars, objects, handle, plugged, pinger, forward,
                 windowVars, deviceVars, clash>>

Unplugs(t) ==
  /\ At(t, "join")
  /\ pinger # "running"
  /\ pinger' = "none"
  /\ plugged' = FALSE /\ handle' = FALSE
  /\ objects' = objects \ {"vdisplay"}
  /\ Goto(t, "unforward")
  /\ UNCHANGED <<flagVars, ping_running, forward, windowVars,
                 deviceVars, clash>>

(* Mutant: a connect_sync that failed stays busy. *)
StaysBusy(t) ==
  /\ At(t, "unforward")
  /\ forward' = FALSE
  /\ Goto(t, IF thread[t].job = "connect" THEN AfterConnect ELSE AfterDisconnect(t))
  /\ UNCHANGED <<flagVars, objects, displayVars, windowVars,
                 deviceVars, clash>>

RemovesForward(t) ==
  /\ At(t, "unforward")
  /\ forward' = FALSE
  /\ IF thread[t].job = "connect"
     THEN isBusy' = FALSE /\ Goto(t, AfterConnect)
     ELSE UNCHANGED isBusy /\ Goto(t, AfterDisconnect(t))
  /\ UNCHANGED <<isStreaming, userDisconnected, objects, displayVars,
                 windowVars, deviceVars, clash>>

PingLoop ==
  /\ pinger = "running"
  /\ ~ping_running
  /\ pinger' = "exited"
  /\ UNCHANGED <<flagVars, objects, handle, plugged, ping_running,
                 forward, windowVars, deviceVars, thread, clash>>
-----------------------------------------------------------------------------
(* disconnect_sync. *)

DisconnectChecks(t) ==
  /\ At(t, "disconnect")
  /\ Goto(t, IF isStreaming THEN "clear" ELSE AfterDisconnect(t))
  /\ UNCHANGED <<flagVars, objects, displayVars, forward,
                 windowVars, deviceVars, clash>>

DisconnectClears(t) ==
  /\ At(t, "clear")
  /\ isStreaming' = FALSE
  /\ posted' = Append(posted, "stop")
  /\ Goto(t, "stop")
  /\ clash' = ~Alone(t)
  /\ UNCHANGED <<isBusy, userDisconnected, objects, displayVars,
                 forward, statsTimer, raw, deviceVars>>

(* Mutant: the parts go before the pipeline that points at them. *)
ResetsPartsFirst(t) ==
  /\ At(t, "stop")
  /\ objects' = objects \cap {"vdisplay", "pipeline"}
  /\ Goto(t, "reset")
  /\ UNCHANGED <<flagVars, displayVars, forward, windowVars,
                 deviceVars, clash>>

(* Pipeline::stop() has joined its threads.  Only the message loop may     *)
(* still hold a pointer to it.                                             *)
StopsPipeline(t) ==
  /\ At(t, "stop")
  /\ alive' = FALSE
  /\ objects' = objects \ {"pipeline"}
  /\ clash' = raw
  /\ Goto(t, "reset")
  /\ UNCHANGED <<flagVars, displayVars, forward, windowVars, connected>>

ResetsParts(t) ==
  /\ At(t, "reset")
  /\ objects' = objects \cap {"vdisplay"}
  /\ Goto(t, IF "vdisplay" \in objects THEN "unping" ELSE "unforward")
  /\ UNCHANGED <<flagVars, displayVars, forward, windowVars,
                 deviceVars, clash>>
-----------------------------------------------------------------------------
(* The message loop. *)

(* WndProc, WM_UPDATE_UI; also on the way out, before WM_QUIT is seen.     *)
HandlePosted ==
  /\ thread[UI].pc \in {"idle", "leaving"} /\ ~raw
  /\ posted # <<>>
  /\ posted' = Tail(posted)
  /\ statsTimer' = (Head(posted) = "start")
  /\ UNCHANGED <<flagVars, objects, displayVars, forward, raw,
                 deviceVars, thread, clash>>

UserMay == At(UI, "idle") /\ ~raw /\ Len(posted) <= MaxPosted

(* IDM_CONNECT. *)
Click ==
  /\ UserMay
  /\ userDisconnected' = isStreaming
  /\ IF isStreaming THEN Spawn("disconnect", "disconnect")
                    ELSE Spawns(~isBusy, "connect", "connect")
  /\ UNCHANGED <<isStreaming, isBusy, objects, displayVars, forward,
                 windowVars, deviceVars, clash>>

(* apply_settings_from_dialog: without a stream it only saves. *)
Apply ==
  /\ UserMay
  /\ isStreaming
  /\ Spawn("apply", "disconnect")
  /\ UNCHANGED <<flagVars, objects, displayVars, forward, windowVars, deviceVars,
                 clash>>

(* The restart sleeps half a second, then connects. *)
ApplyGoesOn(t) ==
  /\ At(t, "sleep")
  /\ thread' = [thread EXCEPT ![t] = [pc |-> "connect", job |-> "connect"]]
  /\ UNCHANGED <<flagVars, objects, displayVars, forward,
                 windowVars, deviceVars, clash>>

(* on_stats_timer, in two steps: the pointer is taken, then used.          *)
TimersMay == At(UI, "idle") /\ ~raw /\ posted = <<>>

StatsTimerReads ==
  /\ TimersMay /\ statsTimer
  /\ isStreaming /\ "pipeline" \in objects
  /\ raw' = TRUE
  /\ UNCHANGED <<flagVars, objects, displayVars, forward, posted,
                 statsTimer, deviceVars, thread, clash>>

(* Mutant: a pipeline that stopped by itself is only logged. *)
StatsTimerLogs ==
  /\ raw
  /\ raw' = FALSE
  /\ UNCHANGED <<flagVars, objects, displayVars, forward, posted,
                 statsTimer, deviceVars, thread, clash>>

StatsTimerUses ==
  /\ raw
  /\ raw' = FALSE
  /\ Spawns(~alive /\ isStreaming, "disconnect", "disconnect")
  /\ UNCHANGED <<flagVars, objects, displayVars, forward, posted,
                 statsTimer, deviceVars, clash>>

DeviceTimer ==
  /\ TimersMay
  /\ Spawn("device", "device")
  /\ UNCHANGED <<flagVars, objects, displayVars, forward,
                 windowVars, deviceVars, clash>>

(* The thread of on_device_timer: adb answers, then the flags are read.    *)
DeviceLooks(t) ==
  /\ At(t, "device")
  /\ Goto(t, IF connected THEN "present" ELSE "gone")
  /\ UNCHANGED <<flagVars, objects, displayVars, forward,
                 windowVars, deviceVars, clash>>

DeviceGone(t) ==
  /\ At(t, "gone")
  /\ userDisconnected' = FALSE
  /\ thread' = [thread EXCEPT ![t] =
                 IF isStreaming /\ ~isBusy
                 THEN [pc |-> "disconnect", job |-> "disconnect"]
                 ELSE Idle]
  /\ UNCHANGED <<isStreaming, isBusy, objects, displayVars, forward,
                 windowVars, deviceVars, clash>>

DevicePresent(t) ==
  /\ At(t, "present")
  /\ Goto(t, IF isStreaming \/ isBusy \/ userDisconnected THEN "idle" ELSE "pidof")
  /\ UNCHANGED <<flagVars, objects, displayVars, forward,
                 windowVars, deviceVars, clash>>

DeviceConnects(t) ==
  /\ At(t, "pidof")
  /\ thread' \in {[thread EXCEPT ![t] = Idle],
                  [thread EXCEPT ![t] = [pc |-> "connect", job |-> "connect"]]}
  /\ UNCHANGED <<flagVars, objects, displayVars, forward,
                 windowVars, deviceVars, clash>>

(* IDM_QUIT, WM_QUIT and the end of wWinMain. *)
Quit ==
  /\ UserMay
  /\ thread' = [thread EXCEPT ![UI] = [Idle EXCEPT !.job = "quit", !.pc =
                 IF isStreaming THEN "disconnect" ELSE "leaving"]]
  /\ UNCHANGED <<flagVars, objects, displayVars, forward,
                 windowVars, deviceVars, clash>>

LeaveLoop ==
  /\ At(UI, "leaving") /\ posted = <<>>
  /\ thread' = [thread EXCEPT ![UI] = [Idle EXCEPT !.job = "exit", !.pc =
                 IF isStreaming THEN "disconnect" ELSE "exited"]]
  /\ UNCHANGED <<flagVars, objects, displayVars, forward,
                 windowVars, deviceVars, clash>>
-----------------------------------------------------------------------------
(* The tablet is plugged or unplugged, or its application stops: a stream  *)
(* does not survive that.                                                  *)
DeviceChanges ==
  /\ connected' \in BOOLEAN
  /\ alive' = FALSE
  /\ UNCHANGED <<flagVars, objects, displayVars, forward,
                 windowVars, thread, clash>>

Stage(t) == \E stage \in DOMAIN Sets : ConnectStage(t, stage)

Work(t) ==
  \/ ConnectChecks(t) \/ ConnectClaims(t) \/ ConnectForwards(t) \/ ConnectPlugs(t)
  \/ Stage(t) \/ ConnectStreams(t) \/ ConnectControls(t) \/ ConnectReleases(t)
  \/ StopPinging(t) \/ Unplugs(t) \/ RemovesForward(t)
  \/ DisconnectChecks(t) \/ DisconnectClears(t) \/ StopsPipeline(t) \/ ResetsParts(t)
  \/ ApplyGoesOn(t)
  \/ DeviceLooks(t) \/ DeviceGone(t) \/ DevicePresent(t) \/ DeviceConnects(t)

MessageLoop == HandlePosted \/ StatsTimerReads \/ StatsTimerUses \/ LeaveLoop

(* What follows a clash is undefined and the process may have exited:      *)
(* neither has a next step.                                                *)
Goes == ~clash /\ ~At(UI, "exited")

Next ==
  /\ Goes
  /\ \/ \E t \in Threads : Work(t)
     \/ PingLoop \/ MessageLoop
     \/ Click \/ Apply \/ Quit \/ DeviceTimer \/ DeviceChanges

(* Every thread is scheduled and the loop handles its messages and the     *)
(* stats timer; nothing makes the user, the tablet or the device timer act.*)
Fairness ==
  /\ \A t \in Threads : WF_vars(Goes /\ Work(t))
  /\ WF_vars(Goes /\ PingLoop)
  /\ WF_vars(Goes /\ MessageLoop)

Spec == Init /\ [][Next]_vars /\ Fairness
-----------------------------------------------------------------------------
Undisturbed == ~clash /\ ~At(UI, "exited")

(* While no two threads have met in the objects of g_app, nobody is left   *)
(* without what it uses: the pipeline has every part it was given raw      *)
(* pointers to, the capturer has its monitor in the driver and kept alive, *)
(* and the keep-alive thread an open handle.  Hence what each failure path *)
(* of connect_sync has to undo before the display goes, and the order of   *)
(* disconnect_sync; the resets of one failure path are one step.           *)
PartsOutliveUsers ==
  ~clash =>
    /\ "pipeline" \in objects =>
         {"vdisplay", "capturer", "encoder", "client", "injectors", "deck"} \subseteq objects
    /\ "capturer" \in objects => plugged /\ pinger = "running"
    /\ pinger # "none" => handle /\ "vdisplay" \in objects

(* When all threads are idle and no stream is up, whatever failed, was     *)
(* stopped or raced before, nothing of a stream is left: no object, no     *)
(* display in the driver, no keep-alive thread, no busy flag, no forward.  *)
NothingLeftBehind ==
  (~clash /\ ~isStreaming /\ \A t \in Threads : thread[t].pc \in {"idle", "exited"}) =>
    /\ objects = {} /\ ~handle /\ ~plugged /\ pinger = "none"
    /\ ~isBusy
    /\ ~forward

(* A stream whose pipeline stopped by itself is taken down, by the stats   *)
(* timer: start and stop requests of that timer cross in the window's      *)
(* queue without losing the one a live stream needs.                       *)
DeadStreamEnds == (isStreaming /\ ~alive) ~> ~(isStreaming /\ Undisturbed)

(* The busy flag, which disables Connect and the automatic connection,     *)
(* goes down again after every connect_sync, however it ended.             *)
BusyIsReleased == isBusy ~> ~(isBusy /\ Undisturbed)
=============================================================================
