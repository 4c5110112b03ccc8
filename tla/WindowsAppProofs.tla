-------------------------- MODULE WindowsAppProofs --------------------------
(***************************************************************************)
(* Proofs about the Windows tray application, for every number of threads  *)
(* that connect, disconnect and apply settings at once.                    *)
(***************************************************************************)
EXTENDS WindowsApp, TLAPS

(* Where connect_sync, the undoing of a stream and disconnect_sync work on *)
(* the objects of g_app: InBody.                                           *)
Stages == {"monitor", "capturer", "encoder", "client", "pipeline"}

Body == Stages \cup {"stream", "controllers", "stop", "reset", "unping", "join"}

Connecting ==
  {"connect", "claim", "forward", "display", "stream", "controllers", "release"}
    \cup Stages

Steps ==
  Connecting \cup Body
    \cup {"idle", "unforward", "disconnect", "clear", "sleep", "device", "gone",
          "present", "pidof", "leaving", "exited"}

Jobs == {"none", "connect", "disconnect", "apply", "device", "quit", "exit"}

State == [pc : Steps, job : Jobs]

Parts == {"vdisplay", "capturer", "encoder", "client", "injectors", "deck",
          "controllers", "pipeline"}

DataOK ==
  /\ isStreaming \in BOOLEAN /\ isBusy \in BOOLEAN /\ userDisconnected \in BOOLEAN
  /\ objects \subseteq Parts
  /\ handle \in BOOLEAN /\ plugged \in BOOLEAN /\ ping_running \in BOOLEAN
  /\ pinger \in {"none", "running", "exited"}
  /\ forward \in BOOLEAN /\ statsTimer \in BOOLEAN /\ raw \in BOOLEAN
  /\ posted \in Seq({"start", "stop"})
  /\ connected \in BOOLEAN /\ alive \in BOOLEAN /\ clash \in BOOLEAN

TypeOK == DataOK /\ thread \in [Threads -> State]

(* connect_sync knows that it is connect_sync.                             *)
JobsKnown ==
  \A t \in Threads : thread[t].pc \in Connecting => thread[t].job = "connect"

(* The busy flag has an owner who will clear it.                           *)
Busy == (Connecting \ {"connect", "claim"}) \cup {"unping", "join", "unforward"}

BusyOwned ==
  isBusy => \E t \in Threads : thread[t].job = "connect" /\ thread[t].pc \in Busy

(* So has the forward, unless a stream uses it.                            *)
Forwarding ==
  Stages \cup {"display", "stream", "stop", "reset", "unping", "join", "unforward"}

ForwardOwned ==
  forward => isStreaming \/ \E t \in Threads : thread[t].pc \in Forwarding

(* The virtual display, in use and gone.                                   *)
Up == handle /\ plugged /\ ping_running /\ pinger = "running"

Down == ~handle /\ ~plugged /\ pinger = "none"

(* The controllers are optional.                                           *)
Complete == objects \cup {"controllers"} = Parts

(* The objects while nobody works on them.                                 *)
Rest == IF isStreaming THEN Up /\ Complete ELSE Down /\ objects = {}

(* The objects when the thread that works on them is at pc.                *)
Building(parts) == ~isStreaming /\ Up /\ objects = parts

PartsAt(pc) ==
  /\ pc \notin Body => Rest
  /\ pc \in {"monitor", "capturer"} => Building({"vdisplay"})
  /\ pc = "encoder" => Building({"vdisplay", "capturer"})
  /\ pc = "client" => Building({"vdisplay", "capturer", "encoder"})
  /\ pc = "pipeline" =>
       Building({"vdisplay", "capturer", "encoder", "injectors", "client"})
  /\ pc = "stream" => Building(Parts)
  /\ pc = "controllers" => isStreaming /\ Up /\ objects = Parts
  /\ pc = "stop" => ~isStreaming /\ IF Up THEN Complete ELSE Down /\ objects = {}
  /\ pc = "reset" =>
       /\ ~isStreaming
       /\ IF Up THEN objects \cup {"controllers"} = Parts \ {"pipeline"}
                ELSE Down /\ objects = {}
  /\ pc = "unping" => Building({"vdisplay"})
  /\ pc = "join" =>
       /\ ~isStreaming /\ objects = {"vdisplay"}
       /\ handle /\ plugged /\ ~ping_running /\ pinger # "none"

(* One thread at a time works on the objects, and leaves them in order.    *)
Ordered ==
  /\ \A t, u \in Threads : InBody(t) /\ InBody(u) => t = u
  /\ \A t \in Threads : InBody(t) => PartsAt(thread[t].pc)
  /\ (\A t \in Threads : ~InBody(t)) => Rest

IInv == TypeOK /\ JobsKnown /\ BusyOwned /\ ForwardOwned /\ (~clash => Ordered)
-----------------------------------------------------------------------------
(* How a thread goes on.                                                   *)

Moves(t, pc, job) ==
  /\ thread' \in [Threads -> State]
  /\ thread'[t] = [pc |-> pc, job |-> job]
  /\ \A u \in Threads : u # t => thread'[u] = thread[u]

(* A thread that is given a state has it, and no other thread moves.       *)
LEMMA Becomes ==
  ASSUME thread \in [Threads -> State], NEW t \in Threads,
         NEW pc \in Steps, NEW job \in Jobs,
         thread' = [thread EXCEPT ![t] = [pc |-> pc, job |-> job]]
  PROVE  Moves(t, pc, job)
<1>1. [pc |-> pc, job |-> job] \in State
  BY DEF State
<1>. QED  BY <1>1 DEF Moves

(* The job of a thread after a step; a thread that returns forgets it.     *)
JobAfter(t, pc) == IF pc = "idle" THEN "none" ELSE thread[t].job

(* A thread that goes on keeps its job until it returns.                   *)
LEMMA GotoMoves ==
  ASSUME TypeOK, NEW t \in Threads, NEW pc \in Steps, Goto(t, pc)
  PROVE  Moves(t, pc, JobAfter(t, pc)) /\ thread' \in [Threads -> State]
<1>0. thread \in [Threads -> State]
  BY DEF TypeOK
<1>1. thread[t].job \in Jobs /\ "none" \in Jobs
  BY <1>0 DEF State, Jobs
<1>2. (IF pc = "idle" THEN Idle ELSE [thread[t] EXCEPT !.pc = pc])
        = [pc |-> pc, job |-> JobAfter(t, pc)]
  BY <1>0 DEF State, JobAfter, Idle
<1>3. thread' = [thread EXCEPT ![t] = [pc |-> pc, job |-> JobAfter(t, pc)]]
  BY <1>2 DEF Goto
<1>4. JobAfter(t, pc) \in Jobs
  BY <1>1 DEF JobAfter
<1>5. Moves(t, pc, JobAfter(t, pc))
  BY <1>0, <1>3, <1>4, Becomes
<1>. QED  BY <1>5 DEF Moves

(* A detached thread starts in the place of one that was idle.             *)
LEMMA SpawnMoves ==
  ASSUME TypeOK, NEW job \in Jobs, NEW pc \in Steps, Spawn(job, pc)
  PROVE  /\ thread' \in [Threads -> State]
         /\ \E w \in Threads : thread[w].pc = "idle" /\ Moves(w, pc, job)
<1>0. thread \in [Threads -> State]
  BY DEF TypeOK
<1>1. PICK w \in Workers : /\ thread[w].pc = "idle"
                           /\ thread' = [thread EXCEPT ![w] = [pc |-> pc, job |-> job]]
  BY DEF Spawn, At
<1>2. w \in Threads
  BY DEF Threads
<1>3. Moves(w, pc, job)
  BY <1>0, <1>1, <1>2, Becomes
<1>. QED  BY <1>1, <1>2, <1>3 DEF Moves

(* The places a thread can go to.                                          *)
LEMMA StepsAre ==
  /\ \A pc \in Stages : pc \in Steps /\ Following[pc] \in Steps
  /\ {"idle", "claim", "forward", "display", "unforward", "monitor", "stream",
      "controllers", "release", "unping", "join", "clear", "stop", "reset",
      "sleep", "leaving", "exited", "connect", "disconnect", "present", "gone",
      "pidof", "device"} \subseteq Steps
  /\ AfterConnect = "idle"
  /\ \A t \in Threads : AfterDisconnect(t) \in {"sleep", "leaving", "exited", "idle"}
BY DEF Steps, Stages, Connecting, Body, Following, AfterConnect,
    AfterDisconnect

(* The jobs, listed.                                                       *)
LEMMA JobsAre == {"none", "connect", "disconnect", "apply", "device", "quit", "exit"} = Jobs
BY DEF Jobs

(* What the parts of a stage are.                                          *)
LEMMA StagesAre ==
  /\ DOMAIN Sets = Stages
  /\ \A s \in Stages : Sets[s] \subseteq Parts /\ Resets[s] \subseteq Parts
BY DEF Sets, Resets, Stages, Parts

(* The flow of control: where each step of a thread starts and leads.      *)
Takes(t, from, to) == thread[t].pc = from /\ Moves(t, to, JobAfter(t, to))

(* Every step of a thread starts at one point of its code and leads to one *)
(* of a few.                                                               *)
LEMMA Flow ==
  ASSUME TypeOK, NEW t \in Threads
  PROVE  /\ ConnectChecks(t) => Takes(t, "connect", "idle") \/ Takes(t, "connect", "claim")
         /\ ConnectClaims(t) => Takes(t, "claim", "forward")
         /\ ConnectForwards(t) => Takes(t, "forward", "display") \/ Takes(t, "forward", "idle")
         /\ ConnectPlugs(t) => Takes(t, "display", "monitor") \/ Takes(t, "display", "unforward")
         /\ ConnectStreams(t) => Takes(t, "stream", "controllers")
         /\ ConnectControls(t) => Takes(t, "controllers", "release")
         /\ ConnectReleases(t) => Takes(t, "release", "idle")
         /\ StopPinging(t) => Takes(t, "unping", "join")
         /\ Unplugs(t) => Takes(t, "join", "unforward")
         /\ DisconnectClears(t) => Takes(t, "clear", "stop")
         /\ StopsPipeline(t) => Takes(t, "stop", "reset")
         /\ ResetsParts(t) => Takes(t, "reset", "unping") \/ Takes(t, "reset", "unforward")
         /\ DeviceLooks(t) => Takes(t, "device", "present") \/ Takes(t, "device", "gone")
         /\ DevicePresent(t) => Takes(t, "present", "idle") \/ Takes(t, "present", "pidof")
         /\ \A s \in Stages : ConnectStage(t, s) =>
              Takes(t, s, Following[s]) \/ Takes(t, s, "unping")
         /\ RemovesForward(t) =>
              /\ thread[t].job = "connect" => Takes(t, "unforward", "idle")
              /\ thread[t].job # "connect" => Takes(t, "unforward", AfterDisconnect(t))
         /\ DisconnectChecks(t) =>
              \/ Takes(t, "disconnect", "clear")
              \/ Takes(t, "disconnect", AfterDisconnect(t))
         /\ ApplyGoesOn(t) => thread[t].pc = "sleep" /\ Moves(t, "connect", "connect")
         /\ DeviceGone(t) =>
              /\ thread[t].pc = "gone"
              /\ Moves(t, "disconnect", "disconnect") \/ Moves(t, "idle", "none")
         /\ DeviceConnects(t) =>
              /\ thread[t].pc = "pidof"
              /\ Moves(t, "connect", "connect") \/ Moves(t, "idle", "none")
<1>. USE GotoMoves, StepsAre DEF At, Takes
<1>0. thread \in [Threads -> State]
  BY DEF TypeOK
<1>1. ConnectChecks(t) => Takes(t, "connect", "idle") \/ Takes(t, "connect", "claim")
  BY DEF ConnectChecks
<1>2. ConnectClaims(t) => Takes(t, "claim", "forward")
  BY DEF ConnectClaims
<1>3. ConnectForwards(t) => Takes(t, "forward", "display") \/ Takes(t, "forward", "idle")
  BY DEF ConnectForwards
<1>4. ConnectPlugs(t) => Takes(t, "display", "monitor") \/ Takes(t, "display", "unforward")
  BY DEF ConnectPlugs
<1>5. ConnectStreams(t) => Takes(t, "stream", "controllers")
  BY DEF ConnectStreams
<1>6. ConnectControls(t) => Takes(t, "controllers", "release")
  BY DEF ConnectControls
<1>7. ConnectReleases(t) => Takes(t, "release", "idle")
  BY DEF ConnectReleases
<1>8. StopPinging(t) => Takes(t, "unping", "join")
  BY DEF StopPinging
<1>9. Unplugs(t) => Takes(t, "join", "unforward")
  BY DEF Unplugs
<1>10. DisconnectClears(t) => Takes(t, "clear", "stop")
  BY DEF DisconnectClears
<1>11. StopsPipeline(t) => Takes(t, "stop", "reset")
  BY DEF StopsPipeline
<1>12. ResetsParts(t) => Takes(t, "reset", "unping") \/ Takes(t, "reset", "unforward")
  BY DEF ResetsParts
<1>13. DeviceLooks(t) => Takes(t, "device", "present") \/ Takes(t, "device", "gone")
  BY DEF DeviceLooks
<1>14. DevicePresent(t) => Takes(t, "present", "idle") \/ Takes(t, "present", "pidof")
  BY DEF DevicePresent
<1>15. \A s \in Stages : ConnectStage(t, s) =>
         Takes(t, s, Following[s]) \/ Takes(t, s, "unping")
  BY DEF ConnectStage
<1>16. RemovesForward(t) =>
         /\ thread[t].job = "connect" => Takes(t, "unforward", "idle")
         /\ thread[t].job # "connect" => Takes(t, "unforward", AfterDisconnect(t))
  BY DEF RemovesForward
<1>17. DisconnectChecks(t) =>
         \/ Takes(t, "disconnect", "clear")
         \/ Takes(t, "disconnect", AfterDisconnect(t))
  BY DEF DisconnectChecks
<1>18. ApplyGoesOn(t) => thread[t].pc = "sleep" /\ Moves(t, "connect", "connect")
  BY <1>0, JobsAre, Becomes DEF ApplyGoesOn
<1>19. DeviceGone(t) =>
         /\ thread[t].pc = "gone"
         /\ Moves(t, "disconnect", "disconnect") \/ Moves(t, "idle", "none")
  BY <1>0, JobsAre, Becomes DEF DeviceGone, Idle
<1>20. DeviceConnects(t) =>
         /\ thread[t].pc = "pidof"
         /\ Moves(t, "connect", "connect") \/ Moves(t, "idle", "none")
  BY <1>0, JobsAre, Becomes DEF DeviceConnects, Idle
<1>. QED  BY <1>1, <1>2, <1>3, <1>4, <1>5, <1>6, <1>7, <1>8, <1>9, <1>10,
     <1>11, <1>12, <1>13, <1>14, <1>15, <1>16, <1>17, <1>18, <1>19, <1>20

(* The threads the message loop and the user start, and the loop's own end. *)
LEMMA Starts ==
  ASSUME TypeOK
  PROVE  /\ Click => \/ UNCHANGED thread
                     \/ \E w \in Threads : thread[w].pc = "idle" /\
                          (Moves(w, "disconnect", "disconnect") \/ Moves(w, "connect", "connect"))
         /\ Apply => \E w \in Threads : thread[w].pc = "idle" /\ Moves(w, "disconnect", "apply")
         /\ StatsTimerUses =>
              \/ UNCHANGED thread
              \/ \E w \in Threads : thread[w].pc = "idle" /\ Moves(w, "disconnect", "disconnect")
         /\ DeviceTimer => \E w \in Threads : thread[w].pc = "idle" /\ Moves(w, "device", "device")
         /\ Quit => /\ thread[UI].pc = "idle"
                    /\ Moves(UI, "disconnect", "quit") \/ Moves(UI, "leaving", "quit")
         /\ LeaveLoop => /\ thread[UI].pc = "leaving"
                         /\ Moves(UI, "disconnect", "exit") \/ Moves(UI, "exited", "exit")
<1>. USE JobsAre, StepsAre
<1>0. thread \in [Threads -> State] /\ UI \in Threads
  BY DEF TypeOK, Threads
<1>1. Click => \/ UNCHANGED thread
               \/ \E w \in Threads : thread[w].pc = "idle" /\
                    (Moves(w, "disconnect", "disconnect") \/ Moves(w, "connect", "connect"))
  BY SpawnMoves DEF Click, Spawns
<1>2. Apply => \E w \in Threads : thread[w].pc = "idle" /\ Moves(w, "disconnect", "apply")
  BY SpawnMoves DEF Apply
<1>3. StatsTimerUses =>
        \/ UNCHANGED thread
        \/ \E w \in Threads : thread[w].pc = "idle" /\ Moves(w, "disconnect", "disconnect")
  BY SpawnMoves DEF StatsTimerUses, Spawns
<1>4. DeviceTimer => \E w \in Threads : thread[w].pc = "idle" /\ Moves(w, "device", "device")
  BY SpawnMoves DEF DeviceTimer
<1>5. Quit => /\ thread[UI].pc = "idle"
              /\ Moves(UI, "disconnect", "quit") \/ Moves(UI, "leaving", "quit")
  BY <1>0, Becomes DEF Quit, UserMay, At, Idle
<1>6. LeaveLoop => /\ thread[UI].pc = "leaving"
                   /\ Moves(UI, "disconnect", "exit") \/ Moves(UI, "exited", "exit")
  BY <1>0, Becomes DEF LeaveLoop, At, Idle
<1>. QED  BY <1>1, <1>2, <1>3, <1>4, <1>5, <1>6

-----------------------------------------------------------------------------
(* Types.                                                                  *)
LEMMA NextDataOK ==
  ASSUME DataOK, Next
  PROVE  DataOK'
<1>. USE DEF DataOK, flagVars, displayVars, windowVars, deviceVars
<1>1. ASSUME NEW t \in Threads, Work(t) PROVE DataOK'
  <2>1. CASE ConnectChecks(t)
    BY <2>1 DEF ConnectChecks
  <2>2. CASE ConnectClaims(t)
    BY <2>2 DEF ConnectClaims
  <2>3. CASE ConnectForwards(t)
    <3>1. isBusy' \in BOOLEAN /\ forward' \in BOOLEAN
      BY <2>3 DEF ConnectForwards
    <3>2. UNCHANGED <<isStreaming, userDisconnected, objects, displayVars,
                      windowVars, deviceVars, clash>>
      BY <2>3 DEF ConnectForwards
    <3>. QED  BY <3>1, <3>2
  <2>4. CASE ConnectPlugs(t)
    <3>1. objects' \subseteq Parts
      BY <2>4 DEF ConnectPlugs, Parts
    <3>2. /\ handle' \in BOOLEAN /\ plugged' \in BOOLEAN /\ ping_running' \in BOOLEAN
          /\ pinger' \in {"none", "running", "exited"} /\ clash' \in BOOLEAN
      BY <2>4, Zenon DEF ConnectPlugs, CreatesDisplay
    <3>3. UNCHANGED <<flagVars, forward, windowVars, deviceVars>>
      BY <2>4 DEF ConnectPlugs
    <3>. QED  BY <3>1, <3>2, <3>3
  <2>5. CASE Stage(t)
    BY <2>5, StagesAre DEF Stage, ConnectStage
  <2>6. CASE ConnectStreams(t)
    BY <2>6 DEF ConnectStreams
  <2>7. CASE ConnectControls(t)
    BY <2>7 DEF ConnectControls
  <2>8. CASE ConnectReleases(t)
    BY <2>8 DEF ConnectReleases
  <2>9. CASE StopPinging(t)
    BY <2>9 DEF StopPinging
  <2>10. CASE Unplugs(t)
    BY <2>10 DEF Unplugs
  <2>11. CASE RemovesForward(t)
    BY <2>11 DEF RemovesForward
  <2>12. CASE DisconnectChecks(t)
    BY <2>12 DEF DisconnectChecks
  <2>13. CASE DisconnectClears(t)
    <3>1. posted' \in Seq({"start", "stop"})
      BY <2>13 DEF DisconnectClears
    <3>2. isStreaming' \in BOOLEAN /\ clash' \in BOOLEAN
      BY <2>13 DEF DisconnectClears, Alone
    <3>3. UNCHANGED <<isBusy, userDisconnected, objects, displayVars, forward,
                      statsTimer, raw, deviceVars>>
      BY <2>13 DEF DisconnectClears
    <3>. QED  BY <3>1, <3>2, <3>3
  <2>14. CASE StopsPipeline(t)
    BY <2>14 DEF StopsPipeline
  <2>15. CASE ResetsParts(t)
    BY <2>15 DEF ResetsParts
  <2>16. CASE ApplyGoesOn(t)
    BY <2>16 DEF ApplyGoesOn
  <2>17. CASE DeviceLooks(t)
    BY <2>17 DEF DeviceLooks
  <2>18. CASE DeviceGone(t)
    BY <2>18 DEF DeviceGone
  <2>19. CASE DevicePresent(t)
    BY <2>19 DEF DevicePresent
  <2>20. CASE DeviceConnects(t)
    BY <2>20 DEF DeviceConnects
  <2>. QED  BY <1>1, <2>1, <2>2, <2>3, <2>4, <2>5, <2>6, <2>7, <2>8, <2>9,
            <2>10, <2>11, <2>12, <2>13, <2>14, <2>15, <2>16, <2>17, <2>18,
            <2>19, <2>20 DEF Work
<1>2. CASE MessageLoop
  <2>1. CASE HandlePosted
    BY <2>1 DEF HandlePosted
  <2>2. CASE StatsTimerReads
    BY <2>2 DEF StatsTimerReads
  <2>3. CASE StatsTimerUses
    BY <2>3 DEF StatsTimerUses
  <2>4. CASE LeaveLoop
    BY <2>4 DEF LeaveLoop
  <2>. QED  BY <1>2, <2>1, <2>2, <2>3, <2>4 DEF MessageLoop
<1>3. CASE PingLoop
  BY <1>3 DEF PingLoop
<1>4. CASE Click
  BY <1>4 DEF Click
<1>5. CASE Apply
  BY <1>5 DEF Apply
<1>6. CASE Quit
  BY <1>6 DEF Quit
<1>7. CASE DeviceTimer
  BY <1>7 DEF DeviceTimer
<1>8. CASE DeviceChanges
  BY <1>8 DEF DeviceChanges
<1>. QED  BY <1>1, <1>2, <1>3, <1>4, <1>5, <1>6, <1>7, <1>8 DEF Next

(* A step moves one thread, from some place to some place.                 *)
LEMMA KeptWhenStill ==
  ASSUME UNCHANGED thread, JobsKnown PROVE JobsKnown'
BY DEF JobsKnown

(* A step into connect_sync is one of a thread that runs connect_sync.     *)
LEMMA JobsKept ==
  ASSUME JobsKnown, NEW t \in Threads, NEW pc, NEW job, Moves(t, pc, job),
         pc \in Connecting => job = "connect"
  PROVE  JobsKnown'
BY DEF JobsKnown, Moves

(* The owner of the busy flag, of the forward, stays one, or gives it up.  *)
LEMMA BusyKept ==
  ASSUME BusyOwned, NEW t \in Threads, NEW pc, NEW job, Moves(t, pc, job),
         isBusy' => isBusy,
         /\ isBusy' /\ thread[t].job = "connect" /\ thread[t].pc \in Busy
           => job = "connect" /\ pc \in Busy
  PROVE  BusyOwned'
<1>. SUFFICES ASSUME isBusy'
              PROVE  \E u \in Threads : thread'[u].job = "connect" /\ thread'[u].pc \in Busy
  BY DEF BusyOwned
<1>1. PICK u \in Threads : thread[u].job = "connect" /\ thread[u].pc \in Busy
  BY DEF BusyOwned
<1>. QED  BY <1>1 DEF Moves

(* A step keeps the forward owned when it leaves the forward to a stream   *)
(* or to somebody who will remove it.                                      *)
LEMMA ForwardKept ==
  ASSUME ForwardOwned, NEW t \in Threads, NEW pc, NEW job, Moves(t, pc, job),
         forward' => forward,
         isStreaming => isStreaming' \/ pc \in Forwarding,
         forward' /\ thread[t].pc \in Forwarding => isStreaming' \/ pc \in Forwarding
  PROVE  ForwardOwned'
<1>. SUFFICES ASSUME forward', ~isStreaming'
              PROVE  \E u \in Threads : thread'[u].pc \in Forwarding
  BY DEF ForwardOwned
<1>1. CASE pc \in Forwarding
  BY <1>1 DEF Moves
<1>2. CASE pc \notin Forwarding
  <2>1. PICK u \in Threads : thread[u].pc \in Forwarding
    BY <1>2 DEF ForwardOwned
  <2>. QED  BY <1>2, <2>1 DEF Moves
<1>. QED  BY <1>1, <1>2

(* A stage of connect_sync and the one after it own the same things.       *)
LEMMA StageFlow ==
  /\ \A s \in Stages : s \in Connecting /\ s \in Busy /\ s \in Forwarding
                       /\ s \in Body /\ s # "idle"
                       /\ Following[s] \in Connecting /\ Following[s] \in Busy
                       /\ Following[s] \in Forwarding /\ Following[s] \in Body
                       /\ Following[s] # "idle"
  /\ DOMAIN Sets = Stages
BY DEF Stages, Connecting, Busy, Forwarding, Body, Following, Sets

(* Threads are always somewhere.                                           *)
LEMMA NextThread ==
  ASSUME TypeOK, Next
  PROVE  thread' \in [Threads -> State]
<1>. USE DEF TypeOK, Takes, Moves
<1>0. UI \in Threads
  BY DEF Threads
<1>1. ASSUME NEW t \in Threads, Work(t) PROVE thread' \in [Threads -> State]
  <2>1. CASE ConnectChecks(t)
    BY <2>1, Flow
  <2>2. CASE ConnectClaims(t)
    BY <2>2, Flow
  <2>3. CASE ConnectForwards(t)
    BY <2>3, Flow
  <2>4. CASE ConnectPlugs(t)
    BY <2>4, Flow
  <2>5. CASE Stage(t)
    BY <2>5, Flow, StageFlow DEF Stage
  <2>6. CASE ConnectStreams(t)
    BY <2>6, Flow
  <2>7. CASE ConnectControls(t)
    BY <2>7, Flow
  <2>8. CASE ConnectReleases(t)
    BY <2>8, Flow
  <2>9. CASE StopPinging(t)
    BY <2>9, Flow
  <2>10. CASE Unplugs(t)
    BY <2>10, Flow
  <2>11. CASE RemovesForward(t)
    BY <2>11, Flow
  <2>12. CASE DisconnectChecks(t)
    BY <2>12, Flow
  <2>13. CASE DisconnectClears(t)
    BY <2>13, Flow
  <2>14. CASE StopsPipeline(t)
    BY <2>14, Flow
  <2>15. CASE ResetsParts(t)
    BY <2>15, Flow
  <2>16. CASE ApplyGoesOn(t)
    BY <2>16, Flow
  <2>17. CASE DeviceLooks(t)
    BY <2>17, Flow
  <2>18. CASE DeviceGone(t)
    BY <2>18, Flow
  <2>19. CASE DevicePresent(t)
    BY <2>19, Flow
  <2>20. CASE DeviceConnects(t)
    BY <2>20, Flow
  <2>. QED  BY <1>1, <2>1, <2>2, <2>3, <2>4, <2>5, <2>6, <2>7, <2>8, <2>9,
            <2>10, <2>11, <2>12, <2>13, <2>14, <2>15, <2>16, <2>17, <2>18,
            <2>19, <2>20 DEF Work
<1>2. CASE MessageLoop
  <2>1. CASE HandlePosted
    BY <2>1 DEF HandlePosted
  <2>2. CASE StatsTimerReads
    BY <2>2 DEF StatsTimerReads
  <2>3. CASE StatsTimerUses
    BY <2>3, <1>0, Starts
  <2>4. CASE LeaveLoop
    BY <2>4, <1>0, Starts
  <2>. QED  BY <1>2, <2>1, <2>2, <2>3, <2>4 DEF MessageLoop
<1>3. CASE PingLoop
  BY <1>3 DEF PingLoop
<1>4. CASE Click
  BY <1>4, <1>0, Starts
<1>5. CASE Apply
  BY <1>5, <1>0, Starts
<1>6. CASE Quit
  BY <1>6, <1>0, Starts
<1>7. CASE DeviceTimer
  BY <1>7, <1>0, Starts
<1>8. CASE DeviceChanges
  BY <1>8 DEF DeviceChanges
<1>. QED  BY <1>1, <1>2, <1>3, <1>4, <1>5, <1>6, <1>7, <1>8 DEF Next

(* Only connect_sync takes the steps of connect_sync.                      *)
LEMMA NextJobsKnown ==
  ASSUME TypeOK, JobsKnown, Next
  PROVE  JobsKnown'
<1>. USE DEF JobsKnown
<1>0. UI \in Threads
  BY DEF Threads
<1>1. ASSUME NEW t \in Threads, Work(t) PROVE JobsKnown'
  <2>1. CASE ConnectChecks(t)
    BY <2>1, Flow, JobsKept DEF Takes, JobAfter, Connecting, Stages,
       ConnectChecks
  <2>2. CASE ConnectClaims(t)
    BY <2>2, Flow, JobsKept DEF Takes, JobAfter, Connecting, Stages,
       ConnectClaims
  <2>3. CASE ConnectForwards(t)
    BY <2>3, Flow, JobsKept DEF Takes, JobAfter, Connecting, Stages,
       ConnectForwards
  <2>4. CASE ConnectPlugs(t)
    BY <2>4, Flow, JobsKept DEF Takes, JobAfter, Connecting, Stages,
       ConnectPlugs
  <2>5. CASE Stage(t)
    BY <2>5, StagesAre, StageFlow, Flow, JobsKept DEF Takes, JobAfter,
       Connecting, Stages, Stage, ConnectStage
  <2>6. CASE ConnectStreams(t)
    BY <2>6, Flow, JobsKept DEF Takes, JobAfter, Connecting, Stages,
       ConnectStreams
  <2>7. CASE ConnectControls(t)
    BY <2>7, Flow, JobsKept DEF Takes, JobAfter, Connecting, Stages,
       ConnectControls
  <2>8. CASE ConnectReleases(t)
    BY <2>8, Flow, JobsKept DEF Takes, JobAfter, Connecting, Stages,
       ConnectReleases
  <2>9. CASE StopPinging(t)
    BY <2>9, Flow, JobsKept DEF Takes, JobAfter, Connecting, Stages,
       StopPinging
  <2>10. CASE Unplugs(t)
    BY <2>10, Flow, JobsKept DEF Takes, JobAfter, Connecting, Stages, Unplugs
  <2>11. CASE RemovesForward(t)
    BY <2>11, Flow, StepsAre, JobsKept DEF Takes, JobAfter, Connecting,
       Stages, RemovesForward
  <2>12. CASE DisconnectChecks(t)
    BY <2>12, Flow, StepsAre, JobsKept DEF Takes, JobAfter, Connecting,
       Stages, DisconnectChecks
  <2>13. CASE DisconnectClears(t)
    BY <2>13, Flow, JobsKept DEF Takes, JobAfter, Connecting, Stages,
       DisconnectClears
  <2>14. CASE StopsPipeline(t)
    BY <2>14, Flow, JobsKept DEF Takes, JobAfter, Connecting, Stages,
       StopsPipeline
  <2>15. CASE ResetsParts(t)
    BY <2>15, Flow, JobsKept DEF Takes, JobAfter, Connecting, Stages,
       ResetsParts
  <2>16. CASE ApplyGoesOn(t)
    BY <2>16, Flow, JobsKept DEF Takes, JobAfter, Connecting, Stages,
       ApplyGoesOn
  <2>17. CASE DeviceLooks(t)
    BY <2>17, Flow, JobsKept DEF Takes, JobAfter, Connecting, Stages,
       DeviceLooks
  <2>18. CASE DeviceGone(t)
    BY <2>18, Flow, JobsKept DEF Takes, JobAfter, Connecting, Stages,
       DeviceGone
  <2>19. CASE DevicePresent(t)
    BY <2>19, Flow, JobsKept DEF Takes, JobAfter, Connecting, Stages,
       DevicePresent
  <2>20. CASE DeviceConnects(t)
    BY <2>20, Flow, JobsKept DEF Takes, JobAfter, Connecting, Stages,
       DeviceConnects
  <2>. QED  BY <1>1, <2>1, <2>2, <2>3, <2>4, <2>5, <2>6, <2>7, <2>8, <2>9,
            <2>10, <2>11, <2>12, <2>13, <2>14, <2>15, <2>16, <2>17, <2>18,
            <2>19, <2>20 DEF Work
<1>2. CASE MessageLoop
  <2>1. CASE HandlePosted
    BY <2>1 DEF Connecting, Stages, HandlePosted
  <2>2. CASE StatsTimerReads
    BY <2>2 DEF Connecting, Stages, StatsTimerReads
  <2>3. CASE StatsTimerUses
    BY <2>3, <1>0, Starts, JobsKept DEF Connecting, Stages, StatsTimerUses
  <2>4. CASE LeaveLoop
    BY <2>4, <1>0, Starts, JobsKept DEF Connecting, Stages, LeaveLoop
  <2>. QED  BY <1>2, <2>1, <2>2, <2>3, <2>4 DEF MessageLoop
<1>3. CASE PingLoop
  BY <1>3 DEF Connecting, Stages, PingLoop
<1>4. CASE Click
  BY <1>4, <1>0, Starts, JobsKept DEF Connecting, Stages, Click
<1>5. CASE Apply
  BY <1>5, <1>0, Starts, JobsKept DEF Connecting, Stages, Apply
<1>6. CASE Quit
  BY <1>6, <1>0, Starts, JobsKept DEF Connecting, Stages, Quit
<1>7. CASE DeviceTimer
  BY <1>7, <1>0, Starts, JobsKept DEF Connecting, Stages, DeviceTimer
<1>8. CASE DeviceChanges
  BY <1>8 DEF Connecting, Stages, DeviceChanges
<1>. QED  BY <1>1, <1>2, <1>3, <1>4, <1>5, <1>6, <1>7, <1>8 DEF Next

(* The busy flag always has an owner.                                      *)
LEMMA NextBusyOwned ==
  ASSUME TypeOK, JobsKnown, BusyOwned, Next
  PROVE  BusyOwned'
<1>. USE DEF TypeOK, JobsKnown, flagVars
<1>0. UI \in Threads
  BY DEF Threads
<1>1. ASSUME NEW t \in Threads, Work(t) PROVE BusyOwned'
  <2>1. CASE ConnectChecks(t)
    BY <2>1, Flow, BusyKept DEF Takes, JobAfter, Busy, Connecting, Stages,
       ConnectChecks
  <2>2. CASE ConnectClaims(t)
    <3>1. thread[t].job = "connect" /\ Moves(t, "forward", "connect")
      BY <2>2, Flow DEF Takes, JobAfter, Connecting
    <3>2. thread'[t].job = "connect" /\ thread'[t].pc \in Busy
      BY <3>1 DEF Moves, Busy, Connecting
    <3>. QED  BY <3>2 DEF BusyOwned
  <2>3. CASE ConnectForwards(t)
    <3>1. CASE Goto(t, "display") /\ UNCHANGED isBusy
      <4>1. thread[t].job = "connect" /\ Moves(t, "display", thread[t].job)
        BY <2>3, <3>1, GotoMoves, StepsAre DEF ConnectForwards, At, JobAfter,
            Connecting
      <4>. QED  BY <3>1, <4>1, BusyKept DEF Busy, Connecting
    <3>2. CASE ~isBusy'
      BY <3>2 DEF BusyOwned
    <3>. QED  BY <2>3, <3>1, <3>2 DEF ConnectForwards
  <2>4. CASE ConnectPlugs(t)
    BY <2>4, Flow, BusyKept DEF Takes, JobAfter, Busy, Connecting, Stages,
       ConnectPlugs
  <2>5. CASE Stage(t)
    BY <2>5, StagesAre, StageFlow, Flow, BusyKept DEF Takes, JobAfter, Busy,
       Connecting, Stages, Stage, ConnectStage
  <2>6. CASE ConnectStreams(t)
    BY <2>6, Flow, BusyKept DEF Takes, JobAfter, Busy, Connecting, Stages,
       ConnectStreams
  <2>7. CASE ConnectControls(t)
    BY <2>7, Flow, BusyKept DEF Takes, JobAfter, Busy, Connecting, Stages,
       ConnectControls
  <2>8. CASE ConnectReleases(t)
    BY <2>8, Flow, BusyKept DEF Takes, JobAfter, Busy, Connecting, Stages,
       ConnectReleases
  <2>9. CASE StopPinging(t)
    BY <2>9, Flow, BusyKept DEF Takes, JobAfter, Busy, Connecting, Stages,
       StopPinging
  <2>10. CASE Unplugs(t)
    BY <2>10, Flow, BusyKept DEF Takes, JobAfter, Busy, Connecting, Stages,
       Unplugs
  <2>11. CASE RemovesForward(t)
    <3>1. CASE thread[t].job = "connect"
      BY <2>11, <3>1 DEF RemovesForward, BusyOwned
    <3>2. CASE thread[t].job # "connect"
      <4>1. PICK pc, job : Moves(t, pc, job)
        BY <2>11, <3>2, Flow DEF Takes
      <4>2. isBusy' = isBusy
        BY <2>11, <3>2 DEF RemovesForward
      <4>. QED  BY <3>2, <4>1, <4>2, BusyKept
    <3>. QED  BY <3>1, <3>2
  <2>12. CASE DisconnectChecks(t)
    BY <2>12, Flow, StepsAre, BusyKept DEF Takes, JobAfter, Busy, Connecting,
       Stages, DisconnectChecks
  <2>13. CASE DisconnectClears(t)
    BY <2>13, Flow, BusyKept DEF Takes, JobAfter, Busy, Connecting, Stages,
       DisconnectClears
  <2>14. CASE StopsPipeline(t)
    BY <2>14, Flow, BusyKept DEF Takes, JobAfter, Busy, Connecting, Stages,
       StopsPipeline
  <2>15. CASE ResetsParts(t)
    BY <2>15, Flow, BusyKept DEF Takes, JobAfter, Busy, Connecting, Stages,
       ResetsParts
  <2>16. CASE ApplyGoesOn(t)
    BY <2>16, Flow, BusyKept DEF Takes, JobAfter, Busy, Connecting, Stages,
       ApplyGoesOn
  <2>17. CASE DeviceLooks(t)
    BY <2>17, Flow, BusyKept DEF Takes, JobAfter, Busy, Connecting, Stages,
       DeviceLooks
  <2>18. CASE DeviceGone(t)
    BY <2>18, Flow, BusyKept DEF Takes, JobAfter, Busy, Connecting, Stages,
       DeviceGone
  <2>19. CASE DevicePresent(t)
    BY <2>19, Flow, BusyKept DEF Takes, JobAfter, Busy, Connecting, Stages,
       DevicePresent
  <2>20. CASE DeviceConnects(t)
    BY <2>20, Flow, BusyKept DEF Takes, JobAfter, Busy, Connecting, Stages,
       DeviceConnects
  <2>. QED  BY <1>1, <2>1, <2>2, <2>3, <2>4, <2>5, <2>6, <2>7, <2>8, <2>9,
            <2>10, <2>11, <2>12, <2>13, <2>14, <2>15, <2>16, <2>17, <2>18,
            <2>19, <2>20 DEF Work
<1>2. CASE MessageLoop
  <2>1. CASE HandlePosted
    BY <2>1 DEF BusyOwned, HandlePosted
  <2>2. CASE StatsTimerReads
    BY <2>2 DEF BusyOwned, StatsTimerReads
  <2>3. CASE StatsTimerUses
    <3>1. isBusy' = isBusy
      BY <2>3 DEF StatsTimerUses
    <3>2. CASE UNCHANGED thread
      BY <3>1, <3>2 DEF BusyOwned
    <3>3. CASE \E w \in Threads : thread[w].pc = "idle" /\ Moves(w, "disconnect", "disconnect")
      BY <3>1, <3>3, BusyKept DEF Busy, Connecting, Stages
    <3>. QED  BY <2>3, <3>2, <3>3, Starts
  <2>4. CASE LeaveLoop
    BY <2>4, <1>0, Starts, BusyKept DEF Busy, Connecting, Stages, LeaveLoop
  <2>. QED  BY <1>2, <2>1, <2>2, <2>3, <2>4 DEF MessageLoop
<1>3. CASE PingLoop
  BY <1>3 DEF BusyOwned, PingLoop
<1>4. CASE Click
  <2>1. isBusy' = isBusy
    BY <1>4 DEF Click
  <2>2. CASE UNCHANGED thread
    BY <2>1, <2>2 DEF BusyOwned
  <2>3. ASSUME NEW w \in Threads, thread[w].pc = "idle",
               Moves(w, "disconnect", "disconnect") \/ Moves(w, "connect", "connect")
        PROVE  BusyOwned'
    BY <2>1, <2>3, BusyKept DEF Busy, Connecting, Stages
  <2>. QED  BY <1>4, <2>2, <2>3, Starts
<1>5. CASE Apply
  BY <1>5, <1>0, Starts, BusyKept DEF Busy, Connecting, Stages, Apply
<1>6. CASE Quit
  BY <1>6, <1>0, Starts, BusyKept DEF Busy, Connecting, Stages, Quit
<1>7. CASE DeviceTimer
  BY <1>7, <1>0, Starts, BusyKept DEF Busy, Connecting, Stages, DeviceTimer
<1>8. CASE DeviceChanges
  BY <1>8 DEF BusyOwned, DeviceChanges
<1>. QED  BY <1>1, <1>2, <1>3, <1>4, <1>5, <1>6, <1>7, <1>8 DEF Next

(* The forward always has an owner, or a stream uses it.                   *)
LEMMA NextForwardOwned ==
  ASSUME TypeOK, JobsKnown, ForwardOwned, Next
  PROVE  ForwardOwned'
<1>. USE DEF TypeOK, flagVars
<1>0. UI \in Threads
  BY DEF Threads
<1>1. ASSUME NEW t \in Threads, Work(t) PROVE ForwardOwned'
  <2>1. CASE ConnectChecks(t)
    BY <2>1, Flow, ForwardKept DEF Takes, JobAfter, Forwarding, Stages,
       ConnectChecks
  <2>2. CASE ConnectClaims(t)
    BY <2>2, Flow, ForwardKept DEF Takes, JobAfter, Forwarding, Stages,
       ConnectClaims
  <2>3. CASE ConnectForwards(t)
    <3>1. CASE Goto(t, "display")
      <4>1. Moves(t, "display", thread[t].job)
        BY <2>3, <3>1, GotoMoves, StepsAre DEF JobAfter
      <4>2. thread'[t].pc \in Forwarding
        BY <4>1 DEF Moves, Forwarding
      <4>. QED  BY <4>2 DEF ForwardOwned
    <3>2. CASE Goto(t, AfterConnect) /\ UNCHANGED forward
      <4>1. Moves(t, "idle", "none") /\ thread[t].pc = "forward" /\ isStreaming' = isStreaming
        BY <2>3, <3>2, GotoMoves, StepsAre DEF ConnectForwards, At, JobAfter
      <4>. QED  BY <3>2, <4>1, ForwardKept DEF Forwarding, Stages
    <3>. QED  BY <2>3, <3>1, <3>2 DEF ConnectForwards
  <2>4. CASE ConnectPlugs(t)
    BY <2>4, Flow, ForwardKept DEF Takes, JobAfter, Forwarding, Stages,
       ConnectPlugs
  <2>5. CASE Stage(t)
    BY <2>5, StagesAre, StageFlow, Flow, ForwardKept DEF Takes, JobAfter,
       Forwarding, Stages, Stage, ConnectStage
  <2>6. CASE ConnectStreams(t)
    BY <2>6, Flow, ForwardKept DEF Takes, JobAfter, Forwarding, Stages,
       ConnectStreams
  <2>7. CASE ConnectControls(t)
    BY <2>7, Flow, ForwardKept DEF Takes, JobAfter, Forwarding, Stages,
       ConnectControls
  <2>8. CASE ConnectReleases(t)
    BY <2>8, Flow, ForwardKept DEF Takes, JobAfter, Forwarding, Stages,
       ConnectReleases
  <2>9. CASE StopPinging(t)
    BY <2>9, Flow, ForwardKept DEF Takes, JobAfter, Forwarding, Stages,
       StopPinging
  <2>10. CASE Unplugs(t)
    BY <2>10, Flow, ForwardKept DEF Takes, JobAfter, Forwarding, Stages,
       Unplugs
  <2>11. CASE RemovesForward(t)
    BY <2>11, Flow, StepsAre, ForwardKept DEF Takes, JobAfter, Forwarding,
       Stages, RemovesForward
  <2>12. CASE DisconnectChecks(t)
    BY <2>12, Flow, StepsAre, ForwardKept DEF Takes, JobAfter, Forwarding,
       Stages, DisconnectChecks
  <2>13. CASE DisconnectClears(t)
    BY <2>13, Flow, ForwardKept DEF Takes, JobAfter, Forwarding, Stages,
       DisconnectClears
  <2>14. CASE StopsPipeline(t)
    BY <2>14, Flow, ForwardKept DEF Takes, JobAfter, Forwarding, Stages,
       StopsPipeline
  <2>15. CASE ResetsParts(t)
    BY <2>15, Flow, ForwardKept DEF Takes, JobAfter, Forwarding, Stages,
       ResetsParts
  <2>16. CASE ApplyGoesOn(t)
    BY <2>16, Flow, ForwardKept DEF Takes, JobAfter, Forwarding, Stages,
       ApplyGoesOn
  <2>17. CASE DeviceLooks(t)
    BY <2>17, Flow, ForwardKept DEF Takes, JobAfter, Forwarding, Stages,
       DeviceLooks
  <2>18. CASE DeviceGone(t)
    BY <2>18, Flow, ForwardKept DEF Takes, JobAfter, Forwarding, Stages,
       DeviceGone
  <2>19. CASE DevicePresent(t)
    BY <2>19, Flow, ForwardKept DEF Takes, JobAfter, Forwarding, Stages,
       DevicePresent
  <2>20. CASE DeviceConnects(t)
    BY <2>20, Flow, ForwardKept DEF Takes, JobAfter, Forwarding, Stages,
       DeviceConnects
  <2>. QED  BY <1>1, <2>1, <2>2, <2>3, <2>4, <2>5, <2>6, <2>7, <2>8, <2>9,
            <2>10, <2>11, <2>12, <2>13, <2>14, <2>15, <2>16, <2>17, <2>18,
            <2>19, <2>20 DEF Work
<1>2. CASE MessageLoop
  <2>1. CASE HandlePosted
    BY <2>1 DEF ForwardOwned, HandlePosted
  <2>2. CASE StatsTimerReads
    BY <2>2 DEF ForwardOwned, StatsTimerReads
  <2>3. CASE StatsTimerUses
    <3>1. forward' = forward /\ isStreaming' = isStreaming
      BY <2>3 DEF StatsTimerUses
    <3>2. CASE UNCHANGED thread
      BY <3>1, <3>2 DEF ForwardOwned
    <3>3. ASSUME NEW w \in Threads, thread[w].pc = "idle",
                 Moves(w, "disconnect", "disconnect")
          PROVE  ForwardOwned'
      BY <3>1, <3>3, ForwardKept DEF Forwarding, Stages
    <3>. QED  BY <2>3, <3>2, <3>3, Starts
  <2>4. CASE LeaveLoop
    BY <2>4, <1>0, Starts, ForwardKept DEF Forwarding, Stages, LeaveLoop
  <2>. QED  BY <1>2, <2>1, <2>2, <2>3, <2>4 DEF MessageLoop
<1>3. CASE PingLoop
  BY <1>3 DEF ForwardOwned, PingLoop
<1>4. CASE Click
  <2>1. forward' = forward /\ isStreaming' = isStreaming
    BY <1>4 DEF Click
  <2>2. CASE UNCHANGED thread
    BY <2>1, <2>2 DEF ForwardOwned
  <2>3. ASSUME NEW w \in Threads, thread[w].pc = "idle",
               Moves(w, "disconnect", "disconnect") \/ Moves(w, "connect", "connect")
        PROVE  ForwardOwned'
    BY <2>1, <2>3, ForwardKept DEF Forwarding, Stages
  <2>. QED  BY <1>4, <2>2, <2>3, Starts
<1>5. CASE Apply
  BY <1>5, <1>0, Starts, ForwardKept DEF Forwarding, Stages, Apply
<1>6. CASE Quit
  BY <1>6, <1>0, Starts, ForwardKept DEF Forwarding, Stages, Quit
<1>7. CASE DeviceTimer
  BY <1>7, <1>0, Starts, ForwardKept DEF Forwarding, Stages, DeviceTimer
<1>8. CASE DeviceChanges
  BY <1>8 DEF ForwardOwned, DeviceChanges
<1>. QED  BY <1>1, <1>2, <1>3, <1>4, <1>5, <1>6, <1>7, <1>8 DEF Next

-----------------------------------------------------------------------------
(* The objects.                                                            *)

(* Who works on the objects, before and after a step.                      *)
LEMMA InBodyIs ==
  ASSUME NEW t \in Threads
  PROVE  /\ InBody(t) <=> thread[t].pc \in Body
         /\ InBody(t)' <=> thread'[t].pc \in Body
BY DEF InBody, Body, Stages

(* What the stages make of the objects.                                    *)
Before ==
  [monitor  |-> {"vdisplay"},
   capturer |-> {"vdisplay"},
   encoder  |-> {"vdisplay", "capturer"},
   client   |-> {"vdisplay", "capturer", "encoder"},
   pipeline |-> {"vdisplay", "capturer", "encoder", "injectors", "client"}]

(* Each stage of connect_sync adds its objects to those before it.         *)
LEMMA StageMakes ==
  /\ Before["monitor"] \cup Sets["monitor"] = Before["capturer"]
  /\ Before["capturer"] \cup Sets["capturer"] = Before["encoder"]
  /\ Before["encoder"] \cup Sets["encoder"] = Before["client"]
  /\ Before["client"] \cup Sets["client"] = Before["pipeline"]
  /\ Before["pipeline"] \cup Sets["pipeline"] = Parts
BY DEF Before, Sets, Parts

(* The failure path of every stage leaves the virtual display alone.       *)
LEMMA StageUndoes ==
  \A s \in Stages : (Before[s] \cup Sets[s]) \ Resets[s] = {"vdisplay"}
BY DEF Before, Stages, Sets, Resets

(* What a stage finds is what the stages before it made.                   *)
LEMMA PartsAtStages ==
  /\ \A s \in Stages : PartsAt(s) <=> Building(Before[s])
  /\ \A s \in Stages : PartsAt(s)' <=> Building(Before[s])'
BY DEF Stages, PartsAt, Before, Body

(* A step that touches no object and no thread changes nothing here.       *)
LEMMA OrderedStill ==
  ASSUME Ordered, UNCHANGED <<thread, isStreaming, objects, displayVars>>
  PROVE  Ordered'
BY DEF Ordered, InBody, PartsAt, Building, Rest, Up, Down, Complete,
    displayVars

(* A step away from the objects.                                           *)
LEMMA OrderedOutside ==
  ASSUME Ordered, NEW t \in Threads, NEW pc, NEW job, Moves(t, pc, job),
         thread[t].pc \notin Body, pc \notin Body,
         UNCHANGED <<isStreaming, objects, displayVars>>
  PROVE  Ordered'
<1>1. \A u \in Threads : /\ InBody(u)' <=> InBody(u)
                         /\ InBody(u) => thread'[u] = thread[u]
  BY InBodyIs DEF Moves
<1>2. \A q : PartsAt(q)' <=> PartsAt(q)
  BY DEF PartsAt, Building, Rest, Up, Down, Complete, displayVars
<1>3. Rest' <=> Rest
  BY DEF Rest, Up, Down, Complete, displayVars
<1>. QED  BY <1>1, <1>2, <1>3 DEF Ordered

(* A step of the thread that works on the objects.                         *)
LEMMA OrderedStep ==
  ASSUME NEW t \in Threads, NEW pc, NEW job, Moves(t, pc, job),
         \A u \in Threads : u # t => ~InBody(u), PartsAt(pc)'
  PROVE  Ordered'
<1>1. \A u \in Threads : u # t => ~InBody(u)'
  BY InBodyIs DEF Moves
<1>2. thread'[t].pc = pc
  BY DEF Moves
<1>3. PartsAt(thread[t].pc)'
  BY <1>2 DEF PartsAt
<1>4. ~InBody(t)' => Rest'
  BY <1>2, InBodyIs DEF PartsAt
<1>. QED  BY <1>1, <1>3, <1>4 DEF Ordered

(* Who works on the objects, works there alone.                            *)
LEMMA WhoWorks ==
  ASSUME Ordered, NEW t \in Threads
  PROVE  /\ InBody(t) => PartsAt(thread[t].pc) /\ \A u \in Threads : u # t => ~InBody(u)
         /\ ~InBody(t) /\ Alone(t) => Rest /\ \A u \in Threads : u # t => ~InBody(u)
BY DEF Ordered, Alone

(* As long as no two threads meet in the objects, they stay in order.      *)
LEMMA NextOrdered ==
  ASSUME TypeOK, Ordered, Next, ~clash'
  PROVE  Ordered'
<1>. USE DEF TypeOK, flagVars
<1>0. UI \in Threads /\ ~clash'
  BY DEF Threads
<1>1. ASSUME NEW t \in Threads, Work(t) PROVE Ordered'
  <2>1. CASE ConnectChecks(t)
    BY <2>1, <1>0, Flow, OrderedOutside DEF Takes, Body, Stages,
       ConnectChecks
  <2>2. CASE ConnectClaims(t)
    BY <2>2, <1>0, Flow, OrderedOutside DEF Takes, Body, Stages,
       ConnectClaims
  <2>3. CASE ConnectForwards(t)
    BY <2>3, <1>0, Flow, OrderedOutside DEF Takes, Body, Stages,
       ConnectForwards
  <2>4. CASE ConnectPlugs(t)
    <3>1. ~InBody(t) /\ Alone(t) /\ objects = {} /\ thread[t].pc = "display"
      BY <2>4, <1>0, InBodyIs DEF ConnectPlugs, At, Body, Stages
    <3>2. /\ Rest /\ \A u \in Threads : u # t => ~InBody(u)
      BY <3>1, WhoWorks
    <3>3. ~isStreaming /\ Down
      BY <3>1, <3>2 DEF Rest, Complete, Parts
    <3>4. CASE objects' = objects \cup {"vdisplay"} /\ CreatesDisplay /\ Goto(t, "monitor")
      <4>1. isStreaming' = isStreaming /\ objects' = {"vdisplay"}
        BY <2>4, <3>1, <3>4 DEF ConnectPlugs
      <4>2. PartsAt("monitor")'
        BY <3>3, <3>4, <4>1 DEF CreatesDisplay, PartsAt, Building, Up, Body,
            Stages
      <4>. QED  BY <3>2, <3>4, <4>2, GotoMoves, StepsAre, OrderedStep
    <3>5. CASE objects' = objects \ {"vdisplay"} /\ Goto(t, "unforward") /\ UNCHANGED displayVars
      <4>1. isStreaming' = isStreaming /\ objects' = {}
        BY <2>4, <3>1, <3>5 DEF ConnectPlugs
      <4>2. Rest'
        BY <3>3, <3>5, <4>1 DEF Rest, Down, displayVars
      <4>3. PartsAt("unforward")'
        BY <4>2 DEF PartsAt, Body, Stages
      <4>. QED  BY <3>2, <3>5, <4>3, GotoMoves, StepsAre, OrderedStep
    <3>. QED  BY <2>4, <3>4, <3>5 DEF ConnectPlugs
  <2>5. CASE Stage(t)
    <3>1. PICK s \in Stages : ConnectStage(t, s)
      BY <2>5, StageFlow DEF Stage
    <3>2. thread[t].pc = s /\ InBody(t)
      BY <3>1, StageFlow, InBodyIs DEF ConnectStage, At
    <3>3. Building(Before[s]) /\ \A u \in Threads : u # t => ~InBody(u)
      BY <3>2, WhoWorks, PartsAtStages
    <3>4. UNCHANGED <<isStreaming, handle, plugged, ping_running, pinger>>
      BY <3>1 DEF ConnectStage, flagVars, displayVars
    <3>5. CASE objects' = objects \cup Sets[s] /\ Goto(t, Following[s])
      <4>1. PartsAt(Following[s])'
        <5>1. objects' = Before[s] \cup Sets[s]
          BY <3>3, <3>5 DEF Building
        <5>2. ~isStreaming' /\ Up'
          BY <3>3, <3>4 DEF Building, Up
        <5>. QED  BY <5>1, <5>2, StageMakes DEF Stages, Following, PartsAt,
            Building,
                  Before, Body
      <4>. QED  BY <3>3, <3>5, <4>1, GotoMoves, StepsAre, OrderedStep
    <3>6. CASE objects' = (objects \cup Sets[s]) \ Resets[s] /\ Goto(t, "unping")
      <4>1. objects' = {"vdisplay"}
        BY <3>3, <3>6, StageUndoes DEF Building
      <4>2. PartsAt("unping")'
        BY <3>3, <3>4, <4>1 DEF PartsAt, Building, Up, Body, Stages
      <4>. QED  BY <3>3, <3>6, <4>2, GotoMoves, StepsAre, OrderedStep
    <3>. QED  BY <3>1, <3>5, <3>6 DEF ConnectStage
  <2>6. CASE ConnectStreams(t)
    <3>1. thread[t].pc = "stream" /\ InBody(t)
      BY <2>6, InBodyIs DEF ConnectStreams, At, Body, Stages
    <3>2. PartsAt("stream") /\ \A u \in Threads : u # t => ~InBody(u)
      BY <3>1, WhoWorks
    <3>3. PartsAt("controllers")'
      BY <2>6, <3>2 DEF ConnectStreams, PartsAt, Building, Up, Down, Rest,
          Complete,
         Body, Stages, flagVars, displayVars
    <3>. QED  BY <2>6, <3>2, <3>3, GotoMoves, StepsAre, OrderedStep
    DEF ConnectStreams
  <2>7. CASE ConnectControls(t)
    <3>1. thread[t].pc = "controllers" /\ InBody(t)
      BY <2>7, InBodyIs DEF ConnectControls, At, Body, Stages
    <3>2. PartsAt("controllers") /\ \A u \in Threads : u # t => ~InBody(u)
      BY <3>1, WhoWorks
    <3>3. PartsAt("release")'
      BY <2>7, <3>2 DEF ConnectControls, PartsAt, Building, Up, Down, Rest,
          Complete,
         Body, Stages, flagVars, displayVars, Parts
    <3>. QED  BY <2>7, <3>2, <3>3, GotoMoves, StepsAre, OrderedStep
    DEF ConnectControls
  <2>8. CASE ConnectReleases(t)
    BY <2>8, <1>0, Flow, OrderedOutside DEF Takes, Body, Stages,
       ConnectReleases
  <2>9. CASE StopPinging(t)
    <3>1. thread[t].pc = "unping" /\ InBody(t)
      BY <2>9, InBodyIs DEF StopPinging, At, Body, Stages
    <3>2. PartsAt("unping") /\ \A u \in Threads : u # t => ~InBody(u)
      BY <3>1, WhoWorks
    <3>3. PartsAt("join")'
      BY <2>9, <3>2 DEF StopPinging, PartsAt, Building, Up, Down, Rest,
          Complete,
         Body, Stages, flagVars, displayVars
    <3>. QED  BY <2>9, <3>2, <3>3, GotoMoves, StepsAre, OrderedStep
    DEF StopPinging
  <2>10. CASE Unplugs(t)
    <3>1. thread[t].pc = "join" /\ InBody(t)
      BY <2>10, InBodyIs DEF Unplugs, At, Body, Stages
    <3>2. PartsAt("join") /\ \A u \in Threads : u # t => ~InBody(u)
      BY <3>1, WhoWorks
    <3>3. PartsAt("unforward")'
      BY <2>10, <3>2 DEF Unplugs, PartsAt, Building, Up, Down, Rest, Complete,
         Body, Stages, flagVars, displayVars
    <3>. QED  BY <2>10, <3>2, <3>3, GotoMoves, StepsAre, OrderedStep
    DEF Unplugs
  <2>11. CASE RemovesForward(t)
    BY <2>11, <1>0, Flow, StepsAre, OrderedOutside DEF Takes, Body, Stages,
       RemovesForward
  <2>12. CASE DisconnectChecks(t)
    BY <2>12, <1>0, Flow, StepsAre, OrderedOutside DEF Takes, Body, Stages,
       DisconnectChecks
  <2>13. CASE DisconnectClears(t)
    <3>1. ~InBody(t) /\ Alone(t)
      BY <2>13, <1>0, InBodyIs DEF DisconnectClears, At, Body, Stages
    <3>2. Rest /\ \A u \in Threads : u # t => ~InBody(u)
      BY <3>1, WhoWorks
    <3>3. PartsAt("stop")'
      BY <2>13, <3>2 DEF DisconnectClears, PartsAt, Rest, Complete, Up, Down,
         Body, Stages, displayVars
    <3>. QED  BY <2>13, <3>2, <3>3, GotoMoves, StepsAre, OrderedStep
    DEF DisconnectClears
  <2>14. CASE StopsPipeline(t)
    <3>1. thread[t].pc = "stop" /\ InBody(t)
      BY <2>14, InBodyIs DEF StopsPipeline, At, Body, Stages
    <3>2. PartsAt("stop") /\ \A u \in Threads : u # t => ~InBody(u)
      BY <3>1, WhoWorks
    <3>3. PartsAt("reset")'
      BY <2>14, <3>2 DEF StopsPipeline, PartsAt, Building, Up, Down, Rest,
          Complete,
         Body, Stages, flagVars, displayVars, Parts
    <3>. QED  BY <2>14, <3>2, <3>3, GotoMoves, StepsAre, OrderedStep
    DEF StopsPipeline
  <2>15. CASE ResetsParts(t)
    <3>1. thread[t].pc = "reset" /\ InBody(t)
      BY <2>15, InBodyIs DEF ResetsParts, At, Body, Stages
    <3>2. PartsAt("reset") /\ \A u \in Threads : u # t => ~InBody(u)
      BY <3>1, WhoWorks
    <3>3. /\ objects' = objects \cap {"vdisplay"}
          /\ UNCHANGED <<isStreaming, handle, plugged, ping_running, pinger>>
          /\ Goto(t, IF "vdisplay" \in objects THEN "unping" ELSE "unforward")
      BY <2>15 DEF ResetsParts, flagVars, displayVars
    <3>4. CASE Up
      <4>1. "vdisplay" \in objects /\ objects' = {"vdisplay"}
        BY <3>2, <3>3, <3>4 DEF PartsAt, Parts
      <4>2. PartsAt("unping")'
        BY <3>2, <3>3, <3>4, <4>1 DEF PartsAt, Building, Up, Body, Stages
      <4>3. Goto(t, "unping")
        BY <3>3, <4>1
      <4>. QED  BY <3>2, <4>2, <4>3, GotoMoves, StepsAre, OrderedStep
    <3>5. CASE ~Up
      <4>1. ~isStreaming /\ Down /\ objects = {} /\ objects' = {}
        BY <3>2, <3>3, <3>5 DEF PartsAt
      <4>2. PartsAt("unforward")'
        BY <3>3, <4>1 DEF PartsAt, Rest, Down, Body, Stages
      <4>3. Goto(t, "unforward")
        BY <3>3, <4>1
      <4>. QED  BY <3>2, <4>2, <4>3, GotoMoves, StepsAre, OrderedStep
    <3>. QED  BY <3>4, <3>5
  <2>16. CASE ApplyGoesOn(t)
    BY <2>16, <1>0, Flow, OrderedOutside DEF Takes, Body, Stages, ApplyGoesOn
  <2>17. CASE DeviceLooks(t)
    BY <2>17, <1>0, Flow, OrderedOutside DEF Takes, Body, Stages, DeviceLooks
  <2>18. CASE DeviceGone(t)
    BY <2>18, <1>0, Flow, OrderedOutside DEF Takes, Body, Stages, DeviceGone
  <2>19. CASE DevicePresent(t)
    BY <2>19, <1>0, Flow, OrderedOutside DEF Takes, Body, Stages,
       DevicePresent
  <2>20. CASE DeviceConnects(t)
    BY <2>20, <1>0, Flow, OrderedOutside DEF Takes, Body, Stages,
       DeviceConnects
  <2>. QED  BY <1>1, <2>1, <2>2, <2>3, <2>4, <2>5, <2>6, <2>7, <2>8, <2>9,
            <2>10, <2>11, <2>12, <2>13, <2>14, <2>15, <2>16, <2>17, <2>18,
            <2>19, <2>20 DEF Work
<1>2. CASE MessageLoop
  <2>1. CASE HandlePosted
    BY <2>1, OrderedStill DEF HandlePosted
  <2>2. CASE StatsTimerReads
    BY <2>2, OrderedStill DEF StatsTimerReads
  <2>3. CASE StatsTimerUses
    BY <2>3, <1>0, Starts, OrderedStill, OrderedOutside DEF Body, Stages,
       StatsTimerUses
  <2>4. CASE LeaveLoop
    BY <2>4, <1>0, Starts, OrderedStill, OrderedOutside DEF Body, Stages,
       LeaveLoop
  <2>. QED  BY <1>2, <2>1, <2>2, <2>3, <2>4 DEF MessageLoop
<1>3. CASE PingLoop
  <2>1. /\ UNCHANGED <<thread, isStreaming, objects, handle, plugged, ping_running>>
        /\ pinger = "running" /\ ~ping_running /\ pinger' = "exited"
    BY <1>3 DEF PingLoop, flagVars
  <2>2. ~Up /\ ~Down
    BY <2>1 DEF Up, Down
  <2>3. PICK t \in Threads : InBody(t)
    BY <2>2 DEF Ordered, Rest
  <2>4. thread[t].pc = "join"
    BY <2>2, <2>3, WhoWorks, InBodyIs DEF PartsAt, Building, Body, Stages
  <2>5. PartsAt("join")'
    BY <2>1, <2>3, <2>4, WhoWorks DEF PartsAt, Body, Stages
  <2>6. \A u \in Threads : InBody(u) => thread[u].pc = "join"
    BY <2>3, <2>4, WhoWorks
  <2>7. \A u \in Threads : InBody(u)' <=> InBody(u)
    BY <2>1 DEF InBody
  <2>. QED  BY <2>1, <2>3, <2>5, <2>6, <2>7 DEF Ordered
<1>4. CASE Click
  BY <1>4, <1>0, Starts, OrderedStill, OrderedOutside DEF Body, Stages, Click
<1>5. CASE Apply
  BY <1>5, <1>0, Starts, OrderedStill, OrderedOutside DEF Body, Stages, Apply
<1>6. CASE Quit
  BY <1>6, <1>0, Starts, OrderedStill, OrderedOutside DEF Body, Stages, Quit
<1>7. CASE DeviceTimer
  BY <1>7, <1>0, Starts, OrderedStill, OrderedOutside DEF Body, Stages,
     DeviceTimer
<1>8. CASE DeviceChanges
  BY <1>8, OrderedStill DEF DeviceChanges
<1>. QED  BY <1>1, <1>2, <1>3, <1>4, <1>5, <1>6, <1>7, <1>8 DEF Next

-----------------------------------------------------------------------------
(* The application starts with nothing.                                    *)
LEMMA InitIInv == Init => IInv
<1>. SUFFICES ASSUME Init PROVE IInv
  OBVIOUS
<1>1. Idle \in State
  BY DEF Idle, State, Steps, Jobs
<1>2. thread \in [Threads -> State] /\ \A t \in Threads : thread[t].pc = "idle"
  BY <1>1 DEF Init, Idle
<1>3. TypeOK
  <2>1. posted \in Seq({"start", "stop"}) /\ objects \subseteq Parts
    BY DEF Init
  <2>2. DataOK
    BY <2>1, Zenon DEF Init, DataOK
  <2>. QED  BY <1>2, <2>2 DEF TypeOK
<1>4. JobsKnown /\ BusyOwned /\ ForwardOwned
  BY <1>2 DEF Init, JobsKnown, Connecting, Stages, BusyOwned, ForwardOwned
<1>5. Ordered
  BY <1>2, InBodyIs DEF Init, Ordered, Rest, Down, Body, Stages
<1>. QED  BY <1>3, <1>4, <1>5 DEF IInv

(* Every step keeps the invariant.                                         *)
LEMMA NextIInv == IInv /\ [Next]_vars => IInv'
<1>1. ASSUME IInv, Next PROVE IInv'
  <2>1. ~clash
    BY <1>1 DEF Next, Goes
  <2>2. TypeOK'
    BY <1>1, NextDataOK, NextThread DEF IInv, TypeOK
  <2>3. JobsKnown' /\ BusyOwned' /\ ForwardOwned'
    BY <1>1, NextJobsKnown, NextBusyOwned, NextForwardOwned DEF IInv
  <2>4. ~clash' => Ordered'
    BY <1>1, <2>1, NextOrdered DEF IInv
  <2>. QED  BY <2>2, <2>3, <2>4 DEF IInv
<1>2. ASSUME IInv, UNCHANGED vars PROVE IInv'
  <2>. USE <1>2 DEF IInv, vars, flagVars, displayVars, windowVars, deviceVars
  <2>1. (TypeOK /\ JobsKnown /\ BusyOwned /\ ForwardOwned)'
    BY DEF TypeOK, DataOK, JobsKnown, BusyOwned, ForwardOwned
  <2>2. (~clash => Ordered)'
    BY OrderedStill
  <2>. QED  BY <2>1, <2>2
<1>. QED  BY <1>1, <1>2

(* In every reachable state the busy flag and the forward have somebody    *)
(* who clears them, and the objects are in order unless two threads have   *)
(* met in them.                                                            *)
THEOREM IInvAlways == Spec => []IInv
BY InitIInv, NextIInv, PTL DEF Spec

(* While no two threads have met in the objects of g_app, the pipeline has *)
(* every part it points to, the capturer a display that is kept alive, and *)
(* the keep-alive thread its handle: along every failure path of           *)
(* connect_sync and in disconnect_sync, for any number of threads.         *)
THEOREM PartsOutliveUsersAlways == Spec => []PartsOutliveUsers
<1>1. IInv => PartsOutliveUsers
  <2>. SUFFICES ASSUME IInv, ~clash
                PROVE  /\ "pipeline" \in objects =>
                            {"vdisplay", "capturer", "encoder", "client", "injectors",
                             "deck"} \subseteq objects
                       /\ "capturer" \in objects => plugged /\ pinger = "running"
                       /\ pinger # "none" => handle /\ "vdisplay" \in objects
    BY DEF PartsOutliveUsers
  <2>1. Ordered
    BY DEF IInv
  <2>2. CASE \A t \in Threads : ~InBody(t)
    BY <2>1, <2>2 DEF Ordered, Rest, Up, Down, Complete, Parts
  <2>3. ASSUME NEW t \in Threads, InBody(t)
        PROVE  /\ "pipeline" \in objects =>
                    {"vdisplay", "capturer", "encoder", "client", "injectors",
                     "deck"} \subseteq objects
               /\ "capturer" \in objects => plugged /\ pinger = "running"
               /\ pinger # "none" => handle /\ "vdisplay" \in objects
    <3>1. PartsAt(thread[t].pc) /\ thread[t].pc \in Body
      BY <2>1, <2>3, InBodyIs DEF Ordered
    <3>2. CASE thread[t].pc \in {"stop", "reset"}
      BY <3>1, <3>2 DEF PartsAt, Up, Down, Complete, Parts
    <3>3. CASE thread[t].pc \notin {"stop", "reset"}
      BY <3>1, <3>3 DEF PartsAt, Building, Up, Body, Stages, Parts
    <3>. QED  BY <3>2, <3>3
  <2>. QED  BY <2>2, <2>3
<1>. QED  BY <1>1, IInvAlways, PTL

(* When every thread is idle and no stream is up, nothing of a stream is   *)
(* left, whatever failed or was stopped before, unless two threads had met *)
(* in the objects of g_app.                                                *)
THEOREM NothingLeftBehindAlways == Spec => []NothingLeftBehind
<1>1. IInv => NothingLeftBehind
  <2>. SUFFICES ASSUME IInv, ~clash, ~isStreaming,
                       \A t \in Threads : thread[t].pc \in {"idle", "exited"}
                PROVE  /\ objects = {} /\ ~handle /\ ~plugged /\ pinger = "none"
                       /\ ~isBusy
                       /\ ~forward
    BY DEF NothingLeftBehind
  <2>1. Rest
    BY InBodyIs DEF IInv, Ordered, Body, Stages
  <2>2. ~isBusy
    BY DEF IInv, BusyOwned, Busy, Connecting, Stages
  <2>3. ~forward
    BY DEF IInv, ForwardOwned, Forwarding, Stages
  <2>. QED  BY <2>1, <2>2, <2>3 DEF Rest, Down
<1>. QED  BY <1>1, IInvAlways, PTL
=============================================================================
