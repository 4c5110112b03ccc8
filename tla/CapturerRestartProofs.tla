----------------------- MODULE CapturerRestartProofs -----------------------
(***************************************************************************)
(* Proofs about the restart of a dead capture stream, for every number of  *)
(* deaths: after stop() nothing captures, and there is one restart at a    *)
(* time.                                                                   *)
(***************************************************************************)
EXTENDS CapturerRestart, TLAPS

(* Who is where when a mutex is taken. *)
MutexHolders ==
  /\ capturer_mutex = "thread"
       <=> threadPc \in {"stop", "init", "arm", "open", "unlock"}
  /\ capturer_mutex = "owner" <=> ownerPc = "capturer"
  /\ restart_thread_mutex = "callback" <=> errorPc = "join"
  /\ restart_thread_mutex = "owner" <=> ownerPc = "joining"

(* How far stop() and the destructor got. *)
OwnerProgress ==
  /\ stops = 0 <=> ownerPc = "idle"
  /\ ownerPc = "destroyed" => stops = 2
  /\ ownerPc = "halt" /\ stops = 1 => had_threads
  /\ stops = 2 \/ ownerPc \notin {"idle", "look", "halt"} => ~running

Stopped == ownerPc \in {"join", "joining", "clear", "destroyed"} \/ stops = 2

Restarting == threadPc \in {"stop", "init", "arm", "open"}

(* Once the owner let go of capturer_mutex_ no restart is under way.       *)
NothingRestarts ==
  /\ ownerPc = "capturer" => ~capturing
  /\ Stopped => ~Restarting

(* There is no new stream while the restart thread still has to build it,  *)
(* and none while an error of the old one is being handled.                *)
OneStream ==
  /\ stream \in {"live", "dying"} \/ errorPc # "idle"
       => threadPc \in {"none", "unlock", "clear", "report", "finished"}
  /\ errorPc # "idle" => stream \in {"dead", "none"}

Spawning == errorPc \in {"lock", "join"}

(* The claim on the restart, until the first stop() clears it for good. *)
ClaimHeld ==
  /\ (RestartPending \/ Spawning) /\ stops # 2 => capturer_restarting
  /\ ~(RestartPending /\ Spawning)
  /\ (ownerPc = "clear" \/ stops = 2) /\ errorPc # "idle" => ~RestartPending

(* The inductive invariant. *)
IInv ==
  /\ TypeOK
  /\ MutexHolders
  /\ OwnerProgress
  /\ CaptureStaysStopped
  /\ NothingRestarts
  /\ OneStream
  /\ ClaimHeld
-----------------------------------------------------------------------------
(* The pipeline starts with a live stream, no restart and no claim.        *)
LEMMA InitIInv == Init => IInv
<1>. SUFFICES ASSUME Init PROVE IInv
  OBVIOUS
<1>. USE DEF Init
<1>1. TypeOK
  <2>1. /\ running \in BOOLEAN /\ capturing \in BOOLEAN /\ on_error \in BOOLEAN
        /\ capturer_restarting \in BOOLEAN /\ restarted \in BOOLEAN
        /\ had_threads \in BOOLEAN
    BY Zenon
  <2>2. deaths \in 0 .. MaxDeaths /\ stops \in 0 .. 2
    BY RestartAssumption
  <2>. QED  BY <2>1, <2>2 DEF TypeOK
<1>2. MutexHolders /\ OwnerProgress
  BY DEF MutexHolders, OwnerProgress
<1>3. CaptureStaysStopped /\ NothingRestarts
  BY DEF CaptureStaysStopped, NothingRestarts, Stopped
<1>4. OneStream /\ ClaimHeld
  BY DEF OneStream, ClaimHeld, RestartPending, Spawning
<1>. QED  BY <1>1, <1>2, <1>3, <1>4 DEF IInv

(* Every step of the platform, the restart thread and the owner keeps it.  *)
LEMMA NextIInv == IInv /\ [Next]_vars => IInv'
<1>. SUFFICES ASSUME IInv, [Next]_vars PROVE IInv'
  OBVIOUS
<1>. USE RestartAssumption
     DEF IInv, TypeOK, MutexHolders, OwnerProgress, CaptureStaysStopped,
         NothingRestarts, Stopped, Restarting, OneStream, ClaimHeld,
         RestartPending, Spawning, streamVars, threadVars, mutexVars, ownerVars
<1>1. CASE UNCHANGED vars
  BY <1>1 DEF vars
<1>2. CASE StreamDies
  BY <1>2 DEF StreamDies
<1>3. CASE StreamReports
  <2>. USE <1>3 DEF StreamReports
  <2>1. TypeOK'
    <3>1. capturing' \in BOOLEAN
      BY Zenon
    <3>. QED  BY <3>1
  <2>2. MutexHolders' /\ OwnerProgress'
    OBVIOUS
  <2>3. CaptureStaysStopped' /\ NothingRestarts'
    OBVIOUS
  <2>4. OneStream' /\ ClaimHeld'
    OBVIOUS
  <2>. QED  BY <2>1, <2>2, <2>3, <2>4
<1>4. CASE ErrorSeesRunning
  BY <1>4 DEF ErrorSeesRunning, ErrorStep
<1>5. CASE ErrorClaims
  BY <1>5 DEF ErrorClaims, ErrorStep
<1>6. CASE ErrorLocks
  BY <1>6 DEF ErrorLocks, ErrorStep
<1>7. CASE ErrorSpawns
  BY <1>7 DEF ErrorSpawns, ErrorStep
<1>8. CASE ThreadWakes
  BY <1>8 DEF ThreadWakes, ThreadStep
<1>9. CASE ThreadGivesUp
  BY <1>9 DEF ThreadGivesUp, ThreadStep
<1>10. CASE ThreadLocks
  BY <1>10 DEF ThreadLocks, ThreadStep
<1>11. CASE RestartStops
  BY <1>11 DEF RestartStops, ThreadStep
<1>12. CASE RestartInits
  BY <1>12 DEF RestartInits, ThreadStep
<1>13. CASE RestartArms
  BY <1>13 DEF RestartArms, ThreadStep
<1>14. CASE RestartOpens
  BY <1>14 DEF RestartOpens, ThreadStep
<1>15. CASE ThreadUnlocks
  BY <1>15 DEF ThreadUnlocks, ThreadStep
<1>16. CASE ThreadClears
  <2>. USE <1>16 DEF ThreadClears, ThreadStep
  <2>1. TypeOK'
    <3>1. capturer_restarting' \in BOOLEAN
      BY Zenon
    <3>. QED  BY <3>1
  <2>2. MutexHolders' /\ OwnerProgress'
    OBVIOUS
  <2>3. CaptureStaysStopped' /\ NothingRestarts'
    OBVIOUS
  <2>4. OneStream' /\ ClaimHeld'
    OBVIOUS
  <2>. QED  BY <2>1, <2>2, <2>3, <2>4
<1>17. CASE ThreadReports
  BY <1>17 DEF ThreadReports, ThreadStep
<1>18. CASE PipelineFails
  <2>. USE <1>18 DEF PipelineFails
  <2>1. TypeOK'
    <3>1. running' \in BOOLEAN
      BY Zenon
    <3>. QED  BY <3>1
  <2>2. MutexHolders' /\ OwnerProgress'
    OBVIOUS
  <2>3. CaptureStaysStopped' /\ NothingRestarts'
    OBVIOUS
  <2>4. OneStream' /\ ClaimHeld'
    OBVIOUS
  <2>. QED  BY <2>1, <2>2, <2>3, <2>4
<1>19. CASE Stop
  <2>. USE <1>19 DEF Stop, OwnerStep
  <2>1. TypeOK'
    OBVIOUS
  <2>2. MutexHolders' /\ OwnerProgress'
    OBVIOUS
  <2>3. CaptureStaysStopped' /\ NothingRestarts'
    OBVIOUS
  <2>4. OneStream' /\ ClaimHeld'
    OBVIOUS
  <2>. QED  BY <2>1, <2>2, <2>3, <2>4
<1>20. CASE StopLooks
  <2>. USE <1>20 DEF StopLooks, OwnerStep
  <2>1. TypeOK'
    OBVIOUS
  <2>2. MutexHolders' /\ OwnerProgress'
    OBVIOUS
  <2>3. CaptureStaysStopped' /\ NothingRestarts'
    OBVIOUS
  <2>4. OneStream' /\ ClaimHeld'
    OBVIOUS
  <2>. QED  BY <2>1, <2>2, <2>3, <2>4
<1>21. CASE StopHalts
  <2>. USE <1>21 DEF StopHalts, OwnerStep
  <2>1. TypeOK'
    <3>1. running' \in BOOLEAN
      BY Zenon
    <3>. QED  BY <3>1
  <2>2. MutexHolders' /\ OwnerProgress'
    OBVIOUS
  <2>3. CaptureStaysStopped' /\ NothingRestarts'
    OBVIOUS
  <2>4. OneStream' /\ ClaimHeld'
    OBVIOUS
  <2>. QED  BY <2>1, <2>2, <2>3, <2>4
<1>22. CASE StopLocks
  <2>. USE <1>22 DEF StopLocks, OwnerStep
  <2>1. TypeOK'
    OBVIOUS
  <2>2. MutexHolders' /\ OwnerProgress'
    OBVIOUS
  <2>3. CaptureStaysStopped' /\ NothingRestarts'
    OBVIOUS
  <2>4. OneStream' /\ ClaimHeld'
    OBVIOUS
  <2>. QED  BY <2>1, <2>2, <2>3, <2>4
<1>23. CASE StopCapturer
  <2>. USE <1>23 DEF StopCapturer, OwnerStep
  <2>1. TypeOK'
    OBVIOUS
  <2>2. MutexHolders' /\ OwnerProgress'
    OBVIOUS
  <2>3. CaptureStaysStopped' /\ NothingRestarts'
    OBVIOUS
  <2>4. OneStream' /\ ClaimHeld'
    OBVIOUS
  <2>. QED  BY <2>1, <2>2, <2>3, <2>4
<1>24. CASE StopLocksThread
  BY <1>24 DEF StopLocksThread, OwnerStep
<1>25. CASE StopJoins
  <2>. USE <1>25 DEF StopJoins, OwnerStep
  <2>1. TypeOK'
    OBVIOUS
  <2>2. MutexHolders' /\ OwnerProgress'
    OBVIOUS
  <2>3. CaptureStaysStopped' /\ NothingRestarts'
    OBVIOUS
  <2>4. OneStream' /\ ClaimHeld'
    OBVIOUS
  <2>. QED  BY <2>1, <2>2, <2>3, <2>4
<1>26. CASE StopReturns
  <2>. USE <1>26 DEF StopReturns, OwnerStep
  <2>1. TypeOK'
    <3>1. capturer_restarting' \in BOOLEAN
      BY Zenon
    <3>. QED  BY <3>1
  <2>2. MutexHolders' /\ OwnerProgress'
    OBVIOUS
  <2>3. CaptureStaysStopped' /\ NothingRestarts'
    OBVIOUS
  <2>4. OneStream' /\ ClaimHeld'
    OBVIOUS
  <2>. QED  BY <2>1, <2>2, <2>3, <2>4
<1>. QED
  BY <1>1, <1>2, <1>3, <1>4, <1>5, <1>6, <1>7, <1>8, <1>9, <1>10, <1>11, <1>12,
     <1>13, <1>14, <1>15, <1>16, <1>17, <1>18, <1>19, <1>20, <1>21, <1>22, <1>23,
     <1>24, <1>25, <1>26
  DEF Next, ErrorCallback, RestartThread, Stopping

(* The inductive invariant holds in every reachable state.                 *)
THEOREM IInvAlways == Spec => []IInv
<1>. QED  BY InitIInv, NextIInv, PTL DEF Spec

(* The state of the restart protocol always has its types.                 *)
THEOREM TypeCorrect == Spec => []TypeOK
<1>1. IInv => TypeOK
  BY DEF IInv
<1>. QED  BY <1>1, IInvAlways, PTL

(* Once stop() let go of capturer_mutex_ nothing captures any more, however*)
(* late the restart thread or the error callback are                       *)
(* (pipeline.cpp:111-116 and 326-334).                                     *)
THEOREM CaptureStops == Spec => []CaptureStaysStopped
<1>1. IInv => CaptureStaysStopped
  BY DEF IInv
<1>. QED  BY <1>1, IInvAlways, PTL

(* The exchange on capturer_restarting_ (pipeline.cpp:90) keeps restarts   *)
(* one at a time while the pipeline runs.                                  *)
THEOREM RestartsOneAtATime == Spec => []OneRestart
<1>1. IInv => OneRestart
  BY DEF IInv, OneRestart, ClaimHeld, OwnerProgress, Spawning
<1>. QED  BY <1>1, IInvAlways, PTL
=============================================================================
