-------------------------- MODULE CapturerRestart --------------------------
(***************************************************************************)
(* Recovery of a capture stream that died, racing with stop().  The        *)
(* platform reports the death on a thread of its own; the error callback   *)
(* claims the restart with an exchange on capturer_restarting_ and spawns  *)
(* a thread that rebuilds the stream under capturer_mutex_.  Meanwhile any *)
(* thread may clear running_, and the application may stop the pipeline    *)
(* and destroy it, which stops it once more.  The capturer is the one of   *)
(* macOS; the Windows one reports no errors.                               *)
(***************************************************************************)
EXTENDS Naturals

CONSTANT MaxDeaths    \* bound: streams that die in one behaviour

ASSUME RestartAssumption == MaxDeaths \in Nat

VARIABLES
  running,       \* running_ of the pipeline
  capturing,     \* running_ of the capturer
  stream,        \* the platform's capture stream, as far as the OS is concerned
  on_error,      \* is the error callback set?
  deaths,
  capturer_restarting,
  errorPc,       \* where the platform's thread is inside the error callback
  threadPc,      \* the restart thread: "none" when the object is not joinable
  restarted,     \* its local variable
  capturer_mutex,        \* who holds it
  restart_thread_mutex,  \* who holds capturer_restart_thread_mutex_
  ownerPc,       \* the application thread inside stop()
  stops,         \* how many times it entered stop()
  had_threads    \* its local variable

streamVars == <<capturing, stream, on_error, deaths>>
threadVars == <<capturer_restarting, errorPc, threadPc, restarted>>
mutexVars  == <<capturer_mutex, restart_thread_mutex>>
ownerVars  == <<ownerPc, stops, had_threads>>
vars == <<running, streamVars, threadVars, mutexVars, ownerVars>>

TypeOK ==
  /\ running \in BOOLEAN
  /\ capturing \in BOOLEAN
  /\ stream \in {"none", "made", "live", "dying", "dead"}
  /\ on_error \in BOOLEAN
  /\ deaths \in 0 .. MaxDeaths
  /\ capturer_restarting \in BOOLEAN
  /\ errorPc \in {"idle", "check", "claim", "lock", "join"}
  /\ threadPc \in {"none", "sleep", "lock", "stop", "init", "arm", "open",
                   "unlock", "clear", "report", "finished"}
  /\ restarted \in BOOLEAN
  /\ capturer_mutex \in {"free", "thread", "owner"}
  /\ restart_thread_mutex \in {"free", "callback", "owner"}
  /\ ownerPc \in {"idle", "look", "halt", "lock", "capturer", "join",
                  "joining", "clear", "destroyed"}
  /\ stops \in 0 .. 2
  /\ had_threads \in BOOLEAN

(* start() has returned. *)
Init ==
  /\ running = TRUE
  /\ capturing = TRUE
  /\ stream = "live"
  /\ on_error = TRUE
  /\ deaths = 0
  /\ capturer_restarting = FALSE
  /\ errorPc = "idle"
  /\ threadPc = "none"
  /\ restarted = FALSE
  /\ capturer_mutex = "free"
  /\ restart_thread_mutex = "free"
  /\ ownerPc = "idle"
  /\ stops = 0
  /\ had_threads = FALSE
-----------------------------------------------------------------------------
(* The platform. *)

StreamDies ==
  /\ stream = "live"
  /\ deaths < MaxDeaths
  /\ stream' = "dying"
  /\ deaths' = deaths + 1
  /\ UNCHANGED <<running, capturing, on_error, threadVars, mutexVars, ownerVars>>

(* didStopWithError, handle_stream_error: only the one that finds the      *)
(* capturer running calls the pipeline, if it still has a callback.  An    *)
(* earlier call has returned: there is no second stream before it spawned  *)
(* the restart thread.                                                     *)
StreamReports ==
  /\ stream = "dying"
  /\ stream' = "dead"
  /\ capturing' = FALSE
  /\ errorPc' = IF capturing /\ on_error THEN "check" ELSE errorPc
  /\ UNCHANGED <<running, on_error, deaths, capturer_restarting, threadPc,
                 restarted, mutexVars, ownerVars>>
-----------------------------------------------------------------------------
(* handle_capturer_error, on the platform's thread. *)

ErrorStep(from, to) == errorPc = from /\ errorPc' = to

ErrorSeesRunning ==
  /\ ErrorStep("check", IF running THEN "claim" ELSE "idle")
  /\ UNCHANGED <<running, streamVars, capturer_restarting, threadPc, restarted,
                 mutexVars, ownerVars>>

(* Mutant: the flag is stored without looking at it. *)
ErrorClaimsBlindly ==
  /\ ErrorStep("claim", "lock")
  /\ capturer_restarting' = TRUE
  /\ UNCHANGED <<running, streamVars, threadPc, restarted, mutexVars, ownerVars>>

ErrorClaims ==
  /\ ErrorStep("claim", IF capturer_restarting THEN "idle" ELSE "lock")
  /\ capturer_restarting' = TRUE
  /\ UNCHANGED <<running, streamVars, threadPc, restarted, mutexVars, ownerVars>>

ErrorLocks ==
  /\ ErrorStep("lock", "join")
  /\ restart_thread_mutex = "free"
  /\ restart_thread_mutex' = "callback"
  /\ UNCHANGED <<running, streamVars, capturer_restarting, threadPc, restarted,
                 capturer_mutex, ownerVars>>

(* The previous restart thread is joined before the object is reused. *)
ErrorSpawns ==
  /\ ErrorStep("join", "idle")
  /\ threadPc \in {"none", "finished"}
  /\ threadPc' = "sleep"
  /\ restarted' = FALSE
  /\ restart_thread_mutex' = "free"
  /\ UNCHANGED <<running, streamVars, capturer_restarting, capturer_mutex,
                 ownerVars>>
-----------------------------------------------------------------------------
(* The restart thread. *)

ThreadStep(from, to) == threadPc = from /\ threadPc' = to

ThreadWakes ==
  /\ running
  /\ ThreadStep("sleep", "lock")
  /\ UNCHANGED <<running, streamVars, capturer_restarting, errorPc, restarted,
                 mutexVars, ownerVars>>

ThreadGivesUp ==
  /\ ~running
  /\ ThreadStep("sleep", "finished")
  /\ capturer_restarting' = FALSE
  /\ UNCHANGED <<running, streamVars, errorPc, restarted, mutexVars, ownerVars>>

(* Mutant: running_ is not read again. *)
ThreadLocksBlindly ==
  /\ ThreadStep("lock", "stop")
  /\ capturer_mutex = "free"
  /\ capturer_mutex' = "thread"
  /\ UNCHANGED <<running, streamVars, capturer_restarting, errorPc, restarted,
                 restart_thread_mutex, ownerVars>>

(* running_ is read again under capturer_mutex_. *)
ThreadLocks ==
  /\ ThreadStep("lock", IF running THEN "stop" ELSE "unlock")
  /\ capturer_mutex = "free"
  /\ capturer_mutex' = "thread"
  /\ UNCHANGED <<running, streamVars, capturer_restarting, errorPc, restarted,
                 restart_thread_mutex, ownerVars>>

(* SCKCapturer::restart: stop, init, then start in two steps. *)
RestartStops ==
  /\ ThreadStep("stop", "init")
  /\ capturing' = FALSE
  /\ stream' = "none"
  /\ UNCHANGED <<running, on_error, deaths, capturer_restarting, errorPc,
                 restarted, mutexVars, ownerVars>>

RestartInits ==
  /\ \/ ThreadStep("init", "arm") /\ stream' = "made"
     \/ ThreadStep("init", "unlock") /\ UNCHANGED stream
  /\ UNCHANGED <<running, capturing, on_error, deaths, capturer_restarting,
                 errorPc, restarted, mutexVars, ownerVars>>

RestartArms ==
  /\ ThreadStep("arm", "open")
  /\ capturing' = TRUE
  /\ UNCHANGED <<running, stream, on_error, deaths, capturer_restarting,
                 errorPc, restarted, mutexVars, ownerVars>>

(* startCapture succeeds or not; the capturer's flag stays set when not. *)
RestartOpens ==
  /\ ThreadStep("open", "unlock")
  /\ \/ stream' = "live" /\ restarted' = TRUE
     \/ stream' = "dead" /\ UNCHANGED restarted
  /\ UNCHANGED <<running, capturing, on_error, deaths, capturer_restarting,
                 errorPc, mutexVars, ownerVars>>

ThreadUnlocks ==
  /\ ThreadStep("unlock", "clear")
  /\ capturer_mutex' = "free"
  /\ UNCHANGED <<running, streamVars, capturer_restarting, errorPc, restarted,
                 restart_thread_mutex, ownerVars>>

ThreadClears ==
  /\ ThreadStep("clear", "report")
  /\ capturer_restarting' = FALSE
  /\ UNCHANGED <<running, streamVars, errorPc, restarted, mutexVars, ownerVars>>

(* Mutant: a restart that failed is only logged. *)
ThreadReportsNothing ==
  /\ ThreadStep("report", "finished")
  /\ UNCHANGED <<running, streamVars, capturer_restarting, errorPc, restarted,
                 mutexVars, ownerVars>>

(* A restart that failed marks the pipeline failed. *)
ThreadReports ==
  /\ ThreadStep("report", "finished")
  /\ running' = (running /\ restarted)
  /\ UNCHANGED <<streamVars, capturer_restarting, errorPc, restarted, mutexVars,
                 ownerVars>>
-----------------------------------------------------------------------------
(* The rest of the pipeline clears running_ at any time. *)
PipelineFails ==
  /\ running
  /\ running' = FALSE
  /\ UNCHANGED <<streamVars, threadVars, mutexVars, ownerVars>>

(* stop(), and again from the destructor. *)
OwnerStep(from, to) == ownerPc = from /\ ownerPc' = to

Stop ==
  /\ OwnerStep("idle", "look")
  /\ stops' = 1
  /\ UNCHANGED <<running, streamVars, threadVars, mutexVars, had_threads>>

(* The first time the four worker threads are joinable. *)
StopLooks ==
  /\ OwnerStep("look", "halt")
  /\ restart_thread_mutex = "free"
  /\ had_threads' = (stops = 1 \/ threadPc # "none")
  /\ UNCHANGED <<running, streamVars, threadVars, mutexVars, stops>>

StopHalts ==
  /\ OwnerStep("halt", IF running \/ had_threads THEN "lock" ELSE "join")
  /\ running' = FALSE
  /\ UNCHANGED <<streamVars, threadVars, mutexVars, stops, had_threads>>

StopLocks ==
  /\ OwnerStep("lock", "capturer")
  /\ capturer_mutex = "free"
  /\ capturer_mutex' = "owner"
  /\ capturing' = FALSE
  /\ UNCHANGED <<running, stream, on_error, deaths, threadVars,
                 restart_thread_mutex, stops, had_threads>>

(* Mutant: capturer_mutex_ is held until stop() returns. *)
StopCapturerHolding ==
  /\ OwnerStep("capturer", "join")
  /\ stream' = "none"
  /\ on_error' = FALSE
  /\ UNCHANGED <<running, capturing, deaths, threadVars, mutexVars, stops,
                 had_threads>>

(* The stream is stopped or, when it had failed, let go. *)
StopCapturer ==
  /\ OwnerStep("capturer", "join")
  /\ stream' = "none"
  /\ on_error' = FALSE
  /\ capturer_mutex' = "free"
  /\ UNCHANGED <<running, capturing, deaths, threadVars, restart_thread_mutex,
                 stops, had_threads>>

(* After the worker threads, the restart thread is joined under its mutex. *)
StopLocksThread ==
  /\ OwnerStep("join", "joining")
  /\ restart_thread_mutex = "free"
  /\ restart_thread_mutex' = "owner"
  /\ UNCHANGED <<running, streamVars, threadVars, capturer_mutex, stops,
                 had_threads>>

StopJoins ==
  /\ OwnerStep("joining", "clear")
  /\ threadPc \in {"none", "finished"}
  /\ threadPc' = "none"
  /\ restart_thread_mutex' = "free"
  /\ UNCHANGED <<running, streamVars, capturer_restarting, errorPc, restarted,
                 capturer_mutex, stops, had_threads>>

(* The application destroys the pipeline when the first stop() returned. *)
StopReturns ==
  /\ OwnerStep("clear", IF stops = 1 THEN "look" ELSE "destroyed")
  /\ capturer_restarting' = FALSE
  /\ stops' = 2
  /\ UNCHANGED <<running, streamVars, errorPc, threadPc, restarted, mutexVars,
                 had_threads>>
-----------------------------------------------------------------------------
ErrorCallback == ErrorSeesRunning \/ ErrorClaims \/ ErrorLocks \/ ErrorSpawns

RestartThread ==
  \/ ThreadWakes \/ ThreadGivesUp \/ ThreadLocks
  \/ RestartStops \/ RestartInits \/ RestartArms \/ RestartOpens
  \/ ThreadUnlocks \/ ThreadClears \/ ThreadReports

Stopping ==
  \/ StopLooks \/ StopHalts \/ StopLocks \/ StopCapturer
  \/ StopLocksThread \/ StopJoins \/ StopReturns

Next ==
  \/ StreamDies \/ StreamReports
  \/ ErrorCallback
  \/ RestartThread
  \/ PipelineFails
  \/ Stop \/ Stopping

Spec == Init /\ [][Next]_vars

(* Threads that can run do run, the platform reports a death, and its      *)
(* start and stop calls return (they have timeouts of ten seconds).        *)
FairSpec ==
  /\ Spec
  /\ WF_vars(StreamReports)
  /\ WF_vars(ErrorCallback)
  /\ WF_vars(RestartThread)
  /\ WF_vars(Stopping)
-----------------------------------------------------------------------------
(* Once stop() let go of capturer_mutex_ nothing captures any more: a      *)
(* restart that was under way, waiting for the mutex or still to be        *)
(* spawned does not bring the stream back (pipeline.cpp:111-116, 326-334). *)
CaptureStaysStopped ==
  (ownerPc \in {"join", "joining", "clear", "destroyed"} \/ stops = 2)
    => stream = "none" /\ ~capturing

(* No two restarts at a time: while the pipeline runs, a restart thread    *)
(* that may still touch the capturer, or a callback about to spawn one,    *)
(* holds the claim, and there is only one of them.                         *)
RestartPending == threadPc \in {"sleep", "lock", "stop", "init", "arm", "open",
                                "unlock", "clear"}

OneRestart ==
  /\ running /\ (RestartPending \/ errorPc \in {"lock", "join"})
       => capturer_restarting
  /\ ~(RestartPending /\ errorPc \in {"lock", "join"})

(* stop() and the destructor return, whatever the restart is doing: nobody *)
(* waits for a mutex whose holder waits for him.                           *)
StopReturnsAtLast == ownerPc = "look" ~> ownerPc = "destroyed"

(* The error whose callback claimed the restart is dealt with: capture     *)
(* comes back or the pipeline stops.                                       *)
ClaimedErrorIsHandled == errorPc = "lock" ~> (stream = "live" \/ ~running)

=============================================================================
