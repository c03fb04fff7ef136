------------------------------- MODULE Lifecycle -------------------------------
(***************************************************************************)
(* LifecycleManager (rpytest/src/daemon/lifecycle.rs): a state machine     *)
(* that follows one daemon, which it spawns, checks, stops and restarts,   *)
(* among the processes of DaemonProcess.                                   *)
(*                                                                         *)
(* A call is the list of steps it has left; the manager sleeps between     *)
(* them, or could be preempted there.                                      *)
(***************************************************************************)
EXTENDS DaemonProcess, Sequences

CONSTANTS
    MaxRestarts,  \* LifecycleConfig::max_restarts
    RestartBound  \* bound: restarts the user asks for

ASSUME LifecycleAssumption ==
    MaxRestarts \in Nat /\ RestartBound \in Nat /\ RestartBound >= MaxRestarts

VARIABLES
    state,     \* current_state
    tracked,   \* tracked_pid
    restarts,  \* restart_count
    todo,      \* what is left of the call under way
    young,     \* the child start spawned and has not confirmed
    own,       \* every child of the manager's process
    leaked,    \* those start returned an error for
    reaps      \* whether the manager's process ignores SIGCHLD

manager == <<state, tracked, restarts, todo, young, own, leaked, reaps>>
allVars == <<vars, manager>>

States == {"Stopped", "Starting", "Running", "Unhealthy", "ShuttingDown"}
IsAlive == {"Starting", "Running", "Unhealthy"}
CanStart == {"Stopped", "Unhealthy"}
CanStop == {"Starting", "Running", "Unhealthy"}

LifecycleInit ==
    /\ Init
    /\ state = "Stopped"
    /\ tracked = None
    /\ restarts = 0
    /\ todo = <<>>
    /\ young = None
    /\ own = {} /\ leaked = {}
    /\ reaps \in BOOLEAN

-----------------------------------------------------------------------------
(* apply_event *)

\* Mutant: a failed start is not an event of a manager that is Starting.
MovesWithoutFailure ==
    {<<"Stopped", "StartRequested", "Starting">>,
     <<"Unhealthy", "StartRequested", "Starting">>,
     <<"Starting", "StartupConfirmed", "Running">>,
     <<"Starting", "StopRequested", "ShuttingDown">>,
     <<"Running", "StopRequested", "ShuttingDown">>,
     <<"Unhealthy", "StopRequested", "ShuttingDown">>,
     <<"ShuttingDown", "ProcessExited", "Stopped">>,
     <<"Running", "HealthCheckFailed", "Unhealthy">>,
     <<"Unhealthy", "HealthCheckPassed", "Running">>,
     <<"Unhealthy", "RecoveryInitiated", "Starting">>,
     <<"Running", "ProcessExited", "Stopped">>,
     <<"Starting", "ProcessExited", "Stopped">>}

Moves ==
    {<<"Stopped", "StartRequested", "Starting">>,
     <<"Unhealthy", "StartRequested", "Starting">>,
     <<"Starting", "StartupConfirmed", "Running">>,
     <<"Starting", "StartupFailed", "Stopped">>,
     <<"Starting", "StopRequested", "ShuttingDown">>,
     <<"Running", "StopRequested", "ShuttingDown">>,
     <<"Unhealthy", "StopRequested", "ShuttingDown">>,
     <<"ShuttingDown", "ProcessExited", "Stopped">>,
     <<"Running", "HealthCheckFailed", "Unhealthy">>,
     <<"Unhealthy", "HealthCheckPassed", "Running">>,
     <<"Starting", "HealthCheckFailed", "Unhealthy">>,
     <<"Unhealthy", "RecoveryInitiated", "Starting">>,
     <<"Running", "ProcessExited", "Stopped">>,
     <<"Starting", "ProcessExited", "Stopped">>}

\* Any other event leaves the state.
Takes(event) == \E s \in States : <<state, event, s>> \in Moves

After(s, event) ==
    IF \E t \in States : <<s, event, t>> \in Moves
    THEN CHOOSE t \in States : <<s, event, t>> \in Moves
    ELSE s

Apply(event) == state' = After(state, event)

\* Mutant: the process that exited is still the tracked one.
ForgetNothing(event) ==
    /\ Apply(event)
    /\ UNCHANGED tracked

\* StartupFailed, ProcessExited: what moves to Stopped forgets the process.
Forget(event) ==
    /\ Apply(event)
    /\ tracked' = IF Takes(event) THEN None ELSE tracked

-----------------------------------------------------------------------------
(* The process and its files *)

\* kill(pid, 0) succeeds for a zombie; spawn_daemon drops the Child and
\* nobody waits for it, unless the kernel does.
IsProcessAlive(d) == pc[d] \in Alive \/ (pc[d] = "dead" /\ d \in own /\ ~reaps)

\* What is_running asks.
IsRunning == tracked # None /\ IsProcessAlive(tracked)

\* cleanup_stale_files: any file at the path, and a pid file that names no
\* process.
RemoveSocket ==
    /\ socket' = None
    /\ IF socket # None THEN Disturb ELSE UNCHANGED astray
    /\ UNCHANGED calm

CleanupStaleFiles ==
    /\ RemoveSocket
    /\ pidFile' = IF pidFile # None /\ ~IsProcessAlive(pidFile) THEN None ELSE pidFile

\* A process id of a child is not given again.
Spawnable(d) == d \notin own /\ pc[d] \in {"none", "dead"} /\ d # pidFile /\ d # socket

-----------------------------------------------------------------------------
(* Calls *)

Doing(step) == todo # <<>> /\ Head(todo) = step
Done == todo' = Tail(todo)
Fail == todo' = <<>>

Quiet == UNCHANGED <<pc, store, commands>>

StartCall == <<"sync", "start">>
StopCall == <<"sync", "stop">>
RestartCall == <<"sync", "stop", "count", "sync", "start">>
RecoverCall == <<"recover", "sync", "stop", "count", "sync", "start">>

Call ==
    /\ todo = <<>>
    /\ todo' \in {StartCall, StopCall, <<"sync", "check">>}
                    \cup {c \in {RestartCall} : restarts < RestartBound}
                    \cup {c \in {RecoverCall} : restarts < MaxRestarts}
    /\ UNCHANGED <<vars, state, tracked, restarts, young, own, leaked, reaps>>

\* sync_with_reality
Sync ==
    /\ Doing("sync")
    /\ IF tracked # None /\ ~IsRunning
       THEN Forget("ProcessExited")
       ELSE UNCHANGED <<state, tracked>>
    /\ Done
    /\ UNCHANGED <<vars, restarts, young, own, leaked, reaps>>

\* Mutant: start looks at the state and not at the process it tracks.
AlreadyStartedRunning == state = "Running"

\* What start takes for a daemon that needs no start.
AlreadyStarted == state \in IsAlive /\ tracked # None

StartNothing ==
    /\ Doing("start")
    /\ AlreadyStarted
    /\ Done
    /\ UNCHANGED <<vars, state, tracked, restarts, young, own, leaked, reaps>>

\* "Cannot start daemon from this state"
StartRefused ==
    /\ Doing("start")
    /\ ~AlreadyStarted /\ state \notin CanStart
    /\ Fail
    /\ UNCHANGED <<vars, state, tracked, restarts, young, own, leaked, reaps>>

StartsNow == Doing("start") /\ ~AlreadyStarted /\ state \in CanStart

\* cleanup_stale_files fails: start returns in the middle.
StartCleanupFails ==
    /\ ~calm /\ StartsNow
    /\ Apply("StartRequested")
    /\ Fail
    /\ UNCHANGED <<vars, tracked, restarts, young, own, leaked, reaps>>

\* StartRequested, then StartupFailed
FailedStart ==
    /\ state' = After(After(state, "StartRequested"), "StartupFailed")
    /\ tracked' = None

\* spawn_daemon fails before there is a child.
StartFails ==
    /\ StartsNow
    /\ calm => \A d \in Daemons : ~Spawnable(d)
    /\ CleanupStaleFiles
    /\ FailedStart
    /\ Fail
    /\ Quiet
    /\ UNCHANGED <<restarts, young, own, leaked, reaps>>

\* ... or after: write_pid returns an error and the child goes on.
StartLeaks ==
    /\ ~calm /\ StartsNow
    /\ CleanupStaleFiles
    /\ \E d \in Daemons :
          /\ Spawnable(d)
          /\ Goto(d, "begun")
          /\ own' = own \cup {d} /\ leaked' = leaked \cup {d}
    /\ FailedStart
    /\ Fail
    /\ UNCHANGED <<store, commands, restarts, young, reaps>>

\* The child has half a second to start.
Start ==
    /\ StartsNow
    /\ Apply("StartRequested")
    /\ RemoveSocket
    /\ \E d \in Daemons :
          /\ Spawnable(d)
          /\ Goto(d, "begun")
          /\ pidFile' = d
          /\ young' = d
          /\ own' = own \cup {d}
    /\ todo' = [todo EXCEPT ![1] = "confirm"]
    /\ UNCHANGED <<store, commands, tracked, restarts, leaked, reaps>>

Confirm ==
    /\ Doing("confirm")
    /\ Apply("StartupConfirmed")
    /\ tracked' = young
    /\ young' = None
    /\ Done
    /\ UNCHANGED <<vars, restarts, own, leaked, reaps>>

\* Nothing to stop: "already stopped or shutting down".
StopNothing ==
    /\ Doing("stop")
    /\ state \notin CanStop
    /\ Done
    /\ UNCHANGED <<vars, state, tracked, restarts, young, own, leaked, reaps>>

\* SIGTERM, which the daemon has no handler for; then up to 5 s, for a zombie
\* all of them and a SIGKILL.
Stop ==
    /\ Doing("stop") /\ state \in CanStop
    /\ IsRunning
    /\ Apply("StopRequested")
    /\ pc' = [pc EXCEPT ![tracked] = "dead"]
    /\ store' = [store EXCEPT ![tracked] = None]
    /\ IF pc[tracked] = "listen" \/ socket = tracked THEN Disturb ELSE UNCHANGED astray
    /\ todo' = [todo EXCEPT ![1] = "stopped"]
    /\ UNCHANGED <<files, commands, calm, tracked, restarts, young, own, leaked, reaps>>

\* There is no process to wait for.
StopNoProcess ==
    /\ Doing("stop") /\ state \in CanStop
    /\ ~IsRunning
    /\ todo' = [todo EXCEPT ![1] = "stopped"]
    /\ UNCHANGED <<vars, state, tracked, restarts, young, own, leaked, reaps>>

Stopped ==
    /\ Doing("stopped")
    /\ CleanupStaleFiles
    /\ Forget("ProcessExited")
    /\ Done
    /\ Quiet
    /\ UNCHANGED <<restarts, young, own, leaked, reaps>>

StopCleanupFails ==
    /\ ~calm /\ Doing("stopped")
    /\ Fail
    /\ UNCHANGED <<vars, state, tracked, restarts, young, own, leaked, reaps>>

\* Mutant: restart counts its stop and its start.
CountBoth ==
    /\ Doing("count")
    /\ restarts' = restarts + 2
    /\ Done
    /\ UNCHANGED <<vars, state, tracked, young, own, leaked, reaps>>

\* restart counts between the stop and the start.
Count ==
    /\ Doing("count")
    /\ restarts' = restarts + 1
    /\ Done
    /\ UNCHANGED <<vars, state, tracked, young, own, leaked, reaps>>

\* recover counts as well, if the manager is Unhealthy.
RecoveryInitiated ==
    /\ Doing("recover")
    /\ Apply("RecoveryInitiated")
    /\ restarts' = IF Takes("RecoveryInitiated") THEN restarts + 1 ELSE restarts
    /\ Done
    /\ UNCHANGED <<vars, tracked, young, own, leaked, reaps>>

\* health_check, which takes the file at the path for a daemon that answers.
HealthCheck ==
    /\ Doing("check")
    /\ IF ~IsRunning THEN UNCHANGED state
       ELSE IF socket # None THEN Apply("HealthCheckPassed")
       ELSE IF state = "Running" THEN Apply("HealthCheckFailed")
       ELSE UNCHANGED state
    /\ Done
    /\ UNCHANGED <<vars, tracked, restarts, young, own, leaked, reaps>>

ResetRestartCount ==
    /\ todo = <<>> /\ restarts # 0
    /\ restarts' = 0
    /\ UNCHANGED <<vars, state, tracked, todo, young, own, leaked, reaps>>

-----------------------------------------------------------------------------
ManagerStep ==
    \/ Sync
    \/ StartNothing \/ StartRefused \/ StartCleanupFails \/ StartFails \/ StartLeaks
    \/ Start \/ Confirm
    \/ StopNothing \/ Stop \/ StopNoProcess \/ Stopped \/ StopCleanupFails
    \/ Count \/ RecoveryInitiated \/ HealthCheck

LifecycleNext ==
    \/ Call \/ ManagerStep \/ ResetRestartCount
    \/ /\ Next
       /\ \A d \in own : pc[d] = "dead" => pc'[d] = "dead"
       /\ UNCHANGED manager

LifecycleSpec == LifecycleInit /\ [][LifecycleNext]_allVars

-----------------------------------------------------------------------------
(* Properties *)

LifecycleTypeOK ==
    /\ ProcessTypeOK
    /\ state \in States
    /\ tracked \in Daemons \cup {None}
    /\ restarts \in 0 .. RestartBound + 1
    /\ todo = <<>> \/ Head(todo) \in 
           {"sync", "start", "confirm", "stop", "stopped", "count", "recover", "check"}
    /\ young \in Daemons \cup {None}
    /\ leaked \subseteq own /\ own \subseteq Daemons
    /\ reaps \in BOOLEAN

(* The state says whether there is a process to look after: none when        *)
(* Stopped, one when Running, Unhealthy or ShuttingDown, and that one dead   *)
(* as soon as the manager is ShuttingDown (lifecycle.rs:245-320, 400-430).   *)
TrackedInStep ==
    /\ state = "Stopped" => tracked = None
    /\ state \in {"Running", "Unhealthy", "ShuttingDown"} => tracked # None
    /\ state = "ShuttingDown" => pc[tracked] \notin Alive

(* No daemon the manager spawned goes on without it: what lives is tracked,  *)
(* about to be confirmed, or the child whose pid file could not be written   *)
(* (lifecycle.rs:341-386, 559-583).                                          *)
NoneLost ==
    \A d \in own : pc[d] \in Alive => d \in {tracked, young} \cup leaked

(* Between calls the manager is Stopped, Running or Unhealthy; only a file   *)
(* that cannot be removed leaves it in a state that is passed through        *)
(* (lifecycle.rs:362, 431).                                                  *)
RestsSettled ==
    calm /\ todo = <<>> => state \in {"Stopped", "Running", "Unhealthy"}
=============================================================================
