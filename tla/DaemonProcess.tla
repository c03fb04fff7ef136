---------------------------- MODULE DaemonProcess ----------------------------
(***************************************************************************)
(* The processes around one socket path: daemons that start, serve and die *)
(* (rpytest-daemon/src/main.rs, DaemonServer::new and run) and command     *)
(* lines that connect and spawn a daemon when nobody answers (connect of   *)
(* rpytest/src/daemon/client.rs), stop and clean up (rpytest/src/main.rs). *)
(*                                                                         *)
(* They share the path of the socket, the pid file and two storage         *)
(* directories, and know nothing else of each other.                       *)
(***************************************************************************)
EXTENDS Naturals, FiniteSets

CONSTANTS
    Daemons,   \* process ids
    Clients,   \* command lines
    Attempts,  \* bound: connections connect tries after it spawned
    None       \* no process

ASSUME ProcessAssumption ==
    /\ None \notin Daemons
    /\ Attempts \in Nat \ {0}

VARIABLES
    pc,       \* where main of each daemon is
    store,    \* the storage directory a daemon holds the lock of
    socket,   \* the daemon whose listener made the file at the path
    pidFile,  \* the daemon the pid file names
    client,   \* where connect is in each command line
    tries,    \* the attempts it has left
    calm,     \* whether nobody kills, interrupts, cleans up, no disk fails
    astray    \* daemons that served when the path was disturbed

files    == <<socket, pidFile>>
commands == <<client, tries>>
history  == <<calm, astray>>
vars     == <<pc, store, files, commands, history>>

Starting == {"begun", "open", "fallback", "check", "unlink", "listen"}
Alive == Starting \cup {"serving", "interrupted", "leaving"}

Primary == "storage"
Temp == "temp"

Serving == {d \in Daemons : pc[d] = "serving"}

\* A dial of the path succeeds; an interrupted daemon has its listener still.
Answers == socket # None /\ pc[socket] \in {"serving", "interrupted"}
Reachable == socket \in Serving

\* The file at the path may have been left by a daemon of an earlier day.
Init ==
    /\ socket \in Daemons \cup {None}
    /\ pc = [d \in Daemons |-> IF d = socket THEN "dead" ELSE "none"]
    /\ store = [d \in Daemons |-> None]
    /\ pidFile \in {None, socket}
    /\ client = [c \in Clients |-> "idle"]
    /\ tries = [c \in Clients |-> 0]
    /\ calm \in BOOLEAN
    /\ astray = {}

-----------------------------------------------------------------------------
(* A daemon starts *)

Goto(d, where) == pc' = [pc EXCEPT ![d] = where]

\* A process id can be given again once no file names it.
Begin(d) ==
    /\ pc[d] \in {"none", "dead"}
    /\ d \notin {socket, pidFile}
    /\ Goto(d, "begun")
    /\ UNCHANGED <<store, files, history>>

\* write_pid_file; its failure is only logged.
WritePid(d) ==
    /\ pc[d] = "begun"
    /\ Goto(d, "open")
    /\ pidFile' = d \/ (~calm /\ UNCHANGED pidFile)
    /\ UNCHANGED <<store, socket, commands, history>>

\* sled takes an exclusive lock on the directory it opens.
Unlocked(where) == \A d \in Daemons : store[d] # where

OpenStorage(d) ==
    \E at \in {<<"open", Primary>>, <<"fallback", Temp>>} :
        /\ pc[d] = at[1]
        /\ Unlocked(at[2])
        /\ store' = [store EXCEPT ![d] = at[2]]
        /\ Goto(d, "check")
        /\ UNCHANGED <<files, commands, history>>

\* The first directory is locked or broken; main tries the temp directory.
FallBack(d) ==
    /\ pc[d] = "open"
    /\ calm => ~Unlocked(Primary)
    /\ Goto(d, "fallback")
    /\ UNCHANGED <<store, files, commands, history>>

\* So is the second: main returns the error, and leaves the pid file.
NoStorage(d) ==
    /\ pc[d] = "fallback"
    /\ calm => ~Unlocked(Temp)
    /\ Goto(d, "dead")
    /\ UNCHANGED <<store, files, commands, history>>

\* Mutant: a file at the path is taken for a daemon that serves.
CheckTrusting(d) ==
    /\ pc[d] = "check"
    /\ Goto(d, IF socket = None THEN "listen" ELSE "leaving")
    /\ UNCHANGED <<store, files, commands, history>>

\* run: is there a file at the path of the socket?
Check(d) ==
    /\ pc[d] = "check"
    /\ Goto(d, IF socket = None THEN "listen" ELSE "unlink")
    /\ UNCHANGED <<store, files, commands, history>>

\* The file is removed, whoever listens to it.
Unlink(d) ==
    /\ pc[d] = "unlink" /\ socket # None
    /\ Goto(d, "listen")
    /\ socket' = None
    /\ UNCHANGED <<store, pidFile, commands, history>>

\* Another daemon has removed it since: run returns the error.
UnlinkFails(d) ==
    /\ pc[d] = "unlink" /\ socket = None
    /\ Goto(d, "leaving")
    /\ UNCHANGED <<store, files, commands, history>>

\* Mutant: the file at the path is removed after the listen.
ListenThenUnlink(d) ==
    /\ pc[d] = "listen" /\ ~Answers
    /\ Goto(d, "serving")
    /\ socket' = None
    /\ UNCHANGED <<store, pidFile, commands, history>>

\* nng replaces a file nobody listens to.
Listen(d) ==
    /\ pc[d] = "listen" /\ ~Answers
    /\ Goto(d, "serving")
    /\ socket' = d
    /\ UNCHANGED <<store, pidFile, commands, history>>

AddressInUse(d) ==
    /\ pc[d] = "listen" /\ Answers
    /\ Goto(d, "leaving")
    /\ UNCHANGED <<store, files, commands, history>>

-----------------------------------------------------------------------------
(* A daemon ends *)

\* Who serves now may not be found through the path any more.
Disturb == astray' = Serving

Dead(d) ==
    /\ Goto(d, "dead")
    /\ store' = [store EXCEPT ![d] = None]

\* The last of main: remove_pid_file does not look whose pid it is.
Leave(d) ==
    /\ pc[d] \in {"interrupted", "leaving"}
    /\ Dead(d)
    /\ pidFile' = None
    /\ UNCHANGED <<socket, commands, history>>

\* Ctrl-C: the one way to end run.
Interrupt(d) ==
    /\ ~calm /\ pc[d] = "serving"
    /\ Goto(d, "interrupted")
    /\ Disturb
    /\ UNCHANGED <<store, files, commands, calm>>

\* The socket thread may get to close its socket before the process exits;
\* nng unlinks the path by its name.
CloseSocket(d) ==
    /\ pc[d] = "interrupted"
    /\ Goto(d, "leaving")
    /\ socket' = None
    /\ Disturb
    /\ UNCHANGED <<store, pidFile, commands, calm>>

\* SIGTERM or SIGKILL, at any moment: no file is removed.
Kill(d) ==
    /\ ~calm /\ pc[d] \in Alive
    /\ Dead(d)
    /\ IF pc[d] = "listen" \/ socket = d THEN Disturb ELSE UNCHANGED astray
    /\ UNCHANGED <<files, commands, calm>>

-----------------------------------------------------------------------------
(* A command line connects: DaemonManager::connect *)

Step(c, where) == client' = [client EXCEPT ![c] = where]

Dial(c) ==
    /\ client[c] = "idle"
    /\ Step(c, IF Answers THEN "connected" ELSE "spawn")
    /\ UNCHANGED <<pc, store, files, tries, history>>

SpawnDaemon(c) ==
    /\ client[c] = "spawn"
    /\ \E d \in Daemons : Begin(d)
    /\ Step(c, "retry")
    /\ tries' = [tries EXCEPT ![c] = Attempts]

\* The binary is not found or cannot be started.
SpawnFails(c) ==
    /\ client[c] = "spawn"
    /\ Step(c, "failed")
    /\ UNCHANGED <<pc, store, files, tries, history>>

\* Mutant: a failed attempt costs nothing.
RetryForever(c) ==
    /\ client[c] = "retry"
    /\ Step(c, IF Answers THEN "connected" ELSE "retry")
    /\ UNCHANGED <<pc, store, files, tries, history>>

\* One attempt; the back-off after the last leads to the error.
Retry(c) ==
    /\ client[c] = "retry"
    /\ tries' = [tries EXCEPT ![c] = @ - 1]
    /\ Step(c, IF Answers THEN "connected"
               ELSE IF tries[c] = 1 THEN "failed" ELSE "retry")
    /\ UNCHANGED <<pc, store, files, history>>

\* The command ends; somebody types the next one.
NextCommand(c) ==
    /\ client[c] \in {"connected", "failed", "stopped"}
    /\ Step(c, "idle")
    /\ tries' = [tries EXCEPT ![c] = 0]
    /\ UNCHANGED <<pc, store, files, history>>

-----------------------------------------------------------------------------
(* Other commands *)

\* --daemon runs a daemon in the foreground.
DaemonMode == (\E d \in Daemons : Begin(d)) /\ UNCHANGED commands

\* --cleanup: a new LifecycleManager tracks no process, so that is_running
\* is false and a file at the path is always removed.
Cleanup ==
    /\ ~calm /\ socket # None
    /\ socket' = None
    /\ Disturb
    /\ UNCHANGED <<pc, store, pidFile, commands, calm>>

\* --daemon-stop stops nothing: shutdown_daemon has no client to send with,
\* and the new LifecycleManager tracks no process.
DaemonStop(c) ==
    /\ client[c] = "idle"
    /\ Step(c, "stopped")
    /\ UNCHANGED <<pc, store, files, tries, history>>

-----------------------------------------------------------------------------
DaemonStep(d) ==
    \/ WritePid(d) \/ OpenStorage(d) \/ FallBack(d) \/ NoStorage(d)
    \/ Check(d) \/ Unlink(d) \/ UnlinkFails(d) \/ Listen(d) \/ AddressInUse(d)
    \/ Leave(d)

ClientStep(c) == SpawnDaemon(c) \/ SpawnFails(c) \/ Retry(c)

Next ==
    \/ \E d \in Daemons :
          DaemonStep(d) \/ Interrupt(d) \/ CloseSocket(d) \/ Kill(d)
    \/ \E c \in Clients : Dial(c) \/ ClientStep(c) \/ NextCommand(c) \/ DaemonStop(c)
    \/ DaemonMode \/ Cleanup

Spec == Init /\ [][Next]_vars

\* A process that can go on goes on.
Fairness ==
    /\ \A d \in Daemons : WF_vars(DaemonStep(d))
    /\ \A c \in Clients : WF_vars(ClientStep(c))

FairSpec == Spec /\ Fairness

-----------------------------------------------------------------------------
(* Properties *)

ProcessTypeOK ==
    /\ pc \in [Daemons -> Alive \cup {"none", "dead"}]
    /\ store \in [Daemons -> {Primary, Temp, None}]
    /\ socket \in Daemons \cup {None}
    /\ pidFile \in Daemons \cup {None}
    /\ client \in [Clients -> {"idle", "spawn", "retry", "connected", "failed", "stopped"}]
    /\ tries \in [Clients -> 0 .. Attempts]
    /\ calm \in BOOLEAN
    /\ astray \subseteq Daemons

(* A daemon that takes the path from another puts its own socket there: so  *)
(* long as no daemon was killed between its unlink and its listen, the      *)
(* path's owner neither died nor was cleaned away, a daemon that serves is  *)
(* a sign that one can be reached or is about to listen (server.rs:67-82).  *)
PathKept ==
    Serving \ astray # {} => Reachable \/ \E d \in Daemons : pc[d] = "listen"

(* connect ends, whatever becomes of the daemons (client.rs:104-135).       *)
ConnectReturns ==
    \A c \in Clients : client[c] \in {"spawn", "retry"} ~> client[c] \in {"connected", "failed"}

(* If nobody interferes a daemon can be reached in the end once a client    *)
(* has spawned one, also when several start at a time, remove each other's  *)
(* sockets and compete for the storage (main.rs:105-145, server.rs:67-82).  *)
SpawnServes ==
    \A c \in Clients : client[c] = "retry" /\ calm ~> Reachable
=============================================================================
