----------------------------- MODULE ProcessProofs -----------------------------
(***************************************************************************)
(* The invariants of DaemonProcess and of Lifecycle, for every number of   *)
(* daemons, command lines and attempts to connect.                         *)
(*                                                                         *)
(* The path: PathStep says which changes keep it, and every action of a    *)
(* daemon, of a client or of the manager is one of these.  The manager:    *)
(* its calls are thirteen lists of steps at most, the Plans, so that what  *)
(* is left to do says what the state machine can be in.                    *)
(***************************************************************************)
EXTENDS Lifecycle, TLAPS

\* A listener that was interrupted was the last to serve at its path.
LastServed ==
    socket # None /\ pc[socket] = "interrupted" => Serving \subseteq astray

PathInv == PathKept /\ LastServed

TriesLeft == \A c \in Clients : client[c] = "retry" => tries[c] >= 1

(* The inductive invariant of DaemonProcess. *)
ProcessInv == ProcessTypeOK /\ TriesLeft /\ PathInv

-----------------------------------------------------------------------------
(* The path *)

\* The path was disturbed, and whoever serves is known to be astray.
LEMMA DisturbStep ==
    ASSUME astray' = Serving, Serving' \subseteq Serving
    PROVE  PathInv'
BY DEF PathInv, PathKept, LastServed

\* Nothing at the path changes, and nobody who listens or serves does.
LEMMA PathStep ==
    ASSUME PathInv, astray' = astray, socket' = socket,
           Serving' \subseteq Serving,
           socket \in Serving => socket \in Serving',
           \A d \in Daemons : pc[d] = "listen" => pc'[d] = "listen",
           socket # None /\ pc'[socket] = "interrupted" => pc[socket] = "interrupted"
    PROVE  PathInv'
BY DEF PathInv, PathKept, LastServed, Reachable

\* One daemon moves between points at which it neither listens nor serves.
LEMMA GotoStep ==
    ASSUME ProcessTypeOK, PathInv, NEW d \in Daemons, NEW where, Goto(d, where),
           pc[d] \notin {"listen", "serving"},
           where \notin {"serving", "interrupted"},
           astray' = astray, socket' = socket
    PROVE  PathInv'
<1>1. pc' = [pc EXCEPT ![d] = where] /\ pc \in [Daemons -> Alive \cup {"none", "dead"}]
  BY DEF Goto, ProcessTypeOK
<1>2. Serving' = Serving
  BY <1>1 DEF Serving
<1>3. \A e \in Daemons : pc[e] = "listen" => pc'[e] = "listen"
  BY <1>1
<1>4. socket # None => socket \in Daemons
  BY DEF ProcessTypeOK
<1>5. socket # None /\ pc'[socket] = "interrupted" => pc[socket] = "interrupted"
  BY <1>1, <1>4
<1> QED
  BY <1>2, <1>3, <1>5, PathStep

LEMMA StayStep ==
    ASSUME PathInv, UNCHANGED <<pc, socket, astray>>
    PROVE  PathInv'
BY DEF PathInv, PathKept, LastServed, Reachable, Serving

-----------------------------------------------------------------------------
(* The steps of a daemon *)

\* The points of main at which nothing but the point changes.
LEMMA Typed ==
    ASSUME ProcessTypeOK, NEW d \in Daemons, NEW where \in Alive \cup {"dead"}, Goto(d, where)
    PROVE  /\ pc' \in [Daemons -> Alive \cup {"none", "dead"}]
           /\ \A e \in Daemons : pc[e] # "none" => pc'[e] # "none"
BY DEF ProcessTypeOK, Goto, Alive, Starting

\* Every step of a daemon keeps the commands and is typed.
LEMMA DaemonStepTypes ==
    ASSUME ProcessInv, NEW d \in Daemons,
           DaemonStep(d) \/ Interrupt(d) \/ CloseSocket(d) \/ Kill(d)
    PROVE  ProcessTypeOK' /\ TriesLeft'
<1>1. UNCHANGED <<commands, calm>>
  BY DEF DaemonStep, WritePid, OpenStorage, FallBack, NoStorage, Check, Unlink, UnlinkFails,
         Listen, AddressInUse, Leave, Interrupt, CloseSocket, Kill, history
<1>2. \E where \in Alive \cup {"dead"} : Goto(d, where)
  BY DEF DaemonStep, WritePid, OpenStorage, FallBack, NoStorage, Check, Unlink, UnlinkFails,
         Listen, AddressInUse, Leave, Interrupt, CloseSocket, Kill, Dead, Alive, Starting
<1>3. pc' \in [Daemons -> Alive \cup {"none", "dead"}]
  BY <1>2, Typed DEF ProcessInv
<1>4. \E what \in {Primary, Temp, None} : store' = [store EXCEPT ![d] = what] \/ store' = store
  BY DEF DaemonStep, WritePid, OpenStorage, FallBack, NoStorage, Check, Unlink, UnlinkFails,
         Listen, AddressInUse, Leave, Interrupt, CloseSocket, Kill, Dead
<1>5. store' \in [Daemons -> {Primary, Temp, None}]
  BY <1>4 DEF ProcessInv, ProcessTypeOK
<1>6. socket' \in {socket, d, None} /\ pidFile' \in {pidFile, d, None}
  BY DEF DaemonStep, WritePid, OpenStorage, FallBack, NoStorage, Check, Unlink, UnlinkFails,
         Listen, AddressInUse, Leave, Interrupt, CloseSocket, Kill, files
<1>7. astray' = astray \/ astray' = Serving
  BY DEF DaemonStep, WritePid, OpenStorage, FallBack, NoStorage, Check, Unlink, UnlinkFails,
         Listen, AddressInUse, Leave, Interrupt, CloseSocket, Kill, Disturb, history
<1> QED
  BY <1>1, <1>3, <1>5, <1>6, <1>7 DEF ProcessInv, ProcessTypeOK, TriesLeft, commands, Serving

\* main up to the file check, and its failures.
LEMMA ComingStep ==
    ASSUME ProcessInv, NEW d \in Daemons,
           \/ WritePid(d) \/ OpenStorage(d) \/ FallBack(d) \/ NoStorage(d)
           \/ Check(d) \/ UnlinkFails(d)
    PROVE  PathInv'
<1>1. PICK where \in {"open", "check", "fallback", "dead", "listen", "unlink", "leaving"} :
        Goto(d, where)
  BY DEF WritePid, OpenStorage, FallBack, NoStorage, Check, UnlinkFails
<1>2. pc[d] \in {"begun", "open", "fallback", "check", "unlink"} /\ socket' = socket /\ astray' = astray
  BY DEF WritePid, OpenStorage, FallBack, NoStorage, Check, UnlinkFails, files, history
<1> QED
  BY <1>1, <1>2, GotoStep DEF ProcessInv

LEMMA UnlinkStep ==
    ASSUME ProcessInv, NEW d \in Daemons, Unlink(d)
    PROVE  PathInv'
<1>1. pc' = [pc EXCEPT ![d] = "listen"] /\ socket' = None /\ d \in Daemons
      /\ pc \in [Daemons -> Alive \cup {"none", "dead"}]
  BY DEF Unlink, Goto, ProcessInv, ProcessTypeOK
<1>2. pc'[d] = "listen"
  BY <1>1
<1> QED
  BY <1>1, <1>2 DEF PathInv, PathKept, LastServed

LEMMA ListenStep ==
    ASSUME ProcessInv, NEW d \in Daemons, Listen(d)
    PROVE  PathInv'
<1>1. pc' = [pc EXCEPT ![d] = "serving"] /\ socket' = d
      /\ pc \in [Daemons -> Alive \cup {"none", "dead"}]
  BY DEF Listen, Goto, ProcessInv, ProcessTypeOK
<1>2. pc'[d] = "serving"
  BY <1>1
<1> QED
  BY <1>1, <1>2 DEF PathInv, PathKept, LastServed, Reachable, Serving

\* The one who listens at the path serves, or was interrupted and then
\* everybody who serves is astray.
LEMMA AddressInUseStep ==
    ASSUME ProcessInv, NEW d \in Daemons, AddressInUse(d)
    PROVE  PathInv'
<1>1. /\ pc' = [pc EXCEPT ![d] = "leaving"] /\ socket' = socket /\ astray' = astray
      /\ pc[d] = "listen" /\ pc \in [Daemons -> Alive \cup {"none", "dead"}]
      /\ socket \in Daemons /\ pc[socket] \in {"serving", "interrupted"}
  BY DEF AddressInUse, Answers, Goto, ProcessInv, ProcessTypeOK, files, history
<1>2. Serving' = Serving /\ pc'[socket] = pc[socket]
  BY <1>1 DEF Serving
<1>3. CASE pc[socket] = "serving"
  BY <1>1, <1>2, <1>3 DEF PathInv, PathKept, LastServed, Reachable, Serving
<1>4. CASE pc[socket] = "interrupted"
  <2>1. Serving \subseteq astray
    BY <1>1, <1>4, ProcessAssumption DEF ProcessInv, PathInv, LastServed
  <2> QED
    BY <1>1, <1>2, <2>1 DEF PathInv, PathKept, LastServed
<1> QED
  BY <1>1, <1>3, <1>4

LEMMA LeaveStep ==
    ASSUME ProcessInv, NEW d \in Daemons, Leave(d)
    PROVE  PathInv'
<1>1. /\ Goto(d, "dead") /\ pc[d] \in {"interrupted", "leaving"}
      /\ socket' = socket /\ astray' = astray
  BY DEF Leave, Dead, history
<1> QED
  BY <1>1, GotoStep DEF ProcessInv

\* A daemon that dies without closing its socket.
LEMMA DeathStep ==
    ASSUME ProcessTypeOK, PathInv, NEW d \in Daemons, Goto(d, "dead"), socket' = socket,
           IF pc[d] = "listen" \/ socket = d THEN Disturb ELSE UNCHANGED astray
    PROVE  PathInv'
<1>1. pc' = [pc EXCEPT ![d] = "dead"] /\ pc \in [Daemons -> Alive \cup {"none", "dead"}]
  BY DEF Goto, ProcessTypeOK
<1>2. Serving' \subseteq Serving
  BY <1>1 DEF Serving
<1>3. CASE pc[d] = "listen" \/ socket = d
  BY <1>2, <1>3, DisturbStep DEF Disturb
<1>4. CASE ~(pc[d] = "listen" \/ socket = d)
  <2>1. socket # None => socket \in Daemons
    BY DEF ProcessTypeOK
  <2>2. socket \in Serving => socket \in Serving'
    BY <1>1, <1>4 DEF Serving
  <2>3. socket # None /\ pc'[socket] = "interrupted" => pc[socket] = "interrupted"
    BY <1>1, <1>4, <2>1
  <2>4. \A e \in Daemons : pc[e] = "listen" => pc'[e] = "listen"
    BY <1>1, <1>4
  <2> QED
    BY <1>2, <1>4, <2>2, <2>3, <2>4, PathStep
<1> QED
  BY <1>3, <1>4

LEMMA EndingStep ==
    ASSUME ProcessInv, NEW d \in Daemons, Interrupt(d) \/ CloseSocket(d) \/ Kill(d)
    PROVE  PathInv'
<1>1. CASE Interrupt(d) \/ CloseSocket(d)
  <2>1. astray' = Serving /\ \E where \in {"interrupted", "leaving"} : Goto(d, where)
    BY <1>1 DEF Interrupt, CloseSocket, Disturb
  <2>2. Serving' \subseteq Serving
    BY <2>1 DEF Serving, Goto, ProcessInv, ProcessTypeOK
  <2> QED
    BY <2>1, <2>2, DisturbStep
<1>2. CASE Kill(d)
  BY <1>2, DeathStep DEF Kill, Dead, files, ProcessInv
<1> QED
  BY <1>1, <1>2

LEMMA DaemonsStep ==
    ASSUME ProcessInv, NEW d \in Daemons,
           DaemonStep(d) \/ Interrupt(d) \/ CloseSocket(d) \/ Kill(d)
    PROVE  ProcessInv'
<1>1. PathInv'
  BY ComingStep, UnlinkStep, ListenStep, AddressInUseStep, LeaveStep, EndingStep DEF DaemonStep
<1> QED
  BY <1>1, DaemonStepTypes DEF ProcessInv

-----------------------------------------------------------------------------
(* The commands *)

LEMMA BeginStep ==
    ASSUME ProcessInv, NEW d \in Daemons, Begin(d)
    PROVE  /\ PathInv' /\ pc' \in [Daemons -> Alive \cup {"none", "dead"}]
           /\ UNCHANGED <<store, files, history>>
<1>1. Goto(d, "begun") /\ pc[d] \in {"none", "dead"} /\ UNCHANGED <<store, files, history>>
  BY DEF Begin
<1>2. "begun" \in Alive \cup {"dead"}
  BY DEF Alive, Starting
<1>3. PathInv'
  BY <1>1, GotoStep DEF ProcessInv, files, history
<1> QED
  BY <1>1, <1>2, <1>3, Typed DEF ProcessInv

\* What connect does to itself.
LEMMA ConnectTypes ==
    ASSUME ProcessInv, NEW c \in Clients,
           Dial(c) \/ ClientStep(c) \/ NextCommand(c) \/ DaemonStop(c)
    PROVE  /\ client' \in [Clients -> {"idle", "spawn", "retry", "connected", "failed", "stopped"}]
           /\ tries' \in [Clients -> 0 .. Attempts]
           /\ TriesLeft'
<1>1. /\ client \in [Clients -> {"idle", "spawn", "retry", "connected", "failed", "stopped"}]
      /\ tries \in [Clients -> 0 .. Attempts] /\ TriesLeft
  BY DEF ProcessInv, ProcessTypeOK
<1>2. CASE Dial(c) \/ SpawnFails(c) \/ DaemonStop(c)
  <2>1. PICK where \in {"connected", "spawn", "failed", "stopped"} :
          client' = [client EXCEPT ![c] = where] /\ tries' = tries
    BY <1>2 DEF Dial, SpawnFails, DaemonStop, Step
  <2> QED
    BY <1>1, <2>1 DEF TriesLeft
<1>3. CASE SpawnDaemon(c)
  BY <1>1, <1>3, ProcessAssumption DEF SpawnDaemon, Step, TriesLeft
<1>4. CASE Retry(c)
  <2>1. /\ client[c] = "retry" /\ tries' = [tries EXCEPT ![c] = @ - 1]
        /\ \E where \in {"connected", "failed", "retry"} :
              /\ client' = [client EXCEPT ![c] = where]
              /\ where = "retry" => tries[c] # 1
    BY <1>4 DEF Retry, Step
  <2>2. tries[c] \in 1 .. Attempts
    BY <1>1, <2>1, ProcessAssumption DEF TriesLeft
  <2>3. tries' \in [Clients -> 0 .. Attempts]
    BY <1>1, <2>1, <2>2, ProcessAssumption
  <2>4. TriesLeft'
    BY <1>1, <2>1, <2>2, ProcessAssumption DEF TriesLeft
  <2> QED
    BY <1>1, <2>1, <2>3, <2>4
<1>5. CASE NextCommand(c)
  BY <1>1, <1>5, ProcessAssumption DEF NextCommand, Step, TriesLeft
<1> QED
  BY <1>2, <1>3, <1>4, <1>5 DEF ClientStep

LEMMA CommandStep ==
    ASSUME ProcessInv, NEW c \in Clients,
           Dial(c) \/ ClientStep(c) \/ NextCommand(c) \/ DaemonStop(c)
    PROVE  ProcessInv'
<1>1. /\ PathInv' /\ pc' \in [Daemons -> Alive \cup {"none", "dead"}]
      /\ UNCHANGED <<store, files, history>>
  <2>1. CASE SpawnDaemon(c)
    BY <2>1, BeginStep DEF SpawnDaemon
  <2>2. CASE Dial(c) \/ SpawnFails(c) \/ Retry(c) \/ NextCommand(c) \/ DaemonStop(c)
    <3>1. UNCHANGED <<pc, store, files, history>>
      BY <2>2 DEF Dial, SpawnFails, Retry, NextCommand, DaemonStop
    <3> QED
      BY <3>1, StayStep DEF ProcessInv, ProcessTypeOK, files, history
  <2> QED
    BY <2>1, <2>2 DEF ClientStep
<1> QED
  BY <1>1, ConnectTypes DEF ProcessInv, ProcessTypeOK, files, history

LEMMA OthersStep ==
    ASSUME ProcessInv, DaemonMode \/ Cleanup
    PROVE  ProcessInv'
<1>1. CASE DaemonMode
  <2>1. /\ PathInv' /\ pc' \in [Daemons -> Alive \cup {"none", "dead"}]
        /\ UNCHANGED <<store, files, history, commands>>
    BY <1>1, BeginStep DEF DaemonMode
  <2> QED
    BY <2>1 DEF ProcessInv, ProcessTypeOK, TriesLeft, files, history, commands
<1>2. CASE Cleanup
  <2>1. /\ socket' = None /\ astray' = Serving
        /\ UNCHANGED <<pc, store, pidFile, commands, calm>>
    BY <1>2 DEF Cleanup, Disturb
  <2>2. Serving' = Serving
    BY <2>1 DEF Serving
  <2>3. PathInv'
    BY <2>1, <2>2, DisturbStep
  <2>4. ProcessTypeOK'
    BY <2>1 DEF ProcessInv, ProcessTypeOK, Serving, commands
  <2> QED
    BY <2>1, <2>3, <2>4 DEF ProcessInv, TriesLeft, commands
<1> QED
  BY <1>1, <1>2

LEMMA ProcessesStep == ProcessInv /\ [Next]_vars => ProcessInv'
<1> SUFFICES ASSUME ProcessInv, [Next]_vars PROVE ProcessInv'
  OBVIOUS
<1>1. CASE Next
  BY <1>1, DaemonsStep, CommandStep, OthersStep DEF Next
<1>2. CASE UNCHANGED vars
  BY <1>2 DEF ProcessInv, ProcessTypeOK, TriesLeft, PathInv, PathKept, LastServed, Reachable,
              Serving, vars, files, commands, history
<1> QED
  BY <1>1, <1>2

LEMMA ProcessesInit == Init => ProcessInv
<1> SUFFICES ASSUME Init PROVE ProcessInv
  OBVIOUS
<1>1. pc \in [Daemons -> {"none", "dead"}]
  BY DEF Init
<1>2. Serving = {}
  BY <1>1 DEF Serving
<1>3. ProcessTypeOK /\ TriesLeft
  BY <1>1, ProcessAssumption DEF Init, ProcessTypeOK, TriesLeft
<1>4. PathInv
  BY <1>2 DEF PathInv, PathKept, LastServed
<1> QED
  BY <1>3, <1>4 DEF ProcessInv

(* The inductive invariant of the processes around one path. *)
THEOREM ProcessInvariance == Spec => []ProcessInv
<1> QED
  BY ProcessesInit, ProcessesStep, PTL DEF Spec

(* However many daemons start, stop, and take the path from each other, one
   that serves undisturbed is a sign that one can be reached or is about to
   listen (server.rs:67-82). *)
THEOREM PathAlwaysKept == Spec => []PathKept
<1>1. ProcessInv => PathKept
  BY DEF ProcessInv, PathInv
<1> QED
  BY <1>1, ProcessInvariance, PTL

-----------------------------------------------------------------------------
(* What is left of a call *)

StartNow == <<"start">>
ConfirmNow == <<"confirm">>
StopNow == <<"stop">>
StoppedNow == <<"stopped">>
CheckCall == <<"sync", "check">>
CheckNow == <<"check">>
RestartStop == <<"stop", "count", "sync", "start">>
RestartStopped == <<"stopped", "count", "sync", "start">>
RestartCount == <<"count", "sync", "start">>

CountAhead == {RestartCall, RestartStop, RestartStopped, RestartCount, RecoverCall}
StoppedNext == {StoppedNow, RestartStopped}
StopAhead == {StopCall, StopNow, RestartCall, RestartStop} \cup StoppedNext
Plans == {<<>>, StartCall, StartNow, ConfirmNow, StopCall, StopNow, StoppedNow, CheckCall, CheckNow}
            \cup CountAhead

\* The first step of each plan, and the plan that remains after it.
LEMMA PlanTable ==
    /\ StartCall # <<>> /\ Head(StartCall) = "sync" /\ Tail(StartCall) = StartNow
    /\ StartNow # <<>> /\ Head(StartNow) = "start" /\ Tail(StartNow) = <<>>
    /\ ConfirmNow # <<>> /\ Head(ConfirmNow) = "confirm" /\ Tail(ConfirmNow) = <<>>
    /\ StopCall # <<>> /\ Head(StopCall) = "sync" /\ Tail(StopCall) = StopNow
    /\ StopNow # <<>> /\ Head(StopNow) = "stop" /\ Tail(StopNow) = <<>>
    /\ StoppedNow # <<>> /\ Head(StoppedNow) = "stopped" /\ Tail(StoppedNow) = <<>>
    /\ CheckCall # <<>> /\ Head(CheckCall) = "sync" /\ Tail(CheckCall) = CheckNow
    /\ CheckNow # <<>> /\ Head(CheckNow) = "check" /\ Tail(CheckNow) = <<>>
    /\ RestartCall # <<>> /\ Head(RestartCall) = "sync" /\ Tail(RestartCall) = RestartStop
    /\ RestartStop # <<>> /\ Head(RestartStop) = "stop" /\ Tail(RestartStop) = RestartCount
    /\ RestartStopped # <<>> /\ Head(RestartStopped) = "stopped"
    /\ Tail(RestartStopped) = RestartCount
    /\ RestartCount # <<>> /\ Head(RestartCount) = "count" /\ Tail(RestartCount) = StartCall
    /\ RecoverCall # <<>> /\ Head(RecoverCall) = "recover" /\ Tail(RecoverCall) = RestartCall
    /\ RestartCall # StartCall /\ RestartCall # StopCall /\ RestartCall # CheckCall
<1>1. /\ StartCall # <<>> /\ Head(StartCall) = "sync" /\ Tail(StartCall) = StartNow
      /\ StartNow # <<>> /\ Head(StartNow) = "start" /\ Tail(StartNow) = <<>>
      /\ ConfirmNow # <<>> /\ Head(ConfirmNow) = "confirm" /\ Tail(ConfirmNow) = <<>>
  BY DEF StartCall, StartNow, ConfirmNow
<1>2. /\ StopCall # <<>> /\ Head(StopCall) = "sync" /\ Tail(StopCall) = StopNow
      /\ StopNow # <<>> /\ Head(StopNow) = "stop" /\ Tail(StopNow) = <<>>
      /\ StoppedNow # <<>> /\ Head(StoppedNow) = "stopped" /\ Tail(StoppedNow) = <<>>
  BY DEF StopCall, StopNow, StoppedNow
<1>3. /\ CheckCall # <<>> /\ Head(CheckCall) = "sync" /\ Tail(CheckCall) = CheckNow
      /\ CheckNow # <<>> /\ Head(CheckNow) = "check" /\ Tail(CheckNow) = <<>>
  BY DEF CheckCall, CheckNow
<1>4. RestartCall # <<>> /\ Head(RestartCall) = "sync" /\ Tail(RestartCall) = RestartStop
  BY DEF RestartCall, RestartStop
<1>5. /\ RestartStop # <<>> /\ Head(RestartStop) = "stop" /\ Tail(RestartStop) = RestartCount
      /\ RestartStopped # <<>> /\ Head(RestartStopped) = "stopped"
      /\ Tail(RestartStopped) = RestartCount
  BY DEF RestartStop, RestartStopped, RestartCount
<1>6. RestartCount # <<>> /\ Head(RestartCount) = "count" /\ Tail(RestartCount) = StartCall
  BY DEF RestartCount, StartCall
<1>7. RecoverCall # <<>> /\ Head(RecoverCall) = "recover" /\ Tail(RecoverCall) = RestartCall
  BY DEF RecoverCall, RestartCall
<1>8. RestartCall # StartCall /\ RestartCall # StopCall /\ RestartCall # CheckCall
  <2>1. Len(RestartCall) = 5
    BY DEF RestartCall
  <2>2. Len(StartCall) = 2 /\ Len(StopCall) = 2 /\ Len(CheckCall) = 2
    BY DEF StartCall, StopCall, CheckCall
  <2> QED
    BY <2>1, <2>2
<1> QED
  BY <1>1, <1>2, <1>3, <1>4, <1>5, <1>6, <1>7, <1>8

\* A start goes on to its confirmation, a stop to its end.
LEMMA PlanTurns ==
    /\ [StartNow EXCEPT ![1] = "confirm"] = ConfirmNow
    /\ [StopNow EXCEPT ![1] = "stopped"] = StoppedNow
    /\ [RestartStop EXCEPT ![1] = "stopped"] = RestartStopped
    /\ <<"sync", "check">> = CheckCall
BY DEF StartNow, ConfirmNow, StopNow, StoppedNow, RestartStop, RestartStopped, CheckCall

LEMMA StopTurns ==
    ASSUME todo \in {StopNow, RestartStop}, todo' = [todo EXCEPT ![1] = "stopped"]
    PROVE  /\ todo' \in StoppedNext
           /\ todo = StopNow <=> todo' = StoppedNow
           /\ todo = RestartStop <=> todo' = RestartStopped
<1>1. StopNow # RestartStop /\ StoppedNow # RestartStopped
  <2>1. Tail(StopNow) # Tail(RestartStop)
    BY PlanTable
  <2>2. Tail(StoppedNow) # Tail(RestartStopped)
    BY PlanTable
  <2> QED
    BY <2>1, <2>2
<1>2. CASE todo = StopNow
  <2>1. todo' = StoppedNow
    BY <1>2, PlanTurns
  <2> QED
    BY <1>1, <1>2, <2>1 DEF StoppedNext
<1>3. CASE todo = RestartStop
  <2>1. todo' = RestartStopped
    BY <1>3, PlanTurns
  <2> QED
    BY <1>1, <1>3, <2>1 DEF StoppedNext
<1> QED
  BY <1>2, <1>3

\* The plans by their first step.
LEMMA PlanSteps ==
    ASSUME todo \in Plans
    PROVE  /\ Doing("start") => todo = StartNow
           /\ Doing("confirm") <=> todo = ConfirmNow
           /\ Doing("stop") => todo \in {StopNow, RestartStop}
           /\ Doing("stopped") => todo \in StoppedNext
           /\ Doing("check") => todo = CheckNow
           /\ Doing("count") => todo = RestartCount
           /\ Doing("recover") => todo = RecoverCall
           /\ Doing("sync") => todo \in {StartCall, StopCall, CheckCall, RestartCall}
           /\ todo = <<>> \/ Head(todo) \in
                {"sync", "start", "confirm", "stop", "stopped", "count", "recover", "check"}
BY PlanTable DEF Plans, CountAhead, StoppedNext, Doing

-----------------------------------------------------------------------------
(* The state machine *)

\* An event moves a state to one state at most.
LEMMA MovesFunctional ==
    ASSUME NEW s, NEW e, NEW t, NEW u, <<s, e, t>> \in Moves, <<s, e, u>> \in Moves
    PROVE  t = u
BY DEF Moves

LEMMA MoveTo ==
    ASSUME NEW s, NEW e, NEW t \in States, <<s, e, t>> \in Moves
    PROVE  After(s, e) = t
<1>1. \A u \in States : <<s, e, u>> \in Moves => u = t
  BY MovesFunctional
<1> QED
  BY <1>1 DEF After

LEMMA NoMove ==
    ASSUME NEW s, NEW e, \A t \in States : <<s, e, t>> \notin Moves
    PROVE  After(s, e) = s
BY DEF After

\* The moves the calls make.
LEMMA MoveTable ==
    /\ After("Stopped", "StartRequested") = "Starting"
    /\ After("Starting", "StartupFailed") = "Stopped"
    /\ After("Starting", "StartupConfirmed") = "Running"
    /\ \A s \in CanStop : After(s, "StopRequested") = "ShuttingDown"
    /\ \A s \in {"Starting", "Running", "ShuttingDown"} : After(s, "ProcessExited") = "Stopped"
    /\ \A s \in {"Stopped", "Unhealthy"} : After(s, "ProcessExited") = s
    /\ After("Unhealthy", "HealthCheckPassed") = "Running"
    /\ \A s \in States \ {"Unhealthy"} : After(s, "HealthCheckPassed") = s
    /\ After("Running", "HealthCheckFailed") = "Unhealthy"
    /\ After("Unhealthy", "RecoveryInitiated") = "Starting"
    /\ \A s \in States \ {"Unhealthy"} : After(s, "RecoveryInitiated") = s
<1>1. \A e : \A s, t \in States : <<s, e, t>> \in Moves => After(s, e) = t
  BY MoveTo
<1>2. \A e : \A s \in States : (\A t \in States : <<s, e, t>> \notin Moves) => After(s, e) = s
  BY NoMove
<1>3. /\ <<"Stopped", "StartRequested", "Starting">> \in Moves
      /\ <<"Starting", "StartupFailed", "Stopped">> \in Moves
      /\ <<"Starting", "StartupConfirmed", "Running">> \in Moves
      /\ \A s \in CanStop : <<s, "StopRequested", "ShuttingDown">> \in Moves
      /\ \A s \in {"Starting", "Running", "ShuttingDown"} :
            <<s, "ProcessExited", "Stopped">> \in Moves
      /\ <<"Unhealthy", "HealthCheckPassed", "Running">> \in Moves
      /\ <<"Running", "HealthCheckFailed", "Unhealthy">> \in Moves
      /\ <<"Unhealthy", "RecoveryInitiated", "Starting">> \in Moves
  BY DEF Moves, CanStop
<1>4. /\ \A s \in {"Stopped", "Unhealthy"}, t \in States : <<s, "ProcessExited", t>> \notin Moves
      /\ \A s \in States \ {"Unhealthy"}, t \in States :
            <<s, "HealthCheckPassed", t>> \notin Moves /\ <<s, "RecoveryInitiated", t>> \notin Moves
  BY DEF Moves, States
<1>5. CanStop \subseteq States /\ "Stopped" \in States /\ "Starting" \in States
      /\ "Running" \in States /\ "Unhealthy" \in States /\ "ShuttingDown" \in States
  BY DEF CanStop, States
<1>6. /\ After("Stopped", "StartRequested") = "Starting"
      /\ After("Starting", "StartupFailed") = "Stopped"
      /\ After("Starting", "StartupConfirmed") = "Running"
      /\ After("Unhealthy", "HealthCheckPassed") = "Running"
      /\ After("Running", "HealthCheckFailed") = "Unhealthy"
      /\ After("Unhealthy", "RecoveryInitiated") = "Starting"
  BY <1>1, <1>3, <1>5
<1>7. /\ \A s \in CanStop : After(s, "StopRequested") = "ShuttingDown"
      /\ \A s \in {"Starting", "Running", "ShuttingDown"} : After(s, "ProcessExited") = "Stopped"
  <2>1. ASSUME NEW s \in CanStop PROVE After(s, "StopRequested") = "ShuttingDown"
    <3>1. s \in States /\ <<s, "StopRequested", "ShuttingDown">> \in Moves
      BY <1>3, <1>5
    <3> QED
      BY <1>1, <1>5, <3>1
  <2>2. ASSUME NEW s \in {"Starting", "Running", "ShuttingDown"}
        PROVE  After(s, "ProcessExited") = "Stopped"
    <3>1. s \in States /\ <<s, "ProcessExited", "Stopped">> \in Moves
      BY <1>3, <1>5
    <3> QED
      BY <1>1, <1>5, <3>1
  <2> QED
    BY <2>1, <2>2
<1>8. \A s \in {"Stopped", "Unhealthy"} : After(s, "ProcessExited") = s
  BY <1>2, <1>4, <1>5
<1>9. \A s \in States \ {"Unhealthy"} :
        After(s, "HealthCheckPassed") = s /\ After(s, "RecoveryInitiated") = s
  BY <1>2, <1>4
<1> QED
  BY <1>6, <1>7, <1>8, <1>9

LEMMA TakesTable ==
    ASSUME state \in States
    PROVE  /\ Takes("ProcessExited") <=> state \in {"Starting", "Running", "ShuttingDown"}
           /\ Takes("RecoveryInitiated") <=> state = "Unhealthy"
BY DEF Takes, Moves, States

-----------------------------------------------------------------------------
(* The manager *)

ManagerOK ==
    /\ state \in States
    /\ own \subseteq Daemons /\ leaked \subseteq own
    /\ tracked \in own \cup {None} /\ young \in own \cup {None}
    /\ reaps \in BOOLEAN
    /\ todo \in Plans
    /\ \A d \in own : pc[d] # "none"

\* What is left of a restart may count once, of a recovery twice.
Counted ==
    /\ restarts \in Nat
    /\ restarts <= RestartBound + 1
    /\ todo \in CountAhead => restarts <= RestartBound
    /\ todo = RecoverCall => restarts < RestartBound

\* The child start waits for, and the process stop has ended.
Expects ==
    /\ IF todo = ConfirmNow
       THEN state = "Starting" /\ tracked = None /\ young # None
       ELSE young = None
    /\ todo \in StoppedNext =>
          /\ state \in CanStop \cup {"ShuttingDown"}
          /\ tracked # None => pc[tracked] \notin Alive

\* The states a manager only passes through.
Passes ==
    calm =>
        /\ state = "Starting" => todo \in StopAhead \cup {ConfirmNow}
        /\ state = "ShuttingDown" => todo \in StoppedNext

(* The inductive invariant of Lifecycle. *)
ManagerInv == ManagerOK /\ Counted /\ Expects /\ TrackedInStep /\ NoneLost /\ Passes
LifecycleInv == ProcessInv /\ ManagerInv

\* A step that leaves the processes alone.
LEMMA QuietStep ==
    ASSUME ProcessInv, UNCHANGED vars
    PROVE  ProcessInv'
BY ProcessesStep

\* start runs with no process to look after.
LEMMA StartsStopped ==
    ASSUME ManagerInv, StartsNow
    PROVE  /\ state = "Stopped" /\ tracked = None /\ young = None
           /\ todo = StartNow
BY PlanSteps, PlanTable
   DEF ManagerInv, ManagerOK, Expects, TrackedInStep, StartsNow, AlreadyStarted, CanStart, IsAlive

\* What is not running has no live process.
LEMMA NotRunning ==
    ASSUME ~IsRunning, tracked # None
    PROVE  pc[tracked] \notin Alive
BY DEF IsRunning, IsProcessAlive

-----------------------------------------------------------------------------
(* Calls that leave the processes alone *)

LEMMA CallStep ==
    ASSUME LifecycleInv, Call
    PROVE  LifecycleInv'
<1>1. /\ todo = <<>>
      /\ UNCHANGED <<vars, state, tracked, restarts, young, own, leaked, reaps>>
      /\ \/ todo' \in {StartCall, StopCall, CheckCall}
         \/ todo' = RestartCall /\ restarts < RestartBound
         \/ todo' = RecoverCall /\ restarts < MaxRestarts
  BY PlanTurns DEF Call
<1>2. ProcessInv' /\ UNCHANGED <<pc, calm>>
  BY <1>1, QuietStep DEF LifecycleInv, vars, history
<1>3. ManagerOK' /\ TrackedInStep' /\ NoneLost'
  BY <1>1, <1>2 DEF LifecycleInv, ManagerInv, ManagerOK, TrackedInStep, NoneLost, Plans, CountAhead
<1>4. Counted'
  BY <1>1, PlanTable, LifecycleAssumption DEF LifecycleInv, ManagerInv, Counted, CountAhead
<1>5. Expects' /\ Passes'
  BY <1>1, <1>2, PlanTable
  DEF LifecycleInv, ManagerInv, Expects, Passes, StoppedNext, StopAhead
<1> QED
  BY <1>2, <1>3, <1>4, <1>5 DEF LifecycleInv, ManagerInv

\* A call that goes on, or fails, and changes nothing else.
LEMMA NothingStep ==
    ASSUME LifecycleInv,
           StartNothing \/ StartRefused \/ StopNothing \/ StopCleanupFails
    PROVE  LifecycleInv'
<1>1. /\ UNCHANGED <<vars, state, tracked, restarts, young, own, leaked, reaps>>
      /\ \/ Doing("start") /\ state \in IsAlive /\ todo' = Tail(todo)
         \/ Doing("start") /\ todo' = <<>> /\ state \notin CanStart
         \/ Doing("stop") /\ todo' = Tail(todo) /\ state \notin CanStop
         \/ Doing("stopped") /\ ~calm /\ todo' = <<>>
  BY DEF StartNothing, StartRefused, StopNothing, StopCleanupFails, AlreadyStarted, Done, Fail
<1>2. ProcessInv' /\ UNCHANGED <<pc, calm>>
  BY <1>1, QuietStep DEF LifecycleInv, vars, history
<1>3. \/ todo = StartNow /\ todo' = <<>>
      \/ todo = StopNow /\ todo' = <<>> /\ state \notin CanStop
      \/ todo = RestartStop /\ todo' = RestartCount /\ state \notin CanStop
      \/ todo \in StoppedNext /\ ~calm /\ todo' = <<>>
  BY <1>1, PlanSteps, PlanTable DEF LifecycleInv, ManagerInv, ManagerOK
<1>4. ManagerOK' /\ TrackedInStep' /\ NoneLost'
  BY <1>1, <1>2, <1>3
  DEF LifecycleInv, ManagerInv, ManagerOK, TrackedInStep, NoneLost, Plans, CountAhead
<1>5. Counted'
  BY <1>1, <1>3, PlanTable DEF LifecycleInv, ManagerInv, Counted, CountAhead
<1>6. Expects' /\ Passes'
  BY <1>1, <1>2, <1>3, PlanTable, SMTT(30)
  DEF LifecycleInv, ManagerInv, Expects, Passes, StoppedNext, StopAhead, CanStop
<1> QED
  BY <1>2, <1>4, <1>5, <1>6 DEF LifecycleInv, ManagerInv

LEMMA CountStep ==
    ASSUME LifecycleInv, Count
    PROVE  LifecycleInv'
<1>1. /\ UNCHANGED <<vars, state, tracked, young, own, leaked, reaps>>
      /\ restarts' = restarts + 1 /\ todo = RestartCount /\ todo' = StartCall
  BY PlanSteps, PlanTable DEF Count, Done, LifecycleInv, ManagerInv, ManagerOK
<1>2. ProcessInv' /\ UNCHANGED <<pc, calm>>
  BY <1>1, QuietStep DEF LifecycleInv, vars, history
<1>3. ManagerOK' /\ TrackedInStep' /\ NoneLost'
  BY <1>1, <1>2 DEF LifecycleInv, ManagerInv, ManagerOK, TrackedInStep, NoneLost, Plans
<1>4. Counted'
  BY <1>1, PlanTable, LifecycleAssumption DEF LifecycleInv, ManagerInv, Counted, CountAhead
<1>5. Expects' /\ Passes'
  BY <1>1, <1>2, PlanTable
  DEF LifecycleInv, ManagerInv, Expects, Passes, StoppedNext, StopAhead
<1> QED
  BY <1>2, <1>3, <1>4, <1>5 DEF LifecycleInv, ManagerInv

LEMMA ResetStep ==
    ASSUME LifecycleInv, ResetRestartCount
    PROVE  LifecycleInv'
<1>1. UNCHANGED <<vars, state, tracked, todo, young, own, leaked, reaps>>
      /\ restarts' = 0 /\ todo = <<>>
  BY DEF ResetRestartCount
<1>2. ProcessInv' /\ UNCHANGED <<pc, calm>>
  BY <1>1, QuietStep DEF LifecycleInv, vars, history
<1>3. Counted'
  BY <1>1, PlanTable, LifecycleAssumption DEF LifecycleInv, ManagerInv, Counted
<1> QED
  BY <1>1, <1>2, <1>3
  DEF LifecycleInv, ManagerInv, ManagerOK, TrackedInStep, NoneLost, Expects, Passes

\* What moves the state and nothing else.
LEMMA StateStep ==
    ASSUME LifecycleInv, RecoveryInitiated \/ HealthCheck \/ StartCleanupFails
    PROVE  LifecycleInv'
<1>1. /\ UNCHANGED <<vars, tracked, young, own, leaked, reaps>>
      /\ \/ /\ todo = RecoverCall /\ todo' = RestartCall /\ restarts' \in {restarts, restarts + 1}
            /\ state' = After(state, "RecoveryInitiated")
         \/ /\ todo = CheckNow /\ todo' = <<>> /\ restarts' = restarts
            /\ \/ state' = state
               \/ state' = After(state, "HealthCheckPassed")
               \/ state = "Running" /\ state' = After(state, "HealthCheckFailed")
         \/ /\ todo = StartNow /\ todo' = <<>> /\ restarts' = restarts /\ ~calm
            /\ state = "Stopped" /\ state' = After(state, "StartRequested")
  <2>1. CASE RecoveryInitiated
    BY <2>1, PlanSteps, PlanTable
    DEF RecoveryInitiated, Apply, Done, LifecycleInv, ManagerInv, ManagerOK
  <2>2. CASE HealthCheck
    BY <2>2, PlanSteps, PlanTable DEF HealthCheck, Apply, Done, LifecycleInv, ManagerInv, ManagerOK
  <2>3. CASE StartCleanupFails
    BY <2>3, StartsStopped DEF StartCleanupFails, Apply, Fail, LifecycleInv
  <2> QED
    BY <2>1, <2>2, <2>3
<1>2. ProcessInv' /\ UNCHANGED <<pc, calm>>
  BY <1>1, QuietStep DEF LifecycleInv, vars, history
<1>3. \/ state' = state
      \/ state = "Unhealthy" /\ state' = "Starting" /\ todo = RecoverCall
      \/ state = "Unhealthy" /\ state' = "Running"
      \/ state = "Running" /\ state' = "Unhealthy"
      \/ state = "Stopped" /\ state' = "Starting" /\ ~calm
  BY <1>1, MoveTable DEF LifecycleInv, ManagerInv, ManagerOK, States
<1>4. ManagerOK' /\ TrackedInStep' /\ NoneLost'
  BY <1>1, <1>2, <1>3
  DEF LifecycleInv, ManagerInv, ManagerOK, TrackedInStep, NoneLost, Plans, CountAhead, States
<1>5. Counted'
  BY <1>1, PlanTable, LifecycleAssumption DEF LifecycleInv, ManagerInv, Counted, CountAhead
<1>6. Expects' /\ Passes'
  BY <1>1, <1>2, <1>3, PlanTable
  DEF LifecycleInv, ManagerInv, Expects, Passes, StoppedNext, StopAhead
<1> QED
  BY <1>2, <1>4, <1>5, <1>6 DEF LifecycleInv, ManagerInv

\* A tracked process that is gone is forgotten, unless the manager is Unhealthy.
LEMMA SyncStep ==
    ASSUME LifecycleInv, Sync
    PROVE  LifecycleInv'
<1>1. /\ UNCHANGED <<vars, restarts, young, own, leaked, reaps>>
      /\ \/ state' = state /\ tracked' = tracked
         \/ /\ tracked # None /\ pc[tracked] \notin Alive
            /\ state' = "Stopped" /\ tracked' = None
  BY NotRunning, MoveTable, TakesTable
  DEF Sync, Forget, Apply, LifecycleInv, ManagerInv, ManagerOK, TrackedInStep, States
<1>2. /\ todo \in {StartCall, StopCall, CheckCall, RestartCall}
      /\ todo' \in {StartNow, StopNow, CheckNow, RestartStop}
      /\ todo = StopCall => todo' = StopNow
      /\ todo = RestartCall <=> todo' = RestartStop
  BY PlanSteps, PlanTable DEF Sync, Done, LifecycleInv, ManagerInv, ManagerOK
<1>3. ProcessInv' /\ UNCHANGED <<pc, calm>>
  BY <1>1, QuietStep DEF LifecycleInv, vars, history
<1>4. ManagerOK' /\ TrackedInStep' /\ NoneLost'
  BY <1>1, <1>2, <1>3, ProcessAssumption
  DEF LifecycleInv, ManagerInv, ManagerOK, TrackedInStep, NoneLost, Plans, CountAhead, States
<1>5. Counted'
  BY <1>1, <1>2, PlanTable DEF LifecycleInv, ManagerInv, Counted, CountAhead
<1>6. Expects'
  BY <1>1, <1>2, PlanTable DEF LifecycleInv, ManagerInv, Expects, StoppedNext
<1>7. Passes'
  BY <1>1, <1>2, <1>3, PlanTable DEF LifecycleInv, ManagerInv, Passes, StoppedNext, StopAhead
<1> QED
  BY <1>3, <1>4, <1>5, <1>6, <1>7 DEF LifecycleInv, ManagerInv

\* The child has started as far as the manager looks.
LEMMA ConfirmStep ==
    ASSUME LifecycleInv, Confirm
    PROVE  LifecycleInv'
<1>1. /\ UNCHANGED <<vars, restarts, own, leaked, reaps>>
      /\ todo = ConfirmNow /\ todo' = <<>>
      /\ tracked' = young /\ young' = None
      /\ state = "Starting" /\ tracked = None /\ young # None
  BY PlanSteps, PlanTable DEF Confirm, Done, LifecycleInv, ManagerInv, ManagerOK, Expects
<1>2. state' = "Running"
  BY <1>1, MoveTable DEF Confirm, Apply
<1>3. ProcessInv' /\ UNCHANGED <<pc, calm>>
  BY <1>1, QuietStep DEF LifecycleInv, vars, history
<1>4. ManagerOK' /\ TrackedInStep' /\ NoneLost'
  BY <1>1, <1>2, <1>3
  DEF LifecycleInv, ManagerInv, ManagerOK, TrackedInStep, NoneLost, Plans, States
<1>5. Counted'
  BY <1>1, PlanTable DEF LifecycleInv, ManagerInv, Counted, CountAhead
<1>6. Expects' /\ Passes'
  BY <1>1, <1>2, PlanTable DEF Expects, Passes, StoppedNext
<1> QED
  BY <1>3, <1>4, <1>5, <1>6 DEF LifecycleInv, ManagerInv

\* stop finds no process, and has none to wait for.
LEMMA StopNoProcessStep ==
    ASSUME LifecycleInv, StopNoProcess
    PROVE  LifecycleInv'
<1>1. /\ UNCHANGED <<vars, state, tracked, restarts, young, own, leaked, reaps>>
      /\ state \in CanStop
      /\ tracked # None => pc[tracked] \notin Alive
      /\ todo' = [todo EXCEPT ![1] = "stopped"] /\ todo \in {StopNow, RestartStop}
  BY PlanSteps, NotRunning DEF StopNoProcess, LifecycleInv, ManagerInv, ManagerOK
<1>2. /\ todo' \in StoppedNext
      /\ todo = StopNow <=> todo' = StoppedNow
      /\ todo = RestartStop <=> todo' = RestartStopped
  BY <1>1, StopTurns
<1>3. ProcessInv' /\ UNCHANGED <<pc, calm>>
  BY <1>1, QuietStep DEF LifecycleInv, vars, history
<1>4. ManagerOK' /\ TrackedInStep' /\ NoneLost'
  BY <1>1, <1>2, <1>3
  DEF LifecycleInv, ManagerInv, ManagerOK, TrackedInStep, NoneLost, Plans, StoppedNext, CountAhead
<1>5. Counted'
  BY <1>1, <1>2, PlanTable DEF LifecycleInv, ManagerInv, Counted, CountAhead, StoppedNext
<1>6. Expects' /\ Passes'
  BY <1>1, <1>2, <1>3, PlanTable
  DEF LifecycleInv, ManagerInv, Expects, Passes, StoppedNext, StopAhead
<1> QED
  BY <1>3, <1>4, <1>5, <1>6 DEF LifecycleInv, ManagerInv

-----------------------------------------------------------------------------
(* Calls that change processes and files *)

\* The manager removes the file at the path, and may spawn a child.
LEMMA RemoveStep ==
    ASSUME ProcessInv, RemoveSocket, UNCHANGED <<store, commands>>,
           pidFile' \in Daemons \cup {None},
           \/ pc' = pc
           \/ \E d \in Daemons : pc[d] \in {"none", "dead"} /\ Goto(d, "begun")
    PROVE  ProcessInv' /\ calm' = calm
<1>1. socket' = None /\ calm' = calm
      /\ \/ socket # None /\ astray' = Serving
         \/ socket = None /\ astray' = astray
  BY DEF RemoveSocket, Disturb
<1>2. pc' \in [Daemons -> Alive \cup {"none", "dead"}] /\ Serving' = Serving
  <2>1. CASE pc' = pc
    BY <2>1 DEF ProcessInv, ProcessTypeOK, Serving
  <2>2. ASSUME NEW d \in Daemons, pc[d] \in {"none", "dead"}, Goto(d, "begun")
        PROVE  pc' \in [Daemons -> Alive \cup {"none", "dead"}] /\ Serving' = Serving
    BY <2>2 DEF ProcessInv, ProcessTypeOK, Serving, Goto, Alive, Starting
  <2> QED
    BY <2>1, <2>2
<1>3. PathInv'
  <2>1. CASE socket # None
    BY <1>1, <1>2, <2>1, DisturbStep
  <2>2. CASE socket = None /\ pc' = pc
    BY <1>1, <2>2, StayStep DEF ProcessInv
  <2>3. ASSUME socket = None, NEW d \in Daemons, pc[d] \in {"none", "dead"}, Goto(d, "begun")
        PROVE  PathInv'
    BY <1>1, <2>3, GotoStep DEF ProcessInv
  <2> QED
    BY <2>1, <2>2, <2>3
<1>4. ProcessTypeOK' /\ TriesLeft'
  BY <1>1, <1>2 DEF ProcessInv, ProcessTypeOK, TriesLeft, commands, Serving
<1> QED
  BY <1>1, <1>3, <1>4 DEF ProcessInv

\* The socket's file and the pid file.
LEMMA CleanedUp ==
    ASSUME ProcessInv, CleanupStaleFiles
    PROVE  RemoveSocket /\ pidFile' \in Daemons \cup {None}
BY DEF CleanupStaleFiles, ProcessInv, ProcessTypeOK

\* start returns an error: the manager is Stopped as before.
LEMMA StartFailsStep ==
    ASSUME LifecycleInv, StartFails \/ StartLeaks
    PROVE  LifecycleInv'
<1>1. /\ StartsNow /\ CleanupStaleFiles /\ FailedStart /\ todo' = <<>>
      /\ UNCHANGED <<store, commands, restarts, young, reaps>>
      /\ \/ UNCHANGED <<pc, own, leaked>>
         \/ \E d \in Daemons : /\ Spawnable(d) /\ Goto(d, "begun")
                               /\ own' = own \cup {d} /\ leaked' = leaked \cup {d}
  BY DEF StartFails, StartLeaks, Fail, Quiet
<1>2. state = "Stopped" /\ tracked = None /\ young = None /\ todo = StartNow
  BY <1>1, StartsStopped DEF LifecycleInv
<1>3. state' = "Stopped" /\ tracked' = None
  BY <1>1, <1>2, MoveTable DEF FailedStart
<1>4. ProcessInv' /\ calm' = calm
  BY <1>1, CleanedUp, RemoveStep DEF LifecycleInv, Spawnable
<1>5. ManagerOK' /\ NoneLost'
  <2>1. CASE UNCHANGED <<pc, own, leaked>>
    BY <1>1, <1>2, <1>3, <2>1
    DEF LifecycleInv, ManagerInv, ManagerOK, NoneLost, Plans
  <2>2. ASSUME NEW d \in Daemons, Goto(d, "begun"),
               own' = own \cup {d}, leaked' = leaked \cup {d}
        PROVE  ManagerOK' /\ NoneLost'
    BY <1>1, <1>2, <1>3, <2>2
    DEF LifecycleInv, ManagerInv, ManagerOK, NoneLost, Plans, Goto, ProcessInv, ProcessTypeOK
  <2> QED
    BY <1>1, <2>1, <2>2
<1>6. Counted'
  BY <1>1, <1>2, PlanTable DEF LifecycleInv, ManagerInv, Counted, CountAhead
<1>7. Expects' /\ TrackedInStep' /\ Passes'
  BY <1>1, <1>2, <1>3, PlanTable DEF Expects, TrackedInStep, Passes, StoppedNext
<1> QED
  BY <1>4, <1>5, <1>6, <1>7 DEF LifecycleInv, ManagerInv

LEMMA StartStep ==
    ASSUME LifecycleInv, Start
    PROVE  LifecycleInv'
<1>1. PICK d \in Daemons :
        /\ Spawnable(d) /\ Goto(d, "begun") /\ pidFile' = d
        /\ young' = d /\ own' = own \cup {d}
  BY DEF Start
<1>2. /\ state = "Stopped" /\ tracked = None /\ young = None /\ todo = StartNow
      /\ UNCHANGED <<store, commands, tracked, restarts, leaked, reaps>>
  BY StartsStopped DEF Start, LifecycleInv
<1>3. state' = "Starting"
  BY <1>2, MoveTable DEF Start, Apply
<1>4. todo' = ConfirmNow
  <2>1. todo' = [todo EXCEPT ![1] = "confirm"]
    BY DEF Start
  <2> QED
    BY <1>2, <2>1, PlanTurns
<1>5. ProcessInv' /\ calm' = calm
  <2>1. RemoveSocket /\ UNCHANGED <<store, commands>> /\ pidFile' \in Daemons \cup {None}
    BY <1>1 DEF Start
  <2>2. \E e \in Daemons : pc[e] \in {"none", "dead"} /\ Goto(e, "begun")
    BY <1>1 DEF Spawnable
  <2>3. ProcessInv
    BY DEF LifecycleInv
  <2> QED
    BY <2>1, <2>2, <2>3, RemoveStep
<1>6. ManagerOK' /\ NoneLost'
  <2>1. pc' = [pc EXCEPT ![d] = "begun"] /\ pc \in [Daemons -> Alive \cup {"none", "dead"}]
    BY <1>1 DEF LifecycleInv, ProcessInv, ProcessTypeOK, Goto
  <2>2. ManagerOK'
    <3>1. state' \in States /\ todo' \in Plans
      BY <1>3, <1>4 DEF States, Plans
    <3>2. \A e \in own' : pc'[e] # "none"
      BY <1>1, <2>1 DEF LifecycleInv, ManagerInv, ManagerOK
    <3>3. /\ own' \subseteq Daemons /\ leaked' \subseteq own' /\ reaps' \in BOOLEAN
          /\ tracked' \in own' \cup {None} /\ young' \in own' \cup {None}
      BY <1>1, <1>2 DEF LifecycleInv, ManagerInv, ManagerOK
    <3> QED
      BY <3>1, <3>2, <3>3 DEF ManagerOK
  <2>3. NoneLost'
    BY <1>1, <1>2, <2>1, ProcessAssumption DEF LifecycleInv, ManagerInv, ManagerOK, NoneLost
  <2> QED
    BY <2>2, <2>3
<1>7. Counted'
  BY <1>2, <1>4, PlanTable DEF LifecycleInv, ManagerInv, Counted, CountAhead
<1>8. d # None
  BY ProcessAssumption
<1>9. Expects' /\ TrackedInStep' /\ Passes'
  BY <1>1, <1>2, <1>3, <1>4, <1>8, PlanTable DEF Expects, TrackedInStep, Passes, StoppedNext
<1> QED
  BY <1>5, <1>6, <1>7, <1>9 DEF LifecycleInv, ManagerInv

LEMMA StopStep ==
    ASSUME LifecycleInv, Stop
    PROVE  LifecycleInv'
<1>1. /\ state \in CanStop /\ todo \in {StopNow, RestartStop}
      /\ todo' = [todo EXCEPT ![1] = "stopped"]
      /\ UNCHANGED <<files, commands, calm, tracked, restarts, young, own, leaked, reaps>>
      /\ tracked # None /\ tracked \in own /\ tracked \in Daemons
  BY PlanSteps DEF Stop, IsRunning, LifecycleInv, ManagerInv, ManagerOK
<1>2. /\ Goto(tracked, "dead") /\ store' = [store EXCEPT ![tracked] = None]
      /\ IF pc[tracked] = "listen" \/ socket = tracked THEN Disturb ELSE UNCHANGED astray
  BY DEF Stop, Goto
<1>3. state' = "ShuttingDown"
  BY <1>1, MoveTable DEF Stop, Apply
<1>4. /\ todo' \in StoppedNext
      /\ todo = StopNow <=> todo' = StoppedNow
      /\ todo = RestartStop <=> todo' = RestartStopped
  BY <1>1, StopTurns
<1>5. ProcessInv'
  <2>1. PathInv'
    BY <1>1, <1>2, DeathStep DEF LifecycleInv, ProcessInv, files
  <2>2. pc' \in [Daemons -> Alive \cup {"none", "dead"}]
    BY <1>1, <1>2, Typed DEF LifecycleInv, ProcessInv
  <2>3. store' \in [Daemons -> {Primary, Temp, None}] /\ astray' \subseteq Daemons
    BY <1>1, <1>2 DEF LifecycleInv, ProcessInv, ProcessTypeOK, Disturb, Serving
  <2> QED
    BY <1>1, <2>1, <2>2, <2>3 DEF LifecycleInv, ProcessInv, ProcessTypeOK, TriesLeft, files, commands
<1>6. pc \in [Daemons -> Alive \cup {"none", "dead"}] /\ pc' = [pc EXCEPT ![tracked] = "dead"]
      /\ "dead" \notin Alive
  BY <1>2 DEF LifecycleInv, ProcessInv, ProcessTypeOK, Goto, Alive, Starting
<1>7. ManagerOK' /\ NoneLost' /\ TrackedInStep'
  BY <1>1, <1>3, <1>4, <1>6
  DEF LifecycleInv, ManagerInv, ManagerOK, NoneLost, TrackedInStep, Plans, States, StoppedNext,
      CountAhead
<1>8. Counted'
  BY <1>1, <1>4, PlanTable DEF LifecycleInv, ManagerInv, Counted, CountAhead, StoppedNext
<1>9. Expects' /\ Passes'
  BY <1>1, <1>3, <1>4, <1>6, PlanTable
  DEF LifecycleInv, ManagerInv, Expects, Passes, StoppedNext, StopAhead
<1> QED
  BY <1>5, <1>7, <1>8, <1>9 DEF LifecycleInv, ManagerInv

\* The end of stop: only an Unhealthy manager keeps its dead process.
LEMMA StoppedStep ==
    ASSUME LifecycleInv, Stopped
    PROVE  LifecycleInv'
<1>1. /\ CleanupStaleFiles /\ todo \in StoppedNext /\ todo' = Tail(todo)
      /\ UNCHANGED <<pc, store, commands, restarts, young, own, leaked, reaps>>
  BY PlanSteps DEF Stopped, Done, Quiet, LifecycleInv, ManagerInv, ManagerOK
<1>2. /\ state \in {"Starting", "Running", "Unhealthy", "ShuttingDown"}
      /\ tracked # None => pc[tracked] \notin Alive
  BY <1>1 DEF LifecycleInv, ManagerInv, Expects, CanStop
<1>3. \/ state' = "Stopped" /\ tracked' = None
      \/ state = "Unhealthy" /\ state' = state /\ tracked' = tracked
  BY <1>2, MoveTable, TakesTable DEF Stopped, Forget, Apply, States
<1>4. \/ todo = StoppedNow /\ todo' = <<>>
      \/ todo = RestartStopped /\ todo' = RestartCount
  BY <1>1, PlanTable DEF StoppedNext
<1>5. ProcessInv' /\ calm' = calm
  BY <1>1, CleanedUp, RemoveStep DEF LifecycleInv
<1>6. ManagerOK' /\ NoneLost' /\ TrackedInStep'
  BY <1>1, <1>2, <1>3, <1>4
  DEF LifecycleInv, ManagerInv, ManagerOK, NoneLost, TrackedInStep, Plans, CountAhead, States
<1>7. Counted'
  BY <1>1, <1>4, PlanTable DEF LifecycleInv, ManagerInv, Counted, CountAhead
<1>8. Expects' /\ Passes'
  BY <1>1, <1>3, <1>4, PlanTable
  DEF LifecycleInv, ManagerInv, Expects, Passes, StoppedNext
<1> QED
  BY <1>5, <1>6, <1>7, <1>8 DEF LifecycleInv, ManagerInv

-----------------------------------------------------------------------------
(* Every step *)

\* No process comes to be of which there was none, unless it begins.
LEMMA StaysBegun ==
    ASSUME ProcessInv, Next
    PROVE  \A d \in Daemons : pc[d] # "none" => pc'[d] # "none"
<1>1. ASSUME NEW d \in Daemons, NEW where \in Alive \cup {"dead"}, Goto(d, where)
      PROVE  \A e \in Daemons : pc[e] # "none" => pc'[e] # "none"
  BY <1>1, Typed DEF ProcessInv
<1>2. \/ \E d \in Daemons, where \in Alive \cup {"dead"} : Goto(d, where)
      \/ pc' = pc
  <2>1. ASSUME NEW d \in Daemons,
               DaemonStep(d) \/ Interrupt(d) \/ CloseSocket(d) \/ Kill(d) \/ Begin(d)
        PROVE  \E where \in Alive \cup {"dead"} : Goto(d, where)
    BY <2>1 DEF DaemonStep, WritePid, OpenStorage, FallBack, NoStorage, Check, Unlink, UnlinkFails,
         Listen, AddressInUse, Leave, Interrupt, CloseSocket, Kill, Dead, Begin, Alive, Starting
  <2>2. \/ \E d \in Daemons :
              DaemonStep(d) \/ Interrupt(d) \/ CloseSocket(d) \/ Kill(d) \/ Begin(d)
        \/ pc' = pc
    BY DEF Next, Dial, ClientStep, SpawnDaemon, SpawnFails, Retry, NextCommand, DaemonStop,
           DaemonMode, Cleanup
  <2> QED
    BY <2>1, <2>2
<1> QED
  BY <1>1, <1>2

\* Daemons live and die, and others start daemons and clean up.
LEMMA OutsideStep ==
    ASSUME LifecycleInv, Next, \A d \in own : pc[d] = "dead" => pc'[d] = "dead",
           UNCHANGED manager
    PROVE  LifecycleInv'
<1>1. ProcessInv'
  BY ProcessesStep DEF LifecycleInv
<1>2. UNCHANGED <<state, tracked, restarts, todo, young, own, leaked, reaps>>
  BY DEF manager
<1>3. calm' = calm
  BY DEF Next, DaemonStep, WritePid, OpenStorage, FallBack, NoStorage, Check, Unlink, UnlinkFails,
         Listen, AddressInUse, Leave, Interrupt, CloseSocket, Kill, Dial, ClientStep,
         SpawnDaemon, SpawnFails, Retry, NextCommand, DaemonStop, DaemonMode, Cleanup, Begin,
         history
<1>4. \A d \in own : pc'[d] # "none"
  BY StaysBegun DEF LifecycleInv, ManagerInv, ManagerOK
<1>5. \A d \in own : pc[d] \notin Alive => pc'[d] \notin Alive
  <2>1. ASSUME NEW d \in own, pc[d] \notin Alive PROVE pc[d] = "dead"
    BY <2>1 DEF LifecycleInv, ManagerInv, ManagerOK, ProcessInv, ProcessTypeOK
  <2>2. "dead" \notin Alive
    BY DEF Alive, Starting
  <2> QED
    BY <2>1, <2>2
<1>6. ManagerOK' /\ Counted' /\ Passes'
  BY <1>2, <1>3, <1>4 DEF LifecycleInv, ManagerInv, ManagerOK, Counted, Passes
<1>7. tracked # None => tracked \in own
  BY DEF LifecycleInv, ManagerInv, ManagerOK
<1>8. Expects' /\ TrackedInStep' /\ NoneLost'
  BY <1>2, <1>5, <1>7 DEF LifecycleInv, ManagerInv, Expects, TrackedInStep, NoneLost
<1> QED
  BY <1>1, <1>6, <1>8 DEF LifecycleInv, ManagerInv

LEMMA LifecycleStart == LifecycleInit => LifecycleInv
<1> SUFFICES ASSUME LifecycleInit PROVE LifecycleInv
  OBVIOUS
<1>1. ProcessInv
  BY ProcessesInit DEF LifecycleInit
<1>2. todo = <<>> /\ state = "Stopped" /\ tracked = None /\ young = None /\ own = {}
      /\ leaked = {} /\ restarts = 0 /\ reaps \in BOOLEAN
  BY DEF LifecycleInit
<1>3. Counted /\ Expects /\ Passes
  BY <1>2, PlanTable, LifecycleAssumption DEF Counted, Expects, Passes, CountAhead, StoppedNext
<1> QED
  BY <1>1, <1>2, <1>3
  DEF LifecycleInv, ManagerInv, ManagerOK, TrackedInStep, NoneLost, Plans, States

LEMMA LifecycleStep == LifecycleInv /\ [LifecycleNext]_allVars => LifecycleInv'
<1> SUFFICES ASSUME LifecycleInv, [LifecycleNext]_allVars PROVE LifecycleInv'
  OBVIOUS
<1>1. CASE Call \/ ResetRestartCount
  BY <1>1, CallStep, ResetStep
<1>2. CASE ManagerStep
  BY <1>2, SyncStep, NothingStep, StateStep, StartFailsStep, StartStep, ConfirmStep,
     StopStep, StopNoProcessStep, StoppedStep, CountStep
     DEF ManagerStep
<1>3. CASE Next /\ (\A d \in own : pc[d] = "dead" => pc'[d] = "dead") /\ UNCHANGED manager
  BY <1>3, OutsideStep
<1>4. CASE UNCHANGED allVars
  <2>1. UNCHANGED vars /\ UNCHANGED manager
    BY <1>4 DEF allVars
  <2>2. ProcessInv' /\ UNCHANGED <<pc, calm>>
    BY <2>1, QuietStep DEF LifecycleInv, vars, history
  <2> QED
    BY <2>1, <2>2 DEF LifecycleInv, ManagerInv, ManagerOK, Counted, Expects, TrackedInStep,
                      NoneLost, Passes, manager
<1> QED
  BY <1>1, <1>2, <1>3, <1>4 DEF LifecycleNext

-----------------------------------------------------------------------------

(* The inductive invariant of the manager among the processes. *)
THEOREM LifecycleInvariance == LifecycleSpec => []LifecycleInv
<1> QED
  BY LifecycleStart, LifecycleStep, PTL DEF LifecycleSpec

(* Type correctness, with the bound of the restart count: one more than is
   allowed (lifecycle.rs:448). *)
THEOREM LifecycleTypeCorrect == LifecycleSpec => []LifecycleTypeOK
<1>1. LifecycleInv => LifecycleTypeOK
  BY PlanSteps, LifecycleAssumption
  DEF LifecycleInv, ManagerInv, ManagerOK, Counted, ProcessInv, LifecycleTypeOK
<1> QED
  BY <1>1, LifecycleInvariance, PTL

(* The state the manager is in says whether it tracks a process, and one that
   is shutting down tracks a dead one. *)
THEOREM TrackedAlways == LifecycleSpec => []TrackedInStep
<1>1. LifecycleInv => TrackedInStep
  BY DEF LifecycleInv, ManagerInv
<1> QED
  BY <1>1, LifecycleInvariance, PTL

(* No child the manager spawned goes on without it, but one whose pid file
   could not be written. *)
THEOREM NoDaemonLost == LifecycleSpec => []NoneLost
<1>1. LifecycleInv => NoneLost
  BY DEF LifecycleInv, ManagerInv
<1> QED
  BY <1>1, LifecycleInvariance, PTL

(* Unless a file cannot be removed, a call ends in a state a call can begin in. *)
THEOREM SettledAtRest == LifecycleSpec => []RestsSettled
<1>1. LifecycleInv => RestsSettled
  BY PlanTable
  DEF LifecycleInv, ManagerInv, ManagerOK, Passes, RestsSettled, StopAhead, StoppedNext, States
<1> QED
  BY <1>1, LifecycleInvariance, PTL

(* The manager, too, takes the path from nobody who serves unnoticed. *)
THEOREM PathKeptByManager == LifecycleSpec => []PathKept
<1>1. LifecycleInv => PathKept
  BY DEF LifecycleInv, ProcessInv, PathInv
<1> QED
  BY <1>1, LifecycleInvariance, PTL
=============================================================================
