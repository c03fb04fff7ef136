-------------------------------- MODULE Watch --------------------------------
(***************************************************************************)
(* rpytest --watch: the loop of handle_watch (rpytest/src/main.rs), its    *)
(* state machine (watch/state.rs), file watcher (watch/watcher.rs) and     *)
(* dependency graph (watch/dependency.rs), as a client of DaemonServer.    *)
(*                                                                         *)
(* The loop asks the daemon one thing at a time and waits for the answer   *)
(* or for its receive to time out; files change at any moment.             *)
(***************************************************************************)
EXTENDS DaemonServer

CONSTANTS
    W,          \* the watching client
    K,          \* the context it opens
    TestFiles,  \* files named test_*.py or *_test.py
    Sources,    \* other Python files
    Conftest,   \* conftest.py
    FileOf,     \* the file a test is in
    Uses,       \* the source files a test imports
    Changes,    \* the files somebody edits
    Batches     \* bound: batches of changes the watcher's channel holds

ASSUME WatchAssumption ==
    /\ Clients = {W} /\ K \in Keys
    /\ FileOf \in [Tests -> TestFiles]
    /\ Uses \in [Tests -> SUBSET Sources]
    /\ Changes \subseteq TestFiles \cup Sources \cup {Conftest}
    /\ Batches \in Nat \ {0}

VARIABLES
    stage,     \* where handle_watch is, or the WatchState its loop is in
    graph,     \* test_file_to_tests, by the path of the file
    brewing,   \* changed files the debouncer has not reported
    channel,   \* the batches wait_for_changes receives
    changed,   \* the changed files of the WatchState
    selected,  \* the tests of the next Run
    fresh,     \* the tests that began to run after they last changed
    late       \* whether a request has timed out

loop == <<stage, graph, channel, changed, selected>>
watchVars == <<loop, brewing, fresh, late>>
allVars == <<vars, watchVars>>

Repo == RepoOf[K]
OnDisk == disk[Repo]

\* TestNode::file_path is relative to the repository, the path of an event
\* is absolute: inotify is given the absolute root.
Relative(f) == <<"relative", f>>
EventPath(f) == <<"absolute", f>>

\* The command starts after others that may have collected the repository,
\* with this daemon or with one that has gone since.
WatchInit ==
    /\ daemon = "idle" /\ job = None
    /\ \E known \in SUBSET Tests :
          /\ storage = known /\ flushed = known
          /\ \E context \in {None, [inv |-> known, hash |-> known]} :
                contexts = [k \in Keys |-> IF k = K THEN context ELSE None]
    /\ disk \in [Repos -> SUBSET Tests]
    /\ inbox = [c \in Clients |-> <<>>]
    /\ asked = [c \in Clients |-> None]
    /\ answer = [c \in Clients |-> None]
    /\ stage = "init"
    /\ graph = [p \in {} |-> {}]
    /\ brewing = {}
    /\ channel = <<>>
    /\ changed = {}
    /\ selected = {}
    /\ fresh = {}
    /\ late = FALSE

-----------------------------------------------------------------------------
(* Files *)

\* Somebody changes a file; in a test file tests may appear and disappear.
Touch(f) ==
    /\ f \in Changes
    /\ brewing' = brewing \cup {f}
    /\ \E tests \in SUBSET {t \in Tests : FileOf[t] = f} :
          disk' = [disk EXCEPT ![Repo] = {t \in @ : FileOf[t] # f} \cup tests]
    /\ fresh' = {t \in fresh : f # Conftest /\ f # FileOf[t] /\ f \notin Uses[t]}
    /\ UNCHANGED <<server, storage, flushed, pipes, loop, late>>

\* The debouncer of notify: 200 ms without a change end a batch.
Report ==
    /\ brewing # {} /\ Len(channel) < Batches
    /\ channel' = Append(channel, brewing)
    /\ brewing' = {}
    /\ UNCHANGED <<vars, stage, graph, changed, selected, fresh, late>>

-----------------------------------------------------------------------------
(* The loop *)

RequestOf(s) ==
    CASE s = "init" -> [kind |-> "init", key |-> K]
      [] s = "inventory" -> [kind |-> "inventory", key |-> K]
      [] s \in {"list", "relist"} -> [kind |-> "list", key |-> K]
      [] s \in {"firstRun", "run"} -> [kind |-> "run", key |-> K, nodes |-> selected]
      [] s = "recollect" ->
            [kind |-> "collect", key |-> K, force |-> Conftest \in changed]

Starting == {"init", "inventory", "list", "firstRun"}
Asking == Starting \cup {"recollect", "relist", "run"}

Ask ==
    /\ stage \in Asking
    /\ Send(W, RequestOf(stage))
    /\ UNCHANGED <<server, storage, flushed, disk, watchVars>>

\* An answer to the request of stage s.
Answered(s) ==
    /\ stage = s
    /\ Take(W)
    /\ UNCHANGED <<server, storage, flushed, disk, brewing, channel, fresh, late>>

Goto(s) == stage' = s

Initialized ==
    /\ Answered("init")
    /\ Goto(IF answer[W].kind = "ready" THEN "inventory" ELSE "exited")
    /\ UNCHANGED <<graph, changed, selected>>

\* Mutant: the graph is keyed by file name.
TrackedByName ==
    /\ Answered("inventory")
    /\ Goto("list")
    /\ graph' = IF answer[W].kind = "data"
                THEN [f \in {FileOf[t] : t \in answer[W].nodes} |->
                        {t \in answer[W].nodes : FileOf[t] = f}]
                ELSE graph
    /\ UNCHANGED <<changed, selected>>

\* add_test, for every node of the inventory.
Tracked ==
    /\ Answered("inventory")
    /\ Goto("list")
    /\ graph' = IF answer[W].kind = "data"
                THEN [p \in {Relative(FileOf[t]) : t \in answer[W].nodes} |->
                        {t \in answer[W].nodes : Relative(FileOf[t]) = p}]
                ELSE graph
    /\ UNCHANGED <<changed, selected>>

Listed == IF answer[W].kind = "tests" THEN answer[W].nodes ELSE {}

FirstListed ==
    /\ Answered("list")
    /\ selected' = Listed
    /\ Goto(IF Listed = {} THEN "idle" ELSE "firstRun")
    /\ UNCHANGED <<graph, changed>>

FirstRan ==
    /\ Answered("firstRun")
    /\ Goto("idle")
    /\ UNCHANGED <<graph, changed, selected>>

\* Mutant: what came after the first batch is thrown away.
WaitForChangesDrain ==
    /\ stage = "idle"
    /\ channel # <<>>
    /\ changed' = Head(channel)
    /\ channel' = <<>>
    /\ Goto("debouncing")
    /\ UNCHANGED <<vars, graph, brewing, selected, fresh, late>>

WaitForChanges ==
    /\ stage = "idle"
    /\ channel # <<>>
    /\ changed' = Head(channel)
    /\ channel' = Tail(channel)
    /\ Goto("debouncing")
    /\ UNCHANGED <<vars, graph, brewing, selected, fresh, late>>

\* The loop sleeps 300 ms and looks at no event that arrives meanwhile.
Debounced ==
    /\ stage = "debouncing"
    /\ Goto("computing")
    /\ UNCHANGED <<vars, graph, brewing, channel, changed, selected, fresh, late>>

\* compute_affected.  handle_watch adds neither dependencies nor conftest
\* files to the graph: a source file has no tests, a conftest has them all.
RunAll == Conftest \in changed
Affected == UNION {graph[p] : p \in {EventPath(f) : f \in changed \cap TestFiles}
                                    \cap DOMAIN graph}

ComputeAffected ==
    /\ stage = "computing"
    /\ selected' = Affected
    /\ Goto(IF RunAll THEN "recollect"
            ELSE IF Affected # {} THEN "run"
            ELSE IF changed \cap TestFiles # {} THEN "recollect" ELSE "idle")
    /\ UNCHANGED <<vars, graph, brewing, channel, changed, fresh, late>>

\* Mutant: the loop goes back to Idle instead of asking for the tests.
RecollectedIdle ==
    /\ Answered("recollect")
    /\ Goto("idle")
    /\ UNCHANGED <<graph, changed, selected>>

\* The answer to Collect is not looked at.
Recollected ==
    /\ Answered("recollect")
    /\ Goto("relist")
    /\ UNCHANGED <<graph, changed, selected>>

InChangedFiles(tests) == IF RunAll THEN tests ELSE {t \in tests : FileOf[t] \in changed}

Relisted ==
    /\ Answered("relist")
    /\ selected' = InChangedFiles(Listed)
    /\ Goto(IF selected' = {} THEN "idle" ELSE "run")
    /\ UNCHANGED <<graph, changed>>

Ran ==
    /\ Answered("run")
    /\ Goto("idle")
    /\ UNCHANGED <<graph, changed, selected>>

\* Mutant: a request that timed out is asked again, for ever.
AfterTimeoutRetry(s) == IF s \in Starting THEN "exited" ELSE s

\* A request fails: while starting the command ends, later the loop goes on
\* as if the answer were empty.
AfterTimeout(s) ==
    CASE s \in Starting -> "exited"
      [] s = "recollect" -> "relist"
      [] s \in {"relist", "run"} -> "idle"

Fails ==
    /\ Goto(AfterTimeout(stage))
    /\ late' = TRUE
    /\ UNCHANGED <<storage, flushed, disk, graph, brewing, channel, changed, selected, fresh>>

\* RecvTimeout: the daemon is stuck, or a run of the tests takes 30 s.
TimesOut ==
    /\ daemon \in {"stuck", "running"}
    /\ GiveUp(W)
    /\ Fails

\* SendTimeout: the pipe is full.
SendTimesOut ==
    /\ stage \in Asking /\ asked[W] = None
    /\ Len(inbox[W]) = Backlog /\ daemon # "idle"
    /\ UNCHANGED <<server, pipes>>
    /\ Fails

Loop ==
    \/ Ask
    \/ Initialized \/ Tracked \/ FirstListed \/ FirstRan
    \/ WaitForChanges \/ Debounced \/ ComputeAffected
    \/ Recollected \/ Relisted \/ Ran
    \/ TimesOut \/ SendTimesOut

-----------------------------------------------------------------------------

\* The daemon, for the watching client only.
Daemon ==
    /\ \/ Serve(W) /\ fresh' = IF daemon' = "running"
                               THEN fresh \cup Message(W).req.nodes ELSE fresh
       \/ Finish /\ UNCHANGED fresh
    /\ UNCHANGED <<loop, brewing, late>>

WatchNext ==
    \/ \E f \in Changes : Touch(f)
    \/ Report
    \/ Loop
    \/ Daemon

WatchSpec ==
    /\ WatchInit /\ [][WatchNext]_allVars
    /\ WF_allVars(Report) /\ WF_allVars(Loop) /\ WF_allVars(Daemon)
-----------------------------------------------------------------------------
(* Properties *)

WatchTypeOK ==
    /\ TypeOK
    /\ stage \in Asking \cup {"idle", "debouncing", "computing", "exited"}
    /\ DOMAIN graph \subseteq {Relative(f) : f \in TestFiles}
    /\ \A p \in DOMAIN graph : graph[p] \subseteq Tests
    /\ brewing \subseteq Changes /\ changed \subseteq Changes
    /\ channel \in Seq(SUBSET Changes)
    /\ selected \subseteq Tests /\ fresh \subseteq Tests /\ late \in BOOLEAN

(* However the daemon behaves, also when it never answers again, the loop
   comes back to waiting for changes (or the command has ended). *)
LoopComesBack == []<>(stage \in {"idle", "exited"})

(* A change is not lost while the loop debounces, waits for an answer or
   runs tests: it reaches compute_affected sooner or later. *)
ChangesArrive ==
    \A f \in Changes :
        f \in brewing ~> (stage = "debouncing" /\ f \in changed) \/ stage = "exited"

(* As long as no request has timed out, a change of conftest.py runs every
   test again, also when it comes during a collection or a run. *)
ConftestReruns ==
    \A t \in Tests :
        (Conftest \in brewing /\ t \in OnDisk)
            ~> (t \in fresh \/ t \notin OnDisk \/ stage = "exited" \/ late)
=============================================================================
