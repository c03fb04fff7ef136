------------------------------ MODULE WorkerPool ------------------------------
(***************************************************************************)
(* The pool of warm Python workers (rpytest-daemon/src/pool.rs) with the   *)
(* batches that PooledExecutor (executor.rs) runs on it.                   *)
(*                                                                         *)
(* Three kinds of process interleave.  The Owner is the task that creates  *)
(* the pool and calls execute_parallel.  A batch is the task               *)
(* execute_parallel spawns for one batch of tests: it takes a worker out   *)
(* of the pool (or spawns a temporary one), sends the tests down its       *)
(* stdin, reads one line of its stdout, gives the worker back and refills  *)
(* the pool.  A Python process runs WORKER_SCRIPT, and may exit whenever   *)
(* the interpreter, a test or the operating system decides.                *)
(*                                                                         *)
(* The pool's mutex is taken and freed within one step by acquire and      *)
(* release, which do not await while they hold it, so that "lock" names a  *)
(* holder only during ensure_workers, which does.                          *)
(***************************************************************************)
EXTENDS Naturals, Sequences, FiniteSets

CONSTANTS
    Batches,   \* the batch tasks one execute_parallel may spawn
    Tests,     \* the tests of one call
    Workers,   \* names for Worker values: one is reused once it is dropped
    Owner,     \* the task that owns the pool
    Nobody,    \* no holder of the pool's mutex
    NoWorker,  \* an actor that holds no worker
    NoBatch,   \* an empty stdin, an idle script
    Size,      \* WorkerPool::size
    MaxRuns    \* Worker::DEFAULT_MAX_RUNS and the script's max_runs

ASSUME PoolAssumption ==
    /\ IsFiniteSet(Batches)
    /\ Owner \notin Batches
    /\ Nobody \notin Batches \cup {Owner}
    /\ NoWorker \notin Workers
    /\ NoBatch \notin Batches \cup {Owner}
    /\ Size \in Nat \ {0}
    /\ MaxRuns \in Nat \ {0}

Actors == Batches \cup {Owner}

VARIABLES
    pool,      \* WorkerPool::available, its end is the end acquire pops
    lock,      \* who holds the mutex of "available" across an await
    refill,    \* spawns ensure_workers still has to try
    pc,        \* where each task is
    own,       \* the Worker a task holds
    state,     \* Worker::state, "gone" when no such Worker exists
    runCount,  \* Worker::run_count
    proc,      \* the Python process of a worker
    pyRuns,    \* run_count of the script
    serving,   \* the batch a script executes
    stdin,     \* the request a script has not read yet
    stdout,    \* the lines Rust has not read yet
    split,     \* the batch each test of this call is in
    outcome,   \* what the call's result list says of each test
    progress,  \* how far Python came with each test in this call
    replied    \* batches whose script printed a "done" line in this call

rustVars   == <<pool, lock, refill, pc, own, state, runCount>>
pythonVars == <<proc, pyRuns, serving, stdin, stdout>>
callVars   == <<split, outcome, progress, replied>>
vars       == <<rustVars, pythonVars, callVars>>

TestsOf(b) == {t \in Tests : split[t] = b}

Line == [status : {"ready", "done", "error", "shutdown"},
         batch : Batches \cup {NoBatch}, results : SUBSET Tests]

PlainLine(s) == [status |-> s, batch |-> NoBatch, results |-> {}]

-----------------------------------------------------------------------------
(* Worker values *)

\* Worker::spawn up to the handshake: the child runs, nothing is read yet.
StartProcess(w) ==
    /\ state' = [state EXCEPT ![w] = "spawning"]
    /\ runCount' = [runCount EXCEPT ![w] = 0]
    /\ proc' = [proc EXCEPT ![w] = "booting"]
    /\ pyRuns' = [pyRuns EXCEPT ![w] = 0]
    /\ UNCHANGED <<serving, stdin, stdout>>

\* Dropping Worker values kills their children (kill_on_drop) and closes the
\* pipes with whatever they still hold.
Drop(W) ==
    /\ state' = [w \in Workers |-> IF w \in W THEN "gone" ELSE state[w]]
    /\ runCount' = [w \in Workers |-> IF w \in W THEN 0 ELSE runCount[w]]
    /\ proc' = [w \in Workers |-> IF w \in W THEN "none" ELSE proc[w]]
    /\ pyRuns' = [w \in Workers |-> IF w \in W THEN 0 ELSE pyRuns[w]]
    /\ serving' = [w \in Workers |-> IF w \in W THEN NoBatch ELSE serving[w]]
    /\ stdin' = [w \in Workers |-> IF w \in W THEN NoBatch ELSE stdin[w]]
    /\ stdout' = [w \in Workers |-> IF w \in W THEN <<>> ELSE stdout[w]]

\* Worker::is_alive asks the operating system, Worker::needs_recycle the count.
IsAlive(w) == state[w] # "dead" /\ proc[w] # "exited"

\* Mutant: one run too many.
NeedsRecycleLate(runs) == runs > MaxRuns

NeedsRecycle(runs) == runs >= MaxRuns

Usable(w) == IsAlive(w) /\ ~NeedsRecycle(runCount[w]) /\ state[w] = "ready"

\* wait_ready accepts one line, the script's greeting.
Greeted(w) == stdout[w] # <<>> /\ Head(stdout[w]).status = "ready"

-----------------------------------------------------------------------------
(* The owner: WorkerPool::new, then one execute_parallel after another *)

Init ==
    /\ pool = <<>>
    /\ lock = Nobody
    /\ refill = 0
    /\ pc = [a \in Actors |-> IF a = Owner THEN "ensure" ELSE "idle"]
    /\ own = [a \in Actors |-> NoWorker]
    /\ state = [w \in Workers |-> "gone"]
    /\ runCount = [w \in Workers |-> 0]
    /\ proc = [w \in Workers |-> "none"]
    /\ pyRuns = [w \in Workers |-> 0]
    /\ serving = [w \in Workers |-> NoBatch]
    /\ stdin = [w \in Workers |-> NoBatch]
    /\ stdout = [w \in Workers |-> <<>>]
    /\ split \in [Tests -> Batches]
    /\ outcome = [t \in Tests |-> "none"]
    /\ progress = [t \in Tests |-> "waiting"]
    /\ replied = {}

\* execute_parallel spawns a task for each non-empty batch of the split.
ExecuteParallel ==
    /\ pc[Owner] = "idle"
    /\ split' \in [Tests -> Batches]
    /\ outcome' = [t \in Tests |-> "none"]
    /\ progress' = [t \in Tests |-> "waiting"]
    /\ replied' = {}
    /\ pc' = [a \in Actors |->
                 IF a = Owner THEN "joining"
                 ELSE IF \E t \in Tests : split'[t] = a THEN "acquire" ELSE "idle"]
    /\ UNCHANGED <<pool, lock, refill, own, state, runCount, pythonVars>>

\* It returns when the last of its tasks has.
JoinAll ==
    /\ pc[Owner] = "joining"
    /\ \A b \in Batches : pc[b] = "idle"
    /\ pc' = [pc EXCEPT ![Owner] = "idle"]
    /\ UNCHANGED <<pool, lock, refill, own, state, runCount, pythonVars, callVars>>

-----------------------------------------------------------------------------
(* A batch: execute_batch *)

\* Mutant: the worker is looked at, not popped.
AcquirePeek(b) ==
    /\ pc[b] = "acquire"
    /\ lock = Nobody
    /\ \E i \in DOMAIN pool :
          /\ Usable(pool[i])
          /\ \A j \in i + 1 .. Len(pool) : ~Usable(pool[j])
          /\ Drop({pool[j] : j \in i + 1 .. Len(pool)})
          /\ pool' = SubSeq(pool, 1, i)
          /\ own' = [own EXCEPT ![b] = pool[i]]
    /\ pc' = [pc EXCEPT ![b] = "run"]
    /\ UNCHANGED <<lock, refill, callVars>>

\* acquire pops until a worker is usable, and drops the ones it passes over.
Acquire(b) ==
    /\ pc[b] = "acquire"
    /\ lock = Nobody
    /\ \E i \in DOMAIN pool :
          /\ Usable(pool[i])
          /\ \A j \in i + 1 .. Len(pool) : ~Usable(pool[j])
          /\ Drop({pool[j] : j \in i + 1 .. Len(pool)})
          /\ pool' = SubSeq(pool, 1, i - 1)
          /\ own' = [own EXCEPT ![b] = pool[i]]
    /\ pc' = [pc EXCEPT ![b] = "run"]
    /\ UNCHANGED <<lock, refill, callVars>>

AcquireNothing(b) ==
    /\ pc[b] = "acquire"
    /\ lock = Nobody
    /\ \A i \in DOMAIN pool : ~Usable(pool[i])
    /\ Drop({pool[i] : i \in DOMAIN pool})
    /\ pool' = <<>>
    /\ pc' = [pc EXCEPT ![b] = "spawn"]
    /\ UNCHANGED <<lock, refill, own, callVars>>

\* Every test of the batch gets one result of its own making.
AnswerWith(b, results) ==
    outcome' = [t \in Tests |->
        IF split[t] # b THEN outcome[t]
        ELSE IF t \in results THEN "reported" ELSE "missing"]

\* Mutant: only the tests Python began are answered.
AnswerErrorBegun(b) ==
    outcome' = [t \in Tests |->
        IF split[t] = b /\ progress[t] # "waiting" THEN "error" ELSE outcome[t]]

AnswerError(b) ==
    outcome' = [t \in Tests |-> IF split[t] = b THEN "error" ELSE outcome[t]]

\* No worker in the pool: the batch spawns one for itself.
SpawnTemporary(b) ==
    /\ pc[b] = "spawn"
    /\ \E w \in Workers :
          /\ state[w] = "gone"
          /\ StartProcess(w)
          /\ own' = [own EXCEPT ![b] = w]
    /\ pc' = [pc EXCEPT ![b] = "greet"]
    /\ UNCHANGED <<pool, lock, refill, callVars>>

TemporaryReady(b) ==
    /\ pc[b] = "greet"
    /\ Greeted(own[b])
    /\ state' = [state EXCEPT ![own[b]] = "ready"]
    /\ stdout' = [stdout EXCEPT ![own[b]] = Tail(@)]
    /\ pc' = [pc EXCEPT ![b] = "run"]
    /\ UNCHANGED <<pool, lock, refill, own, runCount, proc, pyRuns, serving, stdin,
                   callVars>>

\* The child could not be started: every test is an Error, nothing is refilled.
SpawnRefused(b) ==
    /\ pc[b] = "spawn"
    /\ AnswerError(b)
    /\ pc' = [pc EXCEPT ![b] = "idle"]
    /\ UNCHANGED <<pool, lock, refill, own, state, runCount, pythonVars, split,
                   progress, replied>>

\* The child exited, or said nothing for 30 s: the same answer.
TemporaryLost(b) ==
    /\ pc[b] = "greet"
    /\ ~Greeted(own[b])
    /\ Drop({own[b]})
    /\ own' = [own EXCEPT ![b] = NoWorker]
    /\ AnswerError(b)
    /\ pc' = [pc EXCEPT ![b] = "idle"]
    /\ UNCHANGED <<pool, lock, refill, split, progress, replied>>

\* Worker::run_tests, the write of the request.
Send(b) ==
    LET w == own[b] IN
    /\ pc[b] = "run"
    /\ state[w] = "ready"
    /\ proc[w] # "exited"
    /\ state' = [state EXCEPT ![w] = "busy"]
    /\ stdin' = [stdin EXCEPT ![w] = b]
    /\ pc' = [pc EXCEPT ![b] = "read"]
    /\ UNCHANGED <<pool, lock, refill, own, runCount, proc, pyRuns, serving, stdout,
                   callVars>>

\* A broken pipe: run_tests fails and leaves the worker to be recycled.
SendFails(b) ==
    LET w == own[b] IN
    /\ pc[b] = "run"
    /\ state[w] = "ready"
    /\ proc[w] = "exited"
    /\ state' = [state EXCEPT ![w] = "recycling"]
    /\ AnswerError(b)
    /\ pc' = [pc EXCEPT ![b] = "release"]
    /\ UNCHANGED <<pool, lock, refill, own, runCount, pythonVars, split, progress,
                   replied>>

\* A line arrived: whatever its status is, unless "error", its results count.
ReadLine(b) ==
    LET w    == own[b]
        line == Head(stdout[w])
        runs == IF line.status = "error" THEN runCount[w] ELSE runCount[w] + 1
    IN  /\ pc[b] = "read"
        /\ stdout[w] # <<>>
        /\ stdout' = [stdout EXCEPT ![w] = Tail(@)]
        /\ runCount' = [runCount EXCEPT ![w] = runs]
        /\ state' = [state EXCEPT ![w] =
                        IF line.status = "error" \/ NeedsRecycle(runs)
                        THEN "recycling" ELSE "ready"]
        /\ IF line.status = "error" THEN AnswerError(b) ELSE AnswerWith(b, line.results)
        /\ pc' = [pc EXCEPT ![b] = "release"]
        /\ UNCHANGED <<pool, lock, refill, own, proc, pyRuns, serving, stdin, split,
                       progress, replied>>

\* Mutant: the read of a reply has no timeout.
ReadFailsOnEof(b) ==
    /\ pc[b] = "read"
    /\ stdout[own[b]] = <<>>
    /\ proc[own[b]] = "exited"
    /\ state' = [state EXCEPT ![own[b]] = "recycling"]
    /\ AnswerError(b)
    /\ pc' = [pc EXCEPT ![b] = "release"]
    /\ UNCHANGED <<pool, lock, refill, own, runCount, pythonVars, split, progress,
                   replied>>

\* Mutant: a worker that did not answer is reused.
ReadFailsReady(b) ==
    /\ pc[b] = "read"
    /\ stdout[own[b]] = <<>>
    /\ state' = [state EXCEPT ![own[b]] = "ready"]
    /\ AnswerError(b)
    /\ pc' = [pc EXCEPT ![b] = "release"]
    /\ UNCHANGED <<pool, lock, refill, own, runCount, pythonVars, split, progress,
                   replied>>

\* No line: the stream ended, or 300 s passed.
ReadFails(b) ==
    /\ pc[b] = "read"
    /\ stdout[own[b]] = <<>>
    /\ state' = [state EXCEPT ![own[b]] = "recycling"]
    /\ AnswerError(b)
    /\ pc' = [pc EXCEPT ![b] = "release"]
    /\ UNCHANGED <<pool, lock, refill, own, runCount, pythonVars, split, progress,
                   replied>>

\* Mutant: a ready worker always goes back.
ReleaseAlways(b) ==
    LET w == own[b] IN
    /\ pc[b] = "release"
    /\ state[w] = "ready" => lock = Nobody
    /\ IF state[w] = "ready"
       THEN /\ pool' = Append(pool, w)
            /\ UNCHANGED <<state, runCount, pythonVars>>
       ELSE /\ Drop({w})
            /\ UNCHANGED pool
    /\ own' = [own EXCEPT ![b] = NoWorker]
    /\ pc' = [pc EXCEPT ![b] = "ensure"]
    /\ UNCHANGED <<lock, refill, callVars>>

\* release: only a Ready worker goes back, and only while there is room.
Release(b) ==
    LET w == own[b] IN
    /\ pc[b] = "release"
    /\ state[w] = "ready" => lock = Nobody
    /\ IF state[w] = "ready" /\ Len(pool) < Size
       THEN /\ pool' = Append(pool, w)
            /\ UNCHANGED <<state, runCount, pythonVars>>
       ELSE /\ Drop({w})
            /\ UNCHANGED pool
    /\ own' = [own EXCEPT ![b] = NoWorker]
    /\ pc' = [pc EXCEPT ![b] = "ensure"]
    /\ UNCHANGED <<lock, refill, callVars>>

-----------------------------------------------------------------------------
(* ensure_workers, run by the owner and at the end of every batch *)

Missing == IF Len(pool) < Size THEN Size - Len(pool) ELSE 0

EnsureBegin(a) ==
    /\ pc[a] = "ensure"
    /\ lock = Nobody
    /\ lock' = a
    /\ refill' = Missing
    /\ pc' = [pc EXCEPT ![a] = "refill"]
    /\ UNCHANGED <<pool, own, state, runCount, pythonVars, callVars>>

RefillSpawn(a) ==
    /\ pc[a] = "refill"
    /\ refill > 0
    /\ own[a] = NoWorker
    /\ \E w \in Workers :
          /\ state[w] = "gone"
          /\ StartProcess(w)
          /\ own' = [own EXCEPT ![a] = w]
    /\ UNCHANGED <<pool, lock, refill, pc, callVars>>

RefillReady(a) ==
    LET w == own[a] IN
    /\ pc[a] = "refill"
    /\ w # NoWorker
    /\ Greeted(w)
    /\ state' = [state EXCEPT ![w] = "ready"]
    /\ stdout' = [stdout EXCEPT ![w] = Tail(@)]
    /\ pool' = Append(pool, w)
    /\ own' = [own EXCEPT ![a] = NoWorker]
    /\ refill' = refill - 1
    /\ UNCHANGED <<lock, pc, runCount, proc, pyRuns, serving, stdin, callVars>>

\* A spawn that fails is logged; the pool stays smaller.
RefillRefused(a) ==
    /\ pc[a] = "refill"
    /\ refill > 0
    /\ own[a] = NoWorker
    /\ refill' = refill - 1
    /\ UNCHANGED <<pool, lock, pc, own, state, runCount, pythonVars, callVars>>

RefillLost(a) ==
    LET w == own[a] IN
    /\ pc[a] = "refill"
    /\ w # NoWorker
    /\ ~Greeted(w)
    /\ Drop({w})
    /\ own' = [own EXCEPT ![a] = NoWorker]
    /\ refill' = refill - 1
    /\ UNCHANGED <<pool, lock, pc, callVars>>

EnsureEnd(a) ==
    /\ pc[a] = "refill"
    /\ refill = 0
    /\ lock' = Nobody
    /\ pc' = [pc EXCEPT ![a] = "idle"]
    /\ UNCHANGED <<pool, refill, own, state, runCount, pythonVars, callVars>>

-----------------------------------------------------------------------------
(* WORKER_SCRIPT *)

Say(w, line) == stdout' = [stdout EXCEPT ![w] = Append(@, line)]

PyReady(w) ==
    /\ proc[w] = "booting"
    /\ Say(w, PlainLine("ready"))
    /\ proc' = [proc EXCEPT ![w] = "waiting"]
    /\ UNCHANGED <<rustVars, pyRuns, serving, stdin, callVars>>

PyTake(w) ==
    /\ proc[w] = "waiting"
    /\ pyRuns[w] < MaxRuns
    /\ stdin[w] # NoBatch
    /\ proc' = [proc EXCEPT ![w] = "running"]
    /\ serving' = [serving EXCEPT ![w] = stdin[w]]
    /\ stdin' = [stdin EXCEPT ![w] = NoBatch]
    /\ UNCHANGED <<rustVars, pyRuns, stdout, callVars>>

\* pytest runs the tests of a request one after another.
BetweenTests(b) == \A t \in TestsOf(b) : progress[t] # "running"

PyTestBegin(w, t) ==
    /\ proc[w] = "running"
    /\ split[t] = serving[w]
    /\ BetweenTests(serving[w])
    /\ progress[t] = "waiting"
    /\ progress' = [progress EXCEPT ![t] = "running"]
    /\ UNCHANGED <<rustVars, pythonVars, split, outcome, replied>>

PyTestEnd(w, t) ==
    /\ proc[w] = "running"
    /\ split[t] = serving[w]
    /\ progress[t] = "running"
    /\ progress' = [progress EXCEPT ![t] = "finished"]
    /\ UNCHANGED <<rustVars, pythonVars, split, outcome, replied>>

\* pytest.main returns, after all the tests or before (a usage or collection
\* error, an interrupted session): the reply carries what the plugin saw.
PyDone(w) ==
    LET b == serving[w] IN
    /\ proc[w] = "running"
    /\ BetweenTests(b)
    /\ Say(w, [status |-> "done", batch |-> b,
               results |-> {t \in TestsOf(b) : progress[t] = "finished"}])
    /\ pyRuns' = [pyRuns EXCEPT ![w] = @ + 1]
    /\ proc' = [proc EXCEPT ![w] = "waiting"]
    /\ serving' = [serving EXCEPT ![w] = NoBatch]
    /\ replied' = replied \cup {b}
    /\ UNCHANGED <<rustVars, stdin, split, outcome, progress>>

\* An exception leaves pytest.main: the loop's handler answers "error".
PyRaise(w) ==
    /\ proc[w] = "running"
    /\ BetweenTests(serving[w])
    /\ Say(w, PlainLine("error"))
    /\ proc' = [proc EXCEPT ![w] = "waiting"]
    /\ serving' = [serving EXCEPT ![w] = NoBatch]
    /\ UNCHANGED <<rustVars, pyRuns, stdin, callVars>>

\* The loop is over after max_runs requests: a last line, and the end.
PyRetire(w) ==
    /\ proc[w] = "waiting"
    /\ pyRuns[w] >= MaxRuns
    /\ Say(w, PlainLine("shutdown"))
    /\ proc' = [proc EXCEPT ![w] = "exited"]
    /\ UNCHANGED <<rustVars, pyRuns, serving, stdin, callVars>>

\* The process ends on its own: pytest is not importable, a test exits the
\* interpreter, the kernel kills it.  The test it ran is never finished.
PyCrash(w) ==
    /\ proc[w] \in {"booting", "waiting", "running"}
    /\ proc' = [proc EXCEPT ![w] = "exited"]
    /\ serving' = [serving EXCEPT ![w] = NoBatch]
    /\ stdin' = [stdin EXCEPT ![w] = NoBatch]
    /\ progress' = [t \in Tests |->
                       IF split[t] = serving[w] /\ progress[t] = "running"
                       THEN "crashed" ELSE progress[t]]
    /\ UNCHANGED <<rustVars, pyRuns, stdout, split, outcome, replied>>

-----------------------------------------------------------------------------

Batch(b) ==
    \/ Acquire(b) \/ AcquireNothing(b)
    \/ SpawnTemporary(b) \/ TemporaryReady(b) \/ SpawnRefused(b) \/ TemporaryLost(b)
    \/ Send(b) \/ SendFails(b) \/ ReadLine(b) \/ ReadFails(b)
    \/ Release(b)

Ensure(a) ==
    \/ EnsureBegin(a)
    \/ RefillSpawn(a) \/ RefillReady(a) \/ RefillRefused(a) \/ RefillLost(a)
    \/ EnsureEnd(a)

Python(w) ==
    \/ PyReady(w) \/ PyTake(w)
    \/ \E t \in Tests : PyTestBegin(w, t) \/ PyTestEnd(w, t)
    \/ PyDone(w) \/ PyRaise(w) \/ PyRetire(w) \/ PyCrash(w)

Next ==
    \/ ExecuteParallel
    \/ JoinAll
    \/ \E b \in Batches : Batch(b)
    \/ \E a \in Actors : Ensure(a)
    \/ \E w \in Workers : Python(w)

Spec == Init /\ [][Next]_vars

\* The runtime polls every task; nothing is asked of Python, which may hang or
\* crash at any point, because every read has a timeout.
FairSpec ==
    /\ Spec
    /\ WF_vars(JoinAll)
    /\ \A b \in Batches : WF_vars(Batch(b))
    /\ \A a \in Actors : WF_vars(Ensure(a))
-----------------------------------------------------------------------------
(* Properties *)

TypeOK ==
    /\ pool \in Seq(Workers)
    /\ lock \in Actors \cup {Nobody}
    /\ refill \in 0 .. Size
    /\ pc \in [Actors -> {"idle", "joining", "acquire", "spawn", "greet", "run", "read",
                         "release", "ensure", "refill"}]
    /\ own \in [Actors -> Workers \cup {NoWorker}]
    /\ state \in [Workers -> {"gone", "spawning", "ready", "busy", "recycling"}]
    /\ runCount \in [Workers -> 0 .. MaxRuns]
    /\ proc \in [Workers -> {"none", "booting", "waiting", "running", "exited"}]
    /\ pyRuns \in [Workers -> Nat]
    /\ serving \in [Workers -> Batches \cup {NoBatch}]
    /\ stdin \in [Workers -> Batches \cup {NoBatch}]
    /\ stdout \in [Workers -> Seq(Line)]
    /\ split \in [Tests -> Batches]
    /\ outcome \in [Tests -> {"none", "reported", "missing", "error"}]
    /\ progress \in [Tests -> {"waiting", "running", "finished", "crashed"}]
    /\ replied \subseteq Batches

Pooled(w) == \E i \in DOMAIN pool : pool[i] = w

(* A Worker value has one owner: no worker sits in the pool twice, in the
   pool and in a task's hands, or in the hands of two tasks, whatever way
   acquire, release and the three spawning paths interleave. *)
HeldOnce ==
    /\ \A i, j \in DOMAIN pool : pool[i] = pool[j] => i = j
    /\ \A a \in Actors : own[a] # NoWorker => ~Pooled(own[a])
    /\ \A a, b \in Actors : own[a] = own[b] /\ own[a] # NoWorker => a = b

(* The pool never grows beyond its target size, also counting the spawns an
   ensure_workers under way still has to make. *)
RoomKept == Len(pool) + refill <= Size

(* The price of temporary workers is bounded: there are never more live
   workers than the pool's size and one for each running batch. *)
LiveWorkersBounded ==
    Cardinality({w \in Workers : state[w] # "gone"}) <= Size + Cardinality(Batches)

InSync(w) ==
    /\ state[w] = "ready"
    /\ runCount[w] < MaxRuns
    /\ pyRuns[w] = runCount[w]
    /\ stdin[w] = NoBatch
    /\ serving[w] = NoBatch
    /\ stdout[w] = <<>>

(* Request and reply stay paired on a reused worker: one that waits in the
   pool, or was taken out for the next batch, has no unread request, no
   reply of an earlier batch in its pipe (a late answer after a timeout),
   and a run count on which Rust and the script agree, so that the script
   will not retire under the next request. *)
PooledInSync ==
    /\ \A i \in DOMAIN pool : InSync(pool[i])
    /\ \A b \in Batches : pc[b] = "run" => InSync(own[b])

(* The result list tells the truth about Python: a test is reported only if
   its run ended, and is left out only if pytest itself replied to the batch
   without having run it to its end.  A reply of another batch, or the
   script's last line taken for a reply, would break this. *)
AnswersAreReplies ==
    \A t \in Tests :
       /\ outcome[t] = "reported" => progress[t] = "finished"
       /\ outcome[t] = "missing" => split[t] \in replied /\ progress[t] # "finished"

(* Every execute_parallel returns, although workers may hang, crash or fail
   to start at every point. *)
CallReturns == pc[Owner] = "joining" ~> pc[Owner] = "idle"

Service == INSTANCE BatchService WITH calling <- pc[Owner] = "joining"

(* The pool implements the service: every test of a call is in exactly one
   answer, a batch's answer is Python's or all errors, it is given once, and
   the call returns after the last one. *)
ServiceSpec == Service!Spec
=============================================================================
