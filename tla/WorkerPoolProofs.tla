--------------------------- MODULE WorkerPoolProofs ---------------------------
(***************************************************************************)
(* What holds of the worker pool for every number of batches, tests and    *)
(* workers, every pool size and every max_runs.                            *)
(*                                                                         *)
(* The properties of WorkerPool are not inductive on their own.  IndInv    *)
(* adds what each task knows about the worker in its hands: the state it   *)
(* is in, and what may still travel in its two pipes.                      *)
(***************************************************************************)
EXTENDS WorkerPool, SequenceTheorems, FiniteSetTheorems, TLAPS

Holding == {"greet", "run", "read", "release"}

\* The mutex is held exactly by the task that refills the pool; the owner and
\* the batches each keep to their own part of the code.
TaskInv ==
    /\ \A a \in Actors : lock = a <=> pc[a] = "refill"
    /\ lock = Nobody => refill = 0
    /\ pc[Owner] \in {"idle", "joining", "ensure", "refill"}
    /\ \A b \in Batches : pc[b] # "joining"
    /\ pc[Owner] # "joining" => \A b \in Batches : pc[b] = "idle"

\* A task holds a worker where execute_batch and ensure_workers bind one.
OwnInv ==
    \A a \in Actors :
       /\ pc[a] \in Holding => own[a] # NoWorker
       /\ own[a] # NoWorker => pc[a] \in Holding \cup {"refill"}
       /\ pc[a] = "refill" /\ own[a] # NoWorker => refill > 0

\* The state of a worker follows from where it is.
HandInv ==
    /\ \A i \in DOMAIN pool : state[pool[i]] = "ready"
    /\ \A a \in Actors :
          /\ pc[a] = "greet" => state[own[a]] = "spawning"
          /\ pc[a] = "refill" /\ own[a] # NoWorker => state[own[a]] = "spawning"
          /\ pc[a] = "run" => state[own[a]] = "ready"
          /\ pc[a] = "read" => state[own[a]] = "busy"
          /\ pc[a] = "release" => state[own[a]] \in {"ready", "recycling"}

\* The greeting is the only line of a worker that is being spawned.
Spawning(w) ==
    /\ runCount[w] = 0
    /\ pyRuns[w] = 0
    /\ stdin[w] = NoBatch
    /\ serving[w] = NoBatch
    /\ \/ stdout[w] = <<>>
       \/ stdout[w] = <<PlainLine("ready")>> /\ proc[w] # "booting"

Finished(b) == {t \in TestsOf(b) : progress[t] = "finished"}

\* While a batch waits for its reply, the first line it will read is the
\* answer to its own request, and the request has not been counted yet.
Busy(w, b) ==
    /\ runCount[w] < MaxRuns
    /\ proc[w] # "booting"
    /\ \/ /\ stdout[w] = <<>>
          /\ pyRuns[w] = runCount[w]
          /\ stdin[w] = NoBatch \/ serving[w] = NoBatch
       \/ /\ stdout[w] # <<>>
          /\ Head(stdout[w]).status = "error"
          /\ stdin[w] = NoBatch
          /\ serving[w] = NoBatch
       \/ /\ stdout[w] # <<>>
          /\ Head(stdout[w]).status = "done"
          /\ Head(stdout[w]).results = Finished(b)
          /\ b \in replied
          /\ pyRuns[w] = runCount[w] + 1
          /\ pyRuns[w] < MaxRuns => Len(stdout[w]) = 1
          /\ stdin[w] = NoBatch
          /\ serving[w] = NoBatch

\* What may be in the pipes of a worker, and where its script is.
PipeOf(w) ==
    /\ state[w] = "gone" => /\ proc[w] = "none" /\ stdout[w] = <<>>
                           /\ stdin[w] = NoBatch /\ serving[w] = NoBatch
    /\ state[w] = "ready" => InSync(w) /\ proc[w] # "booting"
    /\ state[w] = "spawning" => Spawning(w)
    /\ state[w] = "busy" => \A b \in Batches : own[b] = w => Busy(w, b)

PipeInv == \A w \in Workers : PipeOf(w)

\* A script with a request works for the batch that holds its worker, so that
\* at most one script does.
CourierInv ==
    \A w \in Workers :
       /\ proc[w] = "running" <=> serving[w] # NoBatch
       /\ stdin[w] # NoBatch => own[stdin[w]] = w /\ pc[stdin[w]] \in {"read", "release"}
       /\ serving[w] # NoBatch => own[serving[w]] = w /\ pc[serving[w]] \in {"read", "release"}

\* A batch has no answer before it read one, and once it has one made of a
\* reply, no script touches its tests any more.
AnswerInv ==
    \A t \in Tests :
       /\ pc[split[t]] \in {"acquire", "spawn", "greet", "run", "read"} => outcome[t] = "none"
       /\ outcome[t] = "missing" =>
             \A w \in Workers : stdin[w] # split[t] /\ serving[w] # split[t]

IndInv ==
    /\ TypeOK /\ HeldOnce /\ RoomKept
    /\ TaskInv /\ OwnInv /\ HandInv /\ PipeInv /\ CourierInv
    /\ AnswersAreReplies /\ AnswerInv
-----------------------------------------------------------------------------
(* Facts the steps share *)

\* What Drop(W) makes of the workers, in the form the proofs use.
DropTo(W) ==
    /\ \A w \in W : /\ state'[w] = "gone" /\ proc'[w] = "none"
                    /\ serving'[w] = NoBatch /\ stdin'[w] = NoBatch /\ stdout'[w] = <<>>
    /\ \A w \in Workers \ W :
          /\ state'[w] = state[w] /\ proc'[w] = proc[w]
          /\ serving'[w] = serving[w] /\ stdin'[w] = stdin[w] /\ stdout'[w] = stdout[w]
          /\ runCount'[w] = runCount[w] /\ pyRuns'[w] = pyRuns[w]

WorkerTypes ==
    /\ state \in [Workers -> {"gone", "spawning", "ready", "busy", "recycling"}]
    /\ runCount \in [Workers -> 0 .. MaxRuns]
    /\ proc \in [Workers -> {"none", "booting", "waiting", "running", "exited"}]
    /\ pyRuns \in [Workers -> Nat]
    /\ serving \in [Workers -> Batches \cup {NoBatch}]
    /\ stdin \in [Workers -> Batches \cup {NoBatch}]
    /\ stdout \in [Workers -> Seq(Line)]

LEMMA DropEffect ==
    ASSUME WorkerTypes, NEW W \in SUBSET Workers, Drop(W)
    PROVE  DropTo(W) /\ WorkerTypes'
<1>1. DropTo(W)
  BY DEF Drop, DropTo
<1>2. WorkerTypes'
  BY PoolAssumption DEF Drop, WorkerTypes
<1>3. QED  BY <1>1, <1>2

LEMMA TypeParts == TypeOK => WorkerTypes
  BY DEF TypeOK, WorkerTypes

LEMMA LineTypes ==
    /\ \A s \in {"ready", "done", "error", "shutdown"} : PlainLine(s) \in Line
    /\ \A b \in Batches, R \in SUBSET Tests :
          [status |-> "done", batch |-> b, results |-> R] \in Line
  BY DEF PlainLine, Line

LEMMA OwnTypes ==
    ASSUME IndInv
    PROVE  /\ pool \in Seq(Workers)
           /\ own \in [Actors -> Workers \cup {NoWorker}]
           /\ DOMAIN pc = Actors
           /\ DOMAIN state = Workers
  BY DEF IndInv, TypeOK

LEMMA PipeTypes ==
    ASSUME IndInv, NEW w \in Workers
    PROVE  stdin[w] \in Batches \cup {NoBatch} /\ serving[w] \in Batches \cup {NoBatch}
  BY DEF IndInv, TypeOK

\* A worker in a task's hands is nowhere else.
LEMMA Mine ==
    ASSUME IndInv, NEW a \in Actors, own[a] # NoWorker
    PROVE  /\ own[a] \in Workers
           /\ \A i \in DOMAIN pool : pool[i] \in Workers /\ pool[i] # own[a]
           /\ \A c \in Actors : c # a => own[c] # own[a]
  BY DEF IndInv, TypeOK, HeldOnce, Pooled

\* A name no Worker has is in nobody's hands.
LEMMA Fresh ==
    ASSUME IndInv, NEW w \in Workers, state[w] = "gone"
    PROVE  /\ \A i \in DOMAIN pool : pool[i] \in Workers /\ pool[i] # w
           /\ \A a \in Actors : own[a] # w
<1>1. \A i \in DOMAIN pool : pool[i] \in Workers /\ pool[i] # w
  BY DEF IndInv, TypeOK, HandInv
<1>2. ASSUME NEW a \in Actors, own[a] = w  PROVE FALSE
  BY <1>2, PoolAssumption DEF IndInv, OwnInv, HandInv, Holding
<1>3. QED  BY <1>1, <1>2

\* A step that leaves the other workers alone keeps what is known of them.
LEMMA PipeStep ==
    ASSUME PipeInv, NEW W \in SUBSET Workers,
           \A w \in Workers \ W :
              /\ state'[w] = state[w] /\ proc'[w] = proc[w]
              /\ serving'[w] = serving[w] /\ stdin'[w] = stdin[w] /\ stdout'[w] = stdout[w]
              /\ runCount'[w] = runCount[w] /\ pyRuns'[w] = pyRuns[w],
           \A w \in Workers \ W, b \in Batches : own'[b] = w /\ state[w] = "busy" =>
              /\ own[b] = w
              /\ Finished(b)' = Finished(b)
              /\ b \in replied => b \in replied',
           \A w \in W : PipeOf(w)'
    PROVE  PipeInv'
<1> SUFFICES ASSUME NEW w \in Workers \ W  PROVE PipeOf(w)'
  BY DEF PipeInv
<1>1. PipeOf(w)
  BY DEF PipeInv
<1>2. InSync(w) => InSync(w)'
  BY DEF InSync
<1>3. Spawning(w) => Spawning(w)'
  BY DEF Spawning
<1>4. ASSUME NEW b \in Batches, own'[b] = w, state[w] = "busy", Busy(w, b)
      PROVE  Busy(w, b)'
  BY <1>4 DEF Busy
<1>5. QED  BY <1>1, <1>2, <1>3, <1>4 DEF PipeOf

\* The same for a step that changes no worker, and one that changes one.
LEMMA PipeFrame ==
    ASSUME PipeInv, UNCHANGED <<state, runCount, pythonVars>>,
           \A w \in Workers, b \in Batches : own'[b] = w /\ state[w] = "busy" =>
              /\ own[b] = w
              /\ Finished(b)' = Finished(b)
              /\ b \in replied => b \in replied'
    PROVE  PipeInv'
<1> DEFINE W == {}
<1>1. W \in SUBSET Workers /\ \A w \in W : PipeOf(w)'
  OBVIOUS
<1>2. Workers \ W = Workers
  OBVIOUS
<1> HIDE DEF W
<1>3. QED  BY <1>1, <1>2, PipeStep DEF pythonVars

LEMMA PipeLocal ==
    ASSUME PipeInv, NEW v \in Workers,
           \A w \in Workers \ {v} :
              /\ state'[w] = state[w] /\ proc'[w] = proc[w]
              /\ serving'[w] = serving[w] /\ stdin'[w] = stdin[w] /\ stdout'[w] = stdout[w]
              /\ runCount'[w] = runCount[w] /\ pyRuns'[w] = pyRuns[w],
           \A w \in Workers \ {v}, b \in Batches : own'[b] = w /\ state[w] = "busy" =>
              /\ own[b] = w
              /\ Finished(b)' = Finished(b)
              /\ b \in replied => b \in replied',
           PipeOf(v)'
    PROVE  PipeInv'
<1> DEFINE W == {v}
<1>1. W \in SUBSET Workers /\ \A w \in W : PipeOf(w)'
  OBVIOUS
<1>2. Workers \ W = Workers \ {v}
  OBVIOUS
<1> HIDE DEF W
<1>3. QED  BY <1>1, <1>2, PipeStep

\* A worker that is dropped or given up asks for nothing.
LEMMA PipeGone ==
    ASSUME NEW w \in Workers,
           \/ state'[w] = "recycling"
           \/ /\ state'[w] = "gone" /\ proc'[w] = "none"
              /\ serving'[w] = NoBatch /\ stdin'[w] = NoBatch /\ stdout'[w] = <<>>
    PROVE  PipeOf(w)'
  BY DEF PipeOf

LEMMA RustFrame ==
    ASSUME HeldOnce, RoomKept, TaskInv, OwnInv, HandInv, UNCHANGED rustVars
    PROVE  (HeldOnce /\ RoomKept /\ TaskInv /\ OwnInv /\ HandInv)'
<1>1. (HeldOnce /\ RoomKept /\ TaskInv)'
  BY DEF HeldOnce, Pooled, RoomKept, TaskInv, rustVars
<1>2. (OwnInv /\ HandInv)'
  BY DEF OwnInv, HandInv, rustVars
<1>3. QED  BY <1>1, <1>2

LEMMA FinishedFrame ==
    ASSUME UNCHANGED <<split, progress>>
    PROVE  \A b : Finished(b)' = Finished(b)
  BY DEF Finished, TestsOf

\* A task changes the state of the worker it holds, takes a fresh one, or
\* lets its worker go.
LEMMA HandKeep ==
    ASSUME IndInv, NEW a \in Actors, own[a] # NoWorker, UNCHANGED <<pool, own>>,
           NEW p, pc' = [pc EXCEPT ![a] = p],
           \A w \in Workers \ {own[a]} : state'[w] = state[w],
           p \in {"greet", "refill"} => state'[own[a]] = "spawning",
           p = "run" => state'[own[a]] = "ready",
           p = "read" => state'[own[a]] = "busy",
           p = "release" => state'[own[a]] \in {"ready", "recycling"}
    PROVE  HandInv'
<1>1. \A i \in DOMAIN pool : state'[pool[i]] = state[pool[i]]
  BY Mine
<1>2. \A c \in Actors : c # a /\ own[c] # NoWorker => state'[own[c]] = state[own[c]]
  BY Mine, OwnTypes
<1>3. \A c \in Actors : pc[c] \in Holding => own[c] # NoWorker
  BY DEF IndInv, OwnInv
<1>4. QED  BY <1>1, <1>2, <1>3, OwnTypes DEF IndInv, HandInv, Holding

LEMMA HandTake ==
    ASSUME IndInv, NEW a \in Actors, NEW v \in Workers, state[v] = "gone",
           UNCHANGED pool, own' = [own EXCEPT ![a] = v],
           NEW p \in {"greet", "refill"}, pc' = [pc EXCEPT ![a] = p],
           state' = [state EXCEPT ![v] = "spawning"]
    PROVE  HandInv' /\ HeldOnce'
<1>1. \A i \in DOMAIN pool : pool[i] # v /\ state'[pool[i]] = state[pool[i]]
  BY Fresh, OwnTypes
<1>2. \A c \in Actors : own[c] # v /\ (own[c] # NoWorker => state'[own[c]] = state[own[c]])
  BY Fresh, OwnTypes
<1>3. \A c \in Actors : pc[c] \in Holding => own[c] # NoWorker
  BY DEF IndInv, OwnInv
<1>4. \A c \in Actors : own'[c] = IF c = a THEN v ELSE own[c]
  BY OwnTypes
<1>5. HandInv'
  BY <1>1, <1>2, <1>3, <1>4, OwnTypes DEF IndInv, HandInv, Holding
<1>6. HeldOnce'
  BY <1>1, <1>2, <1>4 DEF IndInv, HeldOnce, Pooled
<1>7. QED  BY <1>5, <1>6

LEMMA HandFree ==
    ASSUME IndInv, NEW a \in Actors, own[a] # NoWorker, UNCHANGED pool,
           own' = [own EXCEPT ![a] = NoWorker],
           NEW p, p \notin Holding, pc' = [pc EXCEPT ![a] = p],
           \A w \in Workers \ {own[a]} : state'[w] = state[w]
    PROVE  HandInv' /\ HeldOnce'
<1>1. \A i \in DOMAIN pool : state'[pool[i]] = state[pool[i]]
  BY Mine
<1>2. \A c \in Actors : c # a /\ own[c] # NoWorker => state'[own[c]] = state[own[c]]
  BY Mine, OwnTypes
<1>3. \A c \in Actors : pc[c] \in Holding => own[c] # NoWorker
  BY DEF IndInv, OwnInv
<1>4. \A c \in Actors : own'[c] = IF c = a THEN NoWorker ELSE own[c]
  BY OwnTypes
<1>5. HandInv'
  BY <1>1, <1>2, <1>3, <1>4, OwnTypes DEF IndInv, HandInv, Holding
<1>6. HeldOnce'
  BY <1>4 DEF IndInv, HeldOnce, Pooled
<1>7. QED  BY <1>5, <1>6

\* A script that serves a batch goes on serving it until its worker is let go.
LEMMA CourierKeep ==
    ASSUME IndInv, NEW b \in Actors,
           \A c \in Actors \ {b} : own'[c] = own[c] /\ pc'[c] = pc[c],
           \A w \in Workers :
              /\ proc'[w] = "running" <=> serving'[w] # NoBatch
              /\ stdin'[w] \in {stdin[w], NoBatch} /\ serving'[w] \in {serving[w], NoBatch},
           \A w \in Workers :
              stdin'[w] = b \/ serving'[w] = b => own'[b] = w /\ pc'[b] \in {"read", "release"}
    PROVE  CourierInv'
  BY PipeTypes DEF IndInv, CourierInv, Actors

\* Of an actor that does not wait for a reply, no script knows.
LEMMA NotServed ==
    ASSUME IndInv, NEW b \in Actors, pc[b] \notin {"read", "release"}, NEW w \in Workers
    PROVE  stdin[w] # b /\ serving[w] # b
  BY PoolAssumption, PipeTypes DEF IndInv, CourierInv, Actors

-----------------------------------------------------------------------------
(* The owner *)

LEMMA ExecuteParallelStep ==
    ASSUME IndInv, ExecuteParallel
    PROVE  IndInv'
<1>1. \A b \in Batches : pc[b] = "idle"
  BY DEF IndInv, TaskInv, ExecuteParallel
<1>2. \A b \in Batches, w \in Workers : own[b] # w
  BY <1>1, PoolAssumption DEF IndInv, OwnInv, Holding, Actors
<1>3. \A w \in Workers : stdin[w] = NoBatch /\ serving[w] = NoBatch
  BY <1>2, PipeTypes DEF IndInv, CourierInv
<1>4. TypeOK'
  BY DEF IndInv, ExecuteParallel, TypeOK, pythonVars, Actors
<1>5. (HeldOnce /\ RoomKept)'
  BY DEF IndInv, ExecuteParallel, HeldOnce, RoomKept, Pooled
<1>6. TaskInv'
  BY <1>1, PoolAssumption DEF IndInv, ExecuteParallel, TaskInv, TypeOK, Actors
<1>7. (OwnInv /\ HandInv)'
  BY <1>1 DEF IndInv, ExecuteParallel, OwnInv, HandInv, Holding, Actors
<1>8. PipeInv'
  BY <1>2, PipeFrame DEF IndInv, ExecuteParallel, pythonVars
<1>9. CourierInv'
  BY <1>3 DEF IndInv, ExecuteParallel, CourierInv, pythonVars
<1>10. (AnswersAreReplies /\ AnswerInv)'
  BY DEF ExecuteParallel, AnswersAreReplies, AnswerInv
<1>11. QED  BY <1>4, <1>5, <1>6, <1>7, <1>8, <1>9, <1>10 DEF IndInv

LEMMA JoinAllStep ==
    ASSUME IndInv, JoinAll
    PROVE  IndInv'
<1>1. \A b \in Batches, w \in Workers : own[b] # w
  BY PoolAssumption DEF IndInv, JoinAll, OwnInv, Holding, Actors
<1>2. TypeOK'
  BY DEF IndInv, JoinAll, TypeOK, pythonVars, callVars, Actors
<1>3. (HeldOnce /\ RoomKept)'
  BY DEF IndInv, JoinAll, HeldOnce, RoomKept, Pooled
<1>4. TaskInv'
  BY PoolAssumption DEF IndInv, JoinAll, TaskInv, TypeOK, Actors
<1>5. (OwnInv /\ HandInv)'
  BY DEF IndInv, JoinAll, OwnInv, HandInv, Holding, Actors, TypeOK
<1>6. PipeInv'
  BY <1>1, PipeFrame DEF IndInv, JoinAll
<1>7. CourierInv'
  BY <1>1 DEF IndInv, JoinAll, CourierInv, pythonVars, TypeOK
<1>8. (AnswersAreReplies /\ AnswerInv)'
  BY DEF IndInv, JoinAll, AnswersAreReplies, AnswerInv, pythonVars, callVars, TypeOK, Actors
<1>9. QED  BY <1>2, <1>3, <1>4, <1>5, <1>6, <1>7, <1>8 DEF IndInv

-----------------------------------------------------------------------------
(* The steps of a batch *)

LEMMA AcquireStep ==
    ASSUME IndInv, NEW b \in Batches, Acquire(b)
    PROVE  IndInv'
<1>1. PICK i \in DOMAIN pool :
        /\ Usable(pool[i])
        /\ Drop({pool[j] : j \in i + 1 .. Len(pool)})
        /\ pool' = SubSeq(pool, 1, i - 1)
        /\ own' = [own EXCEPT ![b] = pool[i]]
  BY DEF Acquire
<1> DEFINE w == pool[i]
           W == {pool[j] : j \in i + 1 .. Len(pool)}
<1>2. pool \in Seq(Workers) /\ i \in 1 .. Len(pool) /\ w \in Workers /\ W \subseteq Workers
  BY OwnTypes
<1>3. DropTo(W) /\ WorkerTypes'
  BY <1>1, <1>2, TypeParts, DropEffect DEF IndInv
<1>4. /\ pool' \in Seq(Workers) /\ Len(pool') = i - 1 /\ DOMAIN pool' = 1 .. i - 1
      /\ \A j \in 1 .. i - 1 : j \in DOMAIN pool /\ pool'[j] = pool[j] /\ pool[j] \in Workers
  BY <1>1, <1>2
<1>5. /\ \A j \in 1 .. i - 1 : pool[j] \notin W \cup {w}
      /\ w \notin W
      /\ \A a \in Actors : own[a] \notin W \cup {w}
  BY <1>2, PoolAssumption DEF IndInv, HeldOnce, Pooled
<1>6. b \in Actors /\ own[b] = NoWorker /\ pc[b] = "acquire"
  BY DEF Acquire, IndInv, OwnInv, Holding, Actors
<1>7. TypeOK'
  <2>1. own' \in [Actors -> Workers \cup {NoWorker}]
    BY <1>1, <1>2 DEF IndInv, TypeOK
  <2>2. QED  BY <1>3, <1>4, <2>1 DEF IndInv, Acquire, TypeOK, WorkerTypes, callVars, Actors
<1>8. HeldOnce'
  <2>1. \A j, k \in DOMAIN pool' : pool'[j] = pool'[k] => j = k
    BY <1>2, <1>4 DEF IndInv, HeldOnce
  <2>2. \A a \in Actors : own'[a] = IF a = b THEN w ELSE own[a]
    BY <1>1, OwnTypes
  <2>3. ASSUME NEW a \in Actors, NEW j \in DOMAIN pool', own'[a] # NoWorker
        PROVE  own'[a] # pool'[j]
    <3>1. pool'[j] = pool[j] /\ j \in DOMAIN pool /\ pool[j] # w
      BY <1>4, <1>5
    <3>2. a # b => own[a] # pool[j]
      BY <3>1, <2>2, <2>3 DEF IndInv, HeldOnce, Pooled
    <3>3. QED  BY <3>1, <3>2, <2>2
  <2>4. \A a, c \in Actors : own'[a] = own'[c] /\ own'[a] # NoWorker => a = c
    BY <2>2, <1>5 DEF IndInv, HeldOnce
  <2>5. QED  BY <2>1, <2>3, <2>4 DEF HeldOnce, Pooled
<1>9. RoomKept'
  <2>1. refill' = refill
    BY DEF Acquire
  <2>2. Len(pool) + refill <= Size
    BY DEF IndInv, RoomKept
  <2>3. refill \in Nat /\ Size \in Nat
    BY PoolAssumption DEF IndInv, TypeOK
  <2>4. Len(pool) \in Nat /\ Len(pool') \in Nat /\ Len(pool') < Len(pool)
    BY <1>2, <1>4
  <2>5. QED  BY <2>1, <2>2, <2>3, <2>4 DEF RoomKept
<1>10. (TaskInv /\ OwnInv)'
  BY <1>1, <1>2, <1>6, PoolAssumption DEF IndInv, Acquire, TaskInv, OwnInv, Holding, TypeOK, Actors
<1>11. HandInv'
  <2>1. \A j \in DOMAIN pool' : state'[pool'[j]] = "ready"
    <3>1. \A j \in 1 .. i - 1 : state'[pool[j]] = state[pool[j]]
      BY <1>3, <1>4, <1>5 DEF DropTo
    <3>2. QED  BY <1>4, <3>1 DEF IndInv, HandInv
  <2>2. state'[w] = "ready"
    BY <1>1, <1>2, <1>3, <1>5 DEF DropTo, Usable
  <2>3. \A a \in Actors : own[a] # NoWorker => state'[own[a]] = state[own[a]]
    BY <1>3, <1>5, OwnTypes DEF DropTo
  <2>4. \A a \in Actors : pc[a] \in Holding => own[a] # NoWorker
    BY DEF IndInv, OwnInv
  <2>5. pc' = [pc EXCEPT ![b] = "run"]
    BY DEF Acquire
  <2>6. QED
    BY <1>1, <1>6, <2>1, <2>2, <2>3, <2>4, <2>5, OwnTypes DEF IndInv, HandInv, Holding
<1>12. PipeInv'
  <2>1. \A v \in W : PipeOf(v)'
    BY <1>2, <1>3, PipeGone DEF DropTo
  <2>2. \A b2 : Finished(b2)' = Finished(b2)
    BY FinishedFrame DEF Acquire, callVars
  <2>3. \A v \in Workers, c \in Batches : own'[c] = v /\ state[v] = "busy" => own[c] = v
    BY <1>1, <1>2, <1>6 DEF IndInv, HandInv, TypeOK, Actors
  <2>4. replied' = replied
    BY DEF Acquire, callVars
  <2> HIDE DEF W
  <2>5. QED  BY <1>2, <1>3, <2>1, <2>2, <2>3, <2>4, PipeStep DEF IndInv, DropTo
<1>13. CourierInv'
  <2>1. \A v \in Workers : /\ serving'[v] = IF v \in W THEN NoBatch ELSE serving[v]
                           /\ stdin'[v] = IF v \in W THEN NoBatch ELSE stdin[v]
                           /\ proc'[v] = IF v \in W THEN "none" ELSE proc[v]
    BY <1>3 DEF DropTo
  <2>2. \A c \in Batches : c # b => own'[c] = own[c] /\ pc'[c] = pc[c]
    BY <1>1, OwnTypes DEF Acquire, Actors
  <2>3. QED  BY <2>1, <2>2, <1>6, PipeTypes DEF IndInv, CourierInv
<1>14. (AnswersAreReplies /\ AnswerInv)'
  <2>1. UNCHANGED <<split, outcome, progress, replied>>
    BY DEF Acquire, callVars
  <2>2. \A v \in Workers : serving'[v] \in {serving[v], NoBatch} /\ stdin'[v] \in {stdin[v], NoBatch}
    BY <1>3 DEF DropTo
  <2>3. split \in [Tests -> Batches]
    BY DEF IndInv, TypeOK
  <2>4. pc' = [pc EXCEPT ![b] = "run"]
    BY DEF Acquire
  <2>5. QED
    BY <2>1, <2>2, <2>3, <2>4, <1>6, OwnTypes, PoolAssumption DEF IndInv, AnswersAreReplies, AnswerInv, Actors
<1>15. QED  BY <1>7, <1>8, <1>9, <1>10, <1>11, <1>12, <1>13, <1>14 DEF IndInv

LEMMA AcquireNothingStep ==
    ASSUME IndInv, NEW b \in Batches, AcquireNothing(b)
    PROVE  IndInv'
<1> DEFINE W == {pool[j] : j \in DOMAIN pool}
<1>1. W \subseteq Workers
  BY OwnTypes
<1>2. DropTo(W) /\ WorkerTypes'
  BY <1>1, TypeParts, DropEffect DEF IndInv, AcquireNothing
<1>3. \A a \in Actors : own[a] \notin W
  BY <1>1, PoolAssumption DEF IndInv, HeldOnce, Pooled
<1>4. b \in Actors /\ own[b] = NoWorker /\ pc[b] = "acquire"
  BY DEF AcquireNothing, IndInv, OwnInv, Holding, Actors
<1>5. TypeOK'
  BY <1>2 DEF IndInv, AcquireNothing, TypeOK, WorkerTypes, callVars, Actors
<1>6. (HeldOnce /\ RoomKept)'
  BY PoolAssumption DEF IndInv, AcquireNothing, HeldOnce, Pooled, RoomKept, TypeOK
<1>7. (TaskInv /\ OwnInv)'
  BY <1>4, PoolAssumption, OwnTypes DEF IndInv, AcquireNothing, TaskInv, OwnInv, Holding, Actors
<1>8. HandInv'
  <2>1. \A a \in Actors : own[a] # NoWorker => state'[own[a]] = state[own[a]]
    BY <1>2, <1>3, OwnTypes DEF DropTo
  <2>2. \A a \in Actors : pc[a] \in Holding => own[a] # NoWorker
    BY DEF IndInv, OwnInv
  <2>3. QED
    BY <1>4, <2>1, <2>2, OwnTypes DEF AcquireNothing, IndInv, HandInv, Holding
<1>9. PipeInv'
  <2>1. \A v \in W : PipeOf(v)'
    BY <1>1, <1>2, PipeGone DEF DropTo
  <2>2. \A c : Finished(c)' = Finished(c)
    BY FinishedFrame DEF AcquireNothing, callVars
  <2>3. UNCHANGED <<own, replied>>
    BY DEF AcquireNothing, callVars
  <2> HIDE DEF W
  <2>4. QED  BY <1>1, <1>2, <2>1, <2>2, <2>3, PipeStep DEF IndInv, DropTo
<1>10. CourierInv'
  <2>1. \A v \in Workers : /\ proc'[v] = IF v \in W THEN "none" ELSE proc[v]
                           /\ serving'[v] = IF v \in W THEN NoBatch ELSE serving[v]
                           /\ stdin'[v] = IF v \in W THEN NoBatch ELSE stdin[v]
    BY <1>2 DEF DropTo
  <2>2. \A c \in Actors \ {b} : own'[c] = own[c] /\ pc'[c] = pc[c]
    BY OwnTypes DEF AcquireNothing
  <2>3. \A w \in Workers : stdin[w] # b /\ serving[w] # b
    BY <1>4, NotServed
  <2>4. \A w \in Workers : proc[w] = "running" <=> serving[w] # NoBatch
    BY DEF IndInv, CourierInv
  <2>5. b # NoBatch
    BY PoolAssumption
  <2> HIDE DEF W
  <2>6. QED  BY <1>4, <2>1, <2>2, <2>3, <2>4, <2>5, CourierKeep
<1>11. (AnswersAreReplies /\ AnswerInv)'
  <2>1. UNCHANGED <<split, outcome, progress, replied>> /\ pc' = [pc EXCEPT ![b] = "spawn"]
    BY DEF AcquireNothing, callVars
  <2>2. \A v \in Workers : serving'[v] \in {serving[v], NoBatch} /\ stdin'[v] \in {stdin[v], NoBatch}
    BY <1>2 DEF DropTo
  <2>3. split \in [Tests -> Batches]
    BY DEF IndInv, TypeOK
  <2>4. QED
    BY <2>1, <2>2, <2>3, <1>4, OwnTypes, PoolAssumption
       DEF IndInv, AnswersAreReplies, AnswerInv, Actors
<1>12. QED  BY <1>5, <1>6, <1>7, <1>8, <1>9, <1>10, <1>11 DEF IndInv

LEMMA SpawnTemporaryStep ==
    ASSUME IndInv, NEW b \in Batches, SpawnTemporary(b)
    PROVE  IndInv'
<1>1. PICK v \in Workers :
        state[v] = "gone" /\ StartProcess(v) /\ own' = [own EXCEPT ![b] = v]
  BY DEF SpawnTemporary
<1>2. b \in Actors /\ own[b] = NoWorker /\ pc[b] = "spawn" /\ pc' = [pc EXCEPT ![b] = "greet"]
  BY DEF SpawnTemporary, IndInv, OwnInv, Holding, Actors
<1>3. TypeOK'
  BY <1>1, <1>2, PoolAssumption DEF IndInv, SpawnTemporary, StartProcess, TypeOK, callVars
<1>4. (HeldOnce /\ HandInv)'
  BY <1>1, <1>2, HandTake DEF StartProcess, SpawnTemporary
<1>5. (RoomKept /\ TaskInv /\ OwnInv)'
  BY <1>1, <1>2, PoolAssumption, OwnTypes
     DEF IndInv, SpawnTemporary, RoomKept, TaskInv, OwnInv, Holding, Actors
<1>6. proc[v] = "none" /\ stdin[v] = NoBatch /\ serving[v] = NoBatch /\ stdout[v] = <<>>
  BY <1>1 DEF IndInv, PipeInv, PipeOf
<1>7. PipeInv'
  <2>1. PipeOf(v)'
    BY <1>1, <1>6, OwnTypes, TypeParts DEF StartProcess, PipeOf, Spawning, IndInv, WorkerTypes
  <2>2. \A c : Finished(c)' = Finished(c)
    BY FinishedFrame DEF SpawnTemporary, callVars
  <2>3. \A w \in Workers \ {v} :
           /\ state'[w] = state[w] /\ proc'[w] = proc[w]
           /\ serving'[w] = serving[w] /\ stdin'[w] = stdin[w] /\ stdout'[w] = stdout[w]
           /\ runCount'[w] = runCount[w] /\ pyRuns'[w] = pyRuns[w]
    BY <1>1 DEF StartProcess, IndInv, TypeOK
  <2>4. \A w \in Workers \ {v}, c \in Batches : own'[c] = w => own[c] = w
    BY <1>1, <1>2, OwnTypes DEF Actors
  <2>5. replied' = replied
    BY DEF SpawnTemporary, callVars
  <2>6. QED  BY <2>1, <2>2, <2>3, <2>4, <2>5, PipeLocal DEF IndInv
<1>8. CourierInv'
  <2>1. \A w \in Workers : /\ proc'[w] = IF w = v THEN "booting" ELSE proc[w]
                           /\ serving'[w] = serving[w] /\ stdin'[w] = stdin[w]
    BY <1>1 DEF StartProcess, IndInv, TypeOK
  <2>2. \A c \in Actors \ {b} : own'[c] = own[c] /\ pc'[c] = pc[c]
    BY <1>1, <1>2, OwnTypes
  <2>3. \A w \in Workers : stdin[w] # b /\ serving[w] # b
    BY <1>2, NotServed
  <2>4. \A w \in Workers : proc[w] = "running" <=> serving[w] # NoBatch
    BY DEF IndInv, CourierInv
  <2>5. QED  BY <1>2, <1>6, <2>1, <2>2, <2>3, <2>4, CourierKeep
<1>9. (AnswersAreReplies /\ AnswerInv)'
  <2>1. /\ UNCHANGED <<outcome, split, progress, replied, stdin, serving>>
        /\ \A c \in Batches : pc'[c] = IF c = b THEN "greet" ELSE pc[c]
    BY <1>1, <1>2, OwnTypes DEF SpawnTemporary, StartProcess, callVars, Actors
  <2>2. AnswersAreReplies'
    BY <2>1 DEF IndInv, AnswersAreReplies
  <2>3. \A t \in Tests : split[t] \in Batches
    BY DEF IndInv, TypeOK
  <2>4. AnswerInv'
    BY <1>2, <2>1, <2>3 DEF IndInv, AnswerInv
  <2>5. QED  BY <2>2, <2>4
<1>10. QED  BY <1>3, <1>4, <1>5, <1>7, <1>8, <1>9 DEF IndInv

LEMMA TemporaryReadyStep ==
    ASSUME IndInv, NEW b \in Batches, TemporaryReady(b)
    PROVE  IndInv'
<1> DEFINE w == own[b]
<1>1. b \in Actors /\ w # NoWorker /\ pc[b] = "greet" /\ pc' = [pc EXCEPT ![b] = "run"]
  BY DEF TemporaryReady, IndInv, OwnInv, Holding, Actors
<1>2. w \in Workers /\ state[w] = "spawning"
  BY <1>1, Mine DEF IndInv, HandInv
<1>3. Spawning(w)
  BY <1>2 DEF IndInv, PipeInv, PipeOf
<1>4. /\ stdout[w] = <<PlainLine("ready")>> /\ proc[w] # "booting"
      /\ stdout' = [stdout EXCEPT ![w] = Tail(stdout[w])]
      /\ state' = [state EXCEPT ![w] = "ready"]
  BY <1>3 DEF TemporaryReady, Greeted, Spawning
<1>5. TypeOK'
  <2>1. stdout' \in [Workers -> Seq(Line)]
    BY <1>2, <1>4, LineTypes DEF IndInv, TypeOK
  <2>2. QED  BY <1>1, <1>2, <1>4, <2>1 DEF IndInv, TemporaryReady, TypeOK, callVars
<1>6. (HeldOnce /\ RoomKept /\ TaskInv /\ OwnInv)'
  BY <1>1, PoolAssumption, OwnTypes
     DEF IndInv, TemporaryReady, HeldOnce, Pooled, RoomKept, TaskInv, OwnInv, Holding, Actors
<1>7. HandInv'
  BY <1>1, <1>2, <1>4, HandKeep, OwnTypes DEF TemporaryReady
<1>8. PipeInv'
  <2>1. stdout'[w] = <<>> /\ state'[w] = "ready"
    BY <1>2, <1>4 DEF IndInv, TypeOK
  <2>2. PipeOf(w)'
    BY <1>3, <1>4, <2>1, PoolAssumption DEF TemporaryReady, PipeOf, Spawning, InSync
  <2>3. \A c : Finished(c)' = Finished(c)
    BY FinishedFrame DEF TemporaryReady, callVars
  <2>4. QED
    BY <1>2, <1>4, <2>2, <2>3, PipeLocal DEF IndInv, TemporaryReady, callVars, TypeOK
<1>9. CourierInv'
  <2>1. \A v \in Workers : stdin[v] # b /\ serving[v] # b
    BY <1>1, NotServed
  <2>2. \A v \in Workers : proc[v] = "running" <=> serving[v] # NoBatch
    BY DEF IndInv, CourierInv
  <2>3. QED  BY <1>1, <2>1, <2>2, CourierKeep, OwnTypes DEF TemporaryReady
<1>10. (AnswersAreReplies /\ AnswerInv)'
  BY <1>1, OwnTypes DEF IndInv, TemporaryReady, AnswersAreReplies, AnswerInv, callVars
<1>11. QED  BY <1>5, <1>6, <1>7, <1>8, <1>9, <1>10 DEF IndInv

LEMMA SpawnRefusedStep ==
    ASSUME IndInv, NEW b \in Batches, SpawnRefused(b)
    PROVE  IndInv'
<1>1. b \in Actors /\ own[b] = NoWorker /\ pc[b] = "spawn" /\ pc' = [pc EXCEPT ![b] = "idle"]
  BY DEF SpawnRefused, IndInv, OwnInv, Holding, Actors
<1>2. TypeOK'
  BY <1>1 DEF IndInv, SpawnRefused, AnswerError, TypeOK, pythonVars
<1>3. (HeldOnce /\ RoomKept /\ TaskInv /\ OwnInv)'
  BY <1>1, PoolAssumption, OwnTypes
     DEF IndInv, SpawnRefused, HeldOnce, Pooled, RoomKept, TaskInv, OwnInv, Holding, Actors
<1>4. HandInv'
  BY <1>1, OwnTypes DEF IndInv, SpawnRefused, HandInv
<1>5. PipeInv'
  <2>1. \A c : Finished(c)' = Finished(c)
    BY FinishedFrame DEF SpawnRefused
  <2>2. QED  BY <2>1, PipeFrame DEF IndInv, SpawnRefused
<1>6. CourierInv'
  <2>1. \A v \in Workers : stdin[v] # b /\ serving[v] # b
    BY <1>1, NotServed
  <2>2. \A v \in Workers : proc[v] = "running" <=> serving[v] # NoBatch
    BY DEF IndInv, CourierInv
  <2>3. QED  BY <1>1, <2>1, <2>2, CourierKeep, OwnTypes DEF SpawnRefused, pythonVars
<1>7. (AnswersAreReplies /\ AnswerInv)'
  BY <1>1, OwnTypes DEF IndInv, SpawnRefused, AnswerError, AnswersAreReplies, AnswerInv, pythonVars, TypeOK
<1>8. QED  BY <1>2, <1>3, <1>4, <1>5, <1>6, <1>7 DEF IndInv

LEMMA TemporaryLostStep ==
    ASSUME IndInv, NEW b \in Batches, TemporaryLost(b)
    PROVE  IndInv'
<1>1. b \in Actors /\ own[b] # NoWorker /\ pc[b] = "greet" /\ pc' = [pc EXCEPT ![b] = "idle"]
  BY DEF TemporaryLost, IndInv, OwnInv, Holding, Actors
<1>2. PICK w \in Workers : w = own[b]
  BY <1>1, Mine
<1>3. DropTo({w}) /\ WorkerTypes'
  BY <1>2, TypeParts, DropEffect DEF IndInv, TemporaryLost
<1>4. own' = [own EXCEPT ![b] = NoWorker]
  BY DEF TemporaryLost
<1>5. TypeOK'
  <2>1. own' \in [Actors -> Workers \cup {NoWorker}]
    BY <1>4, OwnTypes
  <2>2. outcome' \in [Tests -> {"none", "reported", "missing", "error"}]
    BY DEF TemporaryLost, AnswerError, IndInv, TypeOK
  <2>3. pc' \in [Actors -> {"idle", "joining", "acquire", "spawn", "greet", "run", "read",
                           "release", "ensure", "refill"}]
    BY <1>1 DEF IndInv, TypeOK
  <2>4. UNCHANGED <<pool, lock, refill, split, progress, replied>>
    BY DEF TemporaryLost, AnswerError
  <2>5. QED
    BY <1>3, <2>1, <2>2, <2>3, <2>4 DEF IndInv, TypeOK, WorkerTypes
<1>6. (HandInv /\ HeldOnce)'
  <2>1. \A v \in Workers \ {own[b]} : state'[v] = state[v]
    BY <1>2, <1>3 DEF DropTo
  <2>2. "idle" \notin Holding /\ pool' = pool
    BY DEF Holding, TemporaryLost
  <2>3. QED  BY <1>1, <1>4, <2>1, <2>2, HandFree
<1>7. (RoomKept /\ TaskInv /\ OwnInv)'
  BY <1>1, <1>4, PoolAssumption, OwnTypes
     DEF IndInv, TemporaryLost, RoomKept, TaskInv, OwnInv, Holding, Actors
<1>8. PipeInv'
  <2>1. PipeOf(w)'
    <3>1. /\ state'[w] = "gone" /\ proc'[w] = "none"
          /\ serving'[w] = NoBatch /\ stdin'[w] = NoBatch /\ stdout'[w] = <<>>
      BY <1>3 DEF DropTo
    <3>2. QED  BY <3>1, PipeGone
  <2>2. \A c : Finished(c)' = Finished(c)
    BY FinishedFrame DEF TemporaryLost
  <2>3. \A v \in Workers, c \in Batches : own'[c] = v => own[c] = v
    BY <1>4, <1>1, PoolAssumption, OwnTypes DEF Actors
  <2>4. replied' = replied /\ PipeInv
    BY DEF TemporaryLost, IndInv
  <2>5. \A v \in Workers \ {w} :
           /\ state'[v] = state[v] /\ proc'[v] = proc[v]
           /\ serving'[v] = serving[v] /\ stdin'[v] = stdin[v] /\ stdout'[v] = stdout[v]
           /\ runCount'[v] = runCount[v] /\ pyRuns'[v] = pyRuns[v]
    BY <1>3 DEF DropTo
  <2>6. QED  BY <2>1, <2>2, <2>3, <2>4, <2>5, PipeLocal
<1>9. CourierInv'
  <2>1. \A v \in Workers : stdin[v] # b /\ serving[v] # b
    BY <1>1, NotServed
  <2>2. \A v \in Workers : proc[v] = "running" <=> serving[v] # NoBatch
    BY DEF IndInv, CourierInv
  <2>3. \A v \in Workers : /\ proc'[v] = IF v = w THEN "none" ELSE proc[v]
                           /\ serving'[v] = IF v = w THEN NoBatch ELSE serving[v]
                           /\ stdin'[v] = IF v = w THEN NoBatch ELSE stdin[v]
    BY <1>3 DEF DropTo
  <2>4. b # NoBatch
    BY PoolAssumption
  <2>5. \A c \in Actors \ {b} : own'[c] = own[c] /\ pc'[c] = pc[c]
    BY <1>1, <1>4, OwnTypes
  <2>6. QED  BY <1>1, <2>1, <2>2, <2>3, <2>4, <2>5, CourierKeep
<1>10. (AnswersAreReplies /\ AnswerInv)'
  <2>1. \A v \in Workers : serving'[v] \in {serving[v], NoBatch} /\ stdin'[v] \in {stdin[v], NoBatch}
    BY <1>3 DEF DropTo
  <2>2. split \in [Tests -> Batches] /\ outcome' = [t \in Tests |-> IF split[t] = b THEN "error" ELSE outcome[t]]
    BY DEF IndInv, TypeOK, TemporaryLost, AnswerError
  <2>3. QED
    BY <1>1, <2>1, <2>2, PoolAssumption, OwnTypes
       DEF IndInv, TemporaryLost, AnswersAreReplies, AnswerInv, Actors
<1>11. QED  BY <1>5, <1>6, <1>7, <1>8, <1>9, <1>10 DEF IndInv

LEMMA SendStep ==
    ASSUME IndInv, NEW b \in Batches, Send(b)
    PROVE  IndInv'
<1>1. b \in Actors /\ own[b] # NoWorker /\ pc[b] = "run" /\ pc' = [pc EXCEPT ![b] = "read"]
  BY DEF Send, IndInv, OwnInv, Holding, Actors
<1>2. PICK w \in Workers :
        /\ w = own[b] /\ state[w] = "ready"
        /\ state' = [state EXCEPT ![w] = "busy"] /\ stdin' = [stdin EXCEPT ![w] = b]
  BY <1>1, Mine DEF Send
<1>3. InSync(w) /\ proc[w] # "booting"
  BY <1>2 DEF IndInv, PipeInv, PipeOf
<1>4. TypeOK'
  BY <1>1, <1>2 DEF IndInv, Send, TypeOK, callVars
<1>5. (HeldOnce /\ RoomKept /\ TaskInv /\ OwnInv)'
  BY <1>1, PoolAssumption, OwnTypes
     DEF IndInv, Send, HeldOnce, Pooled, RoomKept, TaskInv, OwnInv, Holding, Actors
<1>6. HandInv'
  BY <1>1, <1>2, HandKeep, OwnTypes DEF Send
<1>7. PipeInv'
  <2>1. state'[w] = "busy" /\ \A c \in Batches : own'[c] = w => c = b
    BY <1>1, <1>2, OwnTypes, Mine DEF Send, Actors
  <2>2. Busy(w, b)'
    BY <1>3 DEF Send, Busy, InSync
  <2>3. PipeOf(w)'
    BY <2>1, <2>2 DEF PipeOf
  <2>4. \A c : Finished(c)' = Finished(c)
    BY FinishedFrame DEF Send, callVars
  <2>5. QED
    BY <1>2, <2>3, <2>4, PipeLocal, PipeTypes, OwnTypes DEF IndInv, Send, callVars, TypeOK
<1>8. CourierInv'
  <2>1. \A v \in Workers : stdin'[v] = IF v = w THEN b ELSE stdin[v]
    BY <1>2 DEF IndInv, TypeOK
  <2>2. UNCHANGED <<own, proc, serving>>
    BY DEF Send
  <2>3. \A v \in Workers : stdin[v] # b /\ serving[v] # b
    BY <1>1, NotServed
  <2>4. \A c \in Actors : pc'[c] = IF c = b THEN "read" ELSE pc[c]
    BY <1>1, OwnTypes
  <2>5. CourierInv /\ own[b] = w
    BY <1>2 DEF IndInv
  <2>6. \A v \in Workers : stdin'[v] # NoBatch => own'[stdin'[v]] = v /\ pc'[stdin'[v]] \in {"read", "release"}
    BY <1>1, <2>1, <2>2, <2>3, <2>4, <2>5, PipeTypes DEF CourierInv, Actors
  <2>7. \A v \in Workers : serving'[v] # NoBatch => own'[serving'[v]] = v /\ pc'[serving'[v]] \in {"read", "release"}
    BY <1>1, <2>2, <2>3, <2>4, <2>5, PipeTypes DEF CourierInv, Actors
  <2>8. QED  BY <2>2, <2>5, <2>6, <2>7 DEF CourierInv
<1>9. (AnswersAreReplies /\ AnswerInv)'
  <2>1. \A v \in Workers : stdin'[v] = IF v = w THEN b ELSE stdin[v]
    BY <1>2 DEF IndInv, TypeOK
  <2>2. UNCHANGED <<split, outcome, progress, replied, serving>>
    BY DEF Send, callVars
  <2>3. QED  BY <1>1, <2>1, <2>2, OwnTypes DEF IndInv, AnswersAreReplies, AnswerInv
<1>10. QED  BY <1>4, <1>5, <1>6, <1>7, <1>8, <1>9 DEF IndInv


LEMMA TailOfOne ==
    ASSUME NEW S, NEW s \in Seq(S), Len(s) = 1
    PROVE  Tail(s) = <<>>
<1>1. Tail(s) \in Seq(S) /\ Len(Tail(s)) = 0
  OBVIOUS
<1>2. QED  BY <1>1, EmptySeq

LEMMA SendFailsStep ==
    ASSUME IndInv, NEW b \in Batches, SendFails(b)
    PROVE  IndInv'
<1>1. b \in Actors /\ own[b] # NoWorker /\ pc[b] = "run" /\ pc' = [pc EXCEPT ![b] = "release"]
  BY DEF SendFails, IndInv, OwnInv, Holding, Actors
<1>2. PICK w \in Workers : w = own[b] /\ state' = [state EXCEPT ![w] = "recycling"]
  BY <1>1, Mine DEF SendFails
<1>3. TypeOK'
  BY <1>1, <1>2 DEF IndInv, SendFails, AnswerError, TypeOK, pythonVars
<1>4. (HeldOnce /\ RoomKept /\ TaskInv /\ OwnInv)'
  BY <1>1, PoolAssumption, OwnTypes
     DEF IndInv, SendFails, HeldOnce, Pooled, RoomKept, TaskInv, OwnInv, Holding, Actors
<1>5. HandInv'
  BY <1>1, <1>2, HandKeep, OwnTypes DEF SendFails
<1>6. PipeInv'
  <2>1. PipeOf(w)'
    BY <1>2, PipeGone, OwnTypes
  <2>2. \A c : Finished(c)' = Finished(c)
    BY FinishedFrame DEF SendFails
  <2>3. QED
    BY <1>2, <2>1, <2>2, PipeLocal, OwnTypes DEF IndInv, SendFails, pythonVars
<1>7. CourierInv'
  <2>1. \A v \in Workers : stdin[v] # b /\ serving[v] # b
    BY <1>1, NotServed
  <2>2. \A v \in Workers : proc[v] = "running" <=> serving[v] # NoBatch
    BY DEF IndInv, CourierInv
  <2>3. QED  BY <1>1, <2>1, <2>2, CourierKeep, OwnTypes DEF SendFails, pythonVars
<1>8. (AnswersAreReplies /\ AnswerInv)'
  BY <1>1, OwnTypes DEF IndInv, SendFails, AnswerError, AnswersAreReplies, AnswerInv, pythonVars, TypeOK
<1>9. QED  BY <1>3, <1>4, <1>5, <1>6, <1>7, <1>8 DEF IndInv

LEMMA ReadFailsStep ==
    ASSUME IndInv, NEW b \in Batches, ReadFails(b)
    PROVE  IndInv'
<1>1. b \in Actors /\ own[b] # NoWorker /\ pc[b] = "read" /\ pc' = [pc EXCEPT ![b] = "release"]
  BY DEF ReadFails, IndInv, OwnInv, Holding, Actors
<1>2. PICK w \in Workers : w = own[b] /\ state' = [state EXCEPT ![w] = "recycling"]
  BY <1>1, Mine DEF ReadFails
<1>3. TypeOK'
  BY <1>1, <1>2 DEF IndInv, ReadFails, AnswerError, TypeOK, pythonVars
<1>4. (HeldOnce /\ RoomKept /\ TaskInv /\ OwnInv)'
  BY <1>1, PoolAssumption, OwnTypes
     DEF IndInv, ReadFails, HeldOnce, Pooled, RoomKept, TaskInv, OwnInv, Holding, Actors
<1>5. HandInv'
  BY <1>1, <1>2, HandKeep, OwnTypes DEF ReadFails
<1>6. PipeInv'
  <2>1. PipeOf(w)'
    BY <1>2, PipeGone, OwnTypes
  <2>2. \A c : Finished(c)' = Finished(c)
    BY FinishedFrame DEF ReadFails
  <2>3. QED
    BY <1>2, <2>1, <2>2, PipeLocal, OwnTypes DEF IndInv, ReadFails, pythonVars
<1>7. CourierInv'
  <2>1. \A c \in Actors : pc'[c] = IF c = b THEN "release" ELSE pc[c]
    BY <1>1, OwnTypes
  <2>2. UNCHANGED <<own, proc, serving, stdin>>
    BY DEF ReadFails, pythonVars
  <2>3. QED  BY <1>1, <2>1, <2>2, PipeTypes DEF IndInv, CourierInv, Actors
<1>8. (AnswersAreReplies /\ AnswerInv)'
  <2>1. UNCHANGED <<split, progress, replied, serving, stdin>>
    BY DEF ReadFails, pythonVars
  <2>2. \A t \in Tests : outcome'[t] = IF split[t] = b THEN "error" ELSE outcome[t]
    BY DEF ReadFails, AnswerError
  <2>3. QED  BY <1>1, <2>1, <2>2, OwnTypes DEF IndInv, AnswersAreReplies, AnswerInv
<1>9. QED  BY <1>3, <1>4, <1>5, <1>6, <1>7, <1>8 DEF IndInv

LEMMA ReadLineStep ==
    ASSUME IndInv, NEW b \in Batches, ReadLine(b)
    PROVE  IndInv'
<1> DEFINE line == Head(stdout[own[b]])
<1>1. b \in Actors /\ own[b] # NoWorker /\ pc[b] = "read" /\ pc' = [pc EXCEPT ![b] = "release"]
  BY DEF ReadLine, IndInv, OwnInv, Holding, Actors
<1>2. PICK w \in Workers : w = own[b]
  BY <1>1, Mine
<1>3. Busy(w, b) /\ stdout[w] # <<>> /\ stdout[w] \in Seq(Line) /\ runCount[w] \in 0 .. MaxRuns
  BY <1>1, <1>2 DEF ReadLine, IndInv, TypeOK, HandInv, PipeInv, PipeOf
<1>4. /\ line.status \in {"error", "done"}
      /\ proc[w] # "booting" /\ stdin[w] = NoBatch /\ serving[w] = NoBatch
      /\ line.status = "done" =>
            /\ line.results = Finished(b) /\ b \in replied
            /\ pyRuns[w] = runCount[w] + 1
            /\ pyRuns[w] < MaxRuns => Len(stdout[w]) = 1
  BY <1>2, <1>3 DEF Busy
<1>5. PICK runs :
        /\ runs = IF line.status = "error" THEN runCount[w] ELSE runCount[w] + 1
        /\ runCount' = [runCount EXCEPT ![w] = runs]
        /\ state' = [state EXCEPT ![w] =
                        IF line.status = "error" \/ NeedsRecycle(runs)
                        THEN "recycling" ELSE "ready"]
        /\ stdout' = [stdout EXCEPT ![w] = Tail(stdout[w])]
  BY <1>2 DEF ReadLine
<1>6. runs \in 0 .. MaxRuns
  BY <1>3, <1>5, PoolAssumption DEF Busy
<1>7. UNCHANGED <<pool, lock, refill, own, proc, pyRuns, serving, stdin, split, progress, replied>>
  BY DEF ReadLine
<1>8. \A t \in Tests : outcome'[t] =
          IF split[t] # b THEN outcome[t]
          ELSE IF line.status = "error" THEN "error"
          ELSE IF t \in line.results THEN "reported" ELSE "missing"
  BY DEF ReadLine, AnswerError, AnswerWith
<1>9. TypeOK'
  <2>1. stdout' \in [Workers -> Seq(Line)]
    BY <1>3, <1>5 DEF IndInv, TypeOK
  <2>2. outcome' \in [Tests -> {"none", "reported", "missing", "error"}]
    <3>1. outcome' = [t \in Tests |-> outcome'[t]]
      BY DEF ReadLine, AnswerError, AnswerWith
    <3>2. \A t \in Tests : outcome'[t] \in {"none", "reported", "missing", "error"}
      BY <1>8 DEF IndInv, TypeOK
    <3>3. QED  BY <3>1, <3>2
  <2>3. /\ runCount' \in [Workers -> 0 .. MaxRuns]
        /\ state' \in [Workers -> {"gone", "spawning", "ready", "busy", "recycling"}]
    BY <1>5, <1>6 DEF IndInv, TypeOK
  <2>4. QED  BY <1>1, <1>7, <2>1, <2>2, <2>3 DEF IndInv, TypeOK
<1>10. (HeldOnce /\ RoomKept /\ TaskInv /\ OwnInv)'
  BY <1>1, <1>7, PoolAssumption, OwnTypes
     DEF IndInv, HeldOnce, Pooled, RoomKept, TaskInv, OwnInv, Holding, Actors
<1>11. HandInv'
  <2>1. state'[w] \in {"ready", "recycling"} /\ \A v \in Workers \ {w} : state'[v] = state[v]
    BY <1>5, OwnTypes
  <2>2. QED  BY <1>1, <1>2, <1>7, <2>1, HandKeep, OwnTypes
<1>12. PipeInv'
  <2>1. state'[w] = "ready" => InSync(w)'
    <3>1. SUFFICES ASSUME state'[w] = "ready"  PROVE InSync(w)'
      OBVIOUS
    <3>2. line.status = "done" /\ runs < MaxRuns
      BY <1>4, <1>5, <1>6, <3>1, OwnTypes, PoolAssumption DEF NeedsRecycle
    <3>3. runCount'[w] = pyRuns[w] /\ runCount'[w] < MaxRuns
      BY <1>4, <1>5, <3>2 DEF IndInv, TypeOK
    <3>4. Len(stdout[w]) = 1
      BY <1>4, <1>5, <3>2
    <3>5. stdout'[w] = <<>>
      <4>1. stdout'[w] = Tail(stdout[w])
        BY <1>5 DEF IndInv, TypeOK
      <4>2. QED  BY <1>3, <3>4, <4>1, TailOfOne
    <3>6. QED  BY <1>4, <1>7, <3>1, <3>3, <3>5 DEF InSync
  <2>2. PipeOf(w)'
    BY <1>4, <1>5, <1>7, <2>1, OwnTypes DEF PipeOf
  <2>3. \A c : Finished(c)' = Finished(c)
    BY <1>7, FinishedFrame
  <2>4. QED
    BY <1>5, <1>7, <2>2, <2>3, PipeLocal DEF IndInv, TypeOK
<1>13. CourierInv'
  <2>1. \A c \in Actors : pc'[c] = IF c = b THEN "release" ELSE pc[c]
    BY <1>1, OwnTypes
  <2>2. QED  BY <1>1, <1>7, <2>1, PipeTypes DEF IndInv, CourierInv, Actors
<1>14. \A v \in Workers : stdin[v] # b /\ serving[v] # b
  BY <1>2, <1>4, PoolAssumption, PipeTypes DEF IndInv, CourierInv
<1>15. AnswersAreReplies'
  BY <1>4, <1>7, <1>8 DEF IndInv, AnswersAreReplies, Finished, TestsOf
<1>16. AnswerInv'
  <2>1. \A c \in Actors : pc'[c] = IF c = b THEN "release" ELSE pc[c]
    BY <1>1, OwnTypes
  <2>2. split \in [Tests -> Batches] /\ AnswerInv
    BY DEF IndInv, TypeOK
  <2>3. QED  BY <1>7, <1>8, <1>14, <2>1, <2>2 DEF AnswerInv, Actors
<1>17. QED  BY <1>9, <1>10, <1>11, <1>12, <1>13, <1>15, <1>16 DEF IndInv

\* A task puts its worker into the pool.
LEMMA PoolGrows ==
    ASSUME IndInv, NEW a \in Actors, own[a] # NoWorker,
           pool' = Append(pool, own[a]), own' = [own EXCEPT ![a] = NoWorker]
    PROVE  /\ pool' \in Seq(Workers) /\ Len(pool') = Len(pool) + 1
           /\ DOMAIN pool' = 1 .. Len(pool) + 1 /\ DOMAIN pool = 1 .. Len(pool)
           /\ pool'[Len(pool) + 1] = own[a]
           /\ \A i \in DOMAIN pool : pool'[i] = pool[i]
           /\ HeldOnce'
<1>1. own[a] \in Workers /\ pool \in Seq(Workers)
  BY Mine, OwnTypes
<1>2. /\ pool' \in Seq(Workers) /\ Len(pool') = Len(pool) + 1
      /\ DOMAIN pool' = 1 .. Len(pool) + 1 /\ DOMAIN pool = 1 .. Len(pool)
      /\ pool'[Len(pool) + 1] = own[a]
      /\ \A i \in DOMAIN pool : pool'[i] = pool[i]
      /\ Len(pool) \in Nat
  BY <1>1
<1>3. \A i \in DOMAIN pool' : i \in DOMAIN pool \/ i = Len(pool) + 1
  BY <1>2
<1>4. \A i \in DOMAIN pool : pool[i] # own[a] /\ i # Len(pool) + 1
  BY <1>2, Mine
<1>5. \A i, j \in DOMAIN pool' : pool'[i] = pool'[j] => i = j
  BY <1>2, <1>3, <1>4 DEF IndInv, HeldOnce
<1>6. \A c \in Actors : own'[c] = IF c = a THEN NoWorker ELSE own[c]
  BY OwnTypes
<1>7. \A c \in Actors, i \in DOMAIN pool' : own'[c] # NoWorker => own'[c] # pool'[i]
  <2>1. \A c \in Actors \ {a}, i \in DOMAIN pool : own[c] # NoWorker => own[c] # pool[i]
    BY DEF IndInv, HeldOnce, Pooled
  <2>2. \A c \in Actors \ {a} : own[c] # own[a]
    BY Mine
  <2>3. QED  BY <1>2, <1>3, <1>6, <2>1, <2>2
<1>8. \A c, d \in Actors : own'[c] = own'[d] /\ own'[c] # NoWorker => c = d
  BY <1>6 DEF IndInv, HeldOnce
<1>9. QED  BY <1>2, <1>5, <1>7, <1>8 DEF HeldOnce, Pooled

LEMMA HandGive ==
    ASSUME IndInv, NEW a \in Actors, own[a] # NoWorker,
           pool' = Append(pool, own[a]), own' = [own EXCEPT ![a] = NoWorker],
           NEW p, p \notin Holding, pc' = [pc EXCEPT ![a] = p],
           \A w \in Workers \ {own[a]} : state'[w] = state[w],
           state'[own[a]] = "ready"
    PROVE  HandInv'
<1>1. \A i \in DOMAIN pool : state'[pool[i]] = state[pool[i]]
  BY Mine
<1>2. \A c \in Actors : c # a /\ own[c] # NoWorker => state'[own[c]] = state[own[c]]
  BY Mine, OwnTypes
<1>3. \A c \in Actors : pc[c] \in Holding => own[c] # NoWorker
  BY DEF IndInv, OwnInv
<1>4. \A c \in Actors : own'[c] = IF c = a THEN NoWorker ELSE own[c]
  BY OwnTypes
<1>5. \A i \in DOMAIN pool' : state'[pool'[i]] = "ready"
  <2>1. \A i \in DOMAIN pool : state[pool[i]] = "ready"
    BY DEF IndInv, HandInv
  <2>2. pool \in Seq(Workers)
    BY OwnTypes
  <2>3. \A i \in DOMAIN pool' : i \in DOMAIN pool \/ i = Len(pool) + 1
    BY <2>2
  <2>4. QED  BY <1>1, <2>1, <2>3, PoolGrows
<1>6. \A c \in Actors : pc'[c] = IF c = a THEN p ELSE pc[c]
  BY OwnTypes
<1>7. QED  BY <1>2, <1>3, <1>4, <1>5, <1>6 DEF IndInv, HandInv, Holding

LEMMA ReleaseStep ==
    ASSUME IndInv, NEW b \in Batches, Release(b)
    PROVE  IndInv'
<1>1. b \in Actors /\ own[b] # NoWorker /\ pc[b] = "release" /\ pc' = [pc EXCEPT ![b] = "ensure"]
  BY DEF Release, IndInv, OwnInv, Holding, Actors
<1>2. PICK w \in Workers : w = own[b] /\ state[w] \in {"ready", "recycling"}
  BY <1>1, Mine DEF IndInv, HandInv
<1>3. /\ own' = [own EXCEPT ![b] = NoWorker]
      /\ UNCHANGED <<lock, refill, split, outcome, progress, replied>>
      /\ "ensure" \notin Holding
  BY DEF Release, Holding, callVars
<1>4. /\ own' \in [Actors -> Workers \cup {NoWorker}]
      /\ \A c \in Actors : own'[c] = IF c = b THEN NoWorker ELSE own[c]
      /\ \A c \in Actors : pc'[c] = IF c = b THEN "ensure" ELSE pc[c]
  BY <1>1, <1>3, OwnTypes
<1>5. (TaskInv /\ OwnInv)'
  BY <1>1, <1>3, <1>4, PoolAssumption DEF IndInv, TaskInv, OwnInv, Holding, Actors
<1>6. \A c : Finished(c)' = Finished(c)
  BY <1>3, FinishedFrame
<1>7. \A v \in Workers, c \in Batches : own'[c] = v => own[c] = v
  BY <1>4, PoolAssumption DEF Actors
<1>8. \A v \in Workers \ {w} : stdin[v] # b /\ serving[v] # b
  BY <1>2, PipeTypes, PoolAssumption DEF IndInv, CourierInv
<1>9. split \in [Tests -> Batches] /\ \A c \in Batches : c \in Actors
  BY DEF IndInv, TypeOK, Actors
<1>10. CASE state[w] = "ready" /\ Len(pool) < Size
  <2>1. /\ pool' = Append(pool, own[b]) /\ lock = Nobody
        /\ UNCHANGED <<state, runCount, pythonVars>>
    BY <1>2, <1>10 DEF Release
  <2>2. HeldOnce' /\ pool' \in Seq(Workers) /\ Len(pool') = Len(pool) + 1
    BY <1>1, <1>3, <2>1, PoolGrows
  <2>3. TypeOK'
    BY <1>1, <1>3, <1>4, <2>1, <2>2 DEF IndInv, TypeOK, pythonVars
  <2>4. RoomKept'
    BY <1>3, <1>10, <2>1, <2>2, OwnTypes, PoolAssumption DEF IndInv, RoomKept, TaskInv
  <2>5. HandInv'
    BY <1>1, <1>2, <1>3, <1>10, <2>1, HandGive
  <2>6. PipeInv'
    BY <1>3, <1>6, <1>7, <2>1, PipeFrame DEF IndInv
  <2>7. InSync(w)
    BY <1>10 DEF IndInv, PipeInv, PipeOf
  <2>8. CourierInv'
    <3>1. \A v \in Workers : stdin[v] # b /\ serving[v] # b
      BY <1>8, <2>7, PoolAssumption DEF InSync
    <3>2. \A v \in Workers : proc[v] = "running" <=> serving[v] # NoBatch
      BY DEF IndInv, CourierInv
    <3>3. QED  BY <1>1, <1>4, <2>1, <3>1, <3>2, CourierKeep DEF pythonVars
  <2>9. (AnswersAreReplies /\ AnswerInv)'
    BY <1>3, <1>4, <1>9, <2>1 DEF IndInv, AnswersAreReplies, AnswerInv, pythonVars
  <2>10. QED  BY <1>5, <2>2, <2>3, <2>4, <2>5, <2>6, <2>8, <2>9 DEF IndInv
<1>11. CASE ~(state[w] = "ready" /\ Len(pool) < Size)
  <2>1. DropTo({w}) /\ WorkerTypes' /\ pool' = pool
    BY <1>2, <1>11, TypeParts, DropEffect DEF IndInv, Release
  <2>2. \A v \in Workers \ {w} :
           /\ state'[v] = state[v] /\ proc'[v] = proc[v]
           /\ serving'[v] = serving[v] /\ stdin'[v] = stdin[v] /\ stdout'[v] = stdout[v]
           /\ runCount'[v] = runCount[v] /\ pyRuns'[v] = pyRuns[v]
    BY <2>1 DEF DropTo
  <2>3. /\ state'[w] = "gone" /\ proc'[w] = "none"
        /\ serving'[w] = NoBatch /\ stdin'[w] = NoBatch /\ stdout'[w] = <<>>
    BY <2>1 DEF DropTo
  <2>4. TypeOK'
    BY <1>1, <1>3, <1>4, <2>1 DEF IndInv, TypeOK, WorkerTypes
  <2>5. (HandInv /\ HeldOnce)'
    BY <1>1, <1>2, <1>3, <2>1, <2>2, HandFree
  <2>6. RoomKept'
    BY <1>3, <2>1 DEF IndInv, RoomKept
  <2>7. PipeInv'
    <3>1. PipeOf(w)'
      BY <2>3, PipeGone
    <3>2. QED  BY <1>3, <1>6, <1>7, <2>2, <3>1, PipeLocal DEF IndInv
  <2>8. CourierInv'
    <3>1. \A v \in Workers : proc[v] = "running" <=> serving[v] # NoBatch
      BY DEF IndInv, CourierInv
    <3>2. \A v \in Workers : /\ proc'[v] = IF v = w THEN "none" ELSE proc[v]
                             /\ serving'[v] = IF v = w THEN NoBatch ELSE serving[v]
                             /\ stdin'[v] = IF v = w THEN NoBatch ELSE stdin[v]
      BY <2>2, <2>3
    <3>3. b # NoBatch
      BY PoolAssumption
    <3>4. \A v \in Workers : stdin'[v] # b /\ serving'[v] # b
      BY <1>8, <3>2, <3>3
    <3>5. QED  BY <1>1, <1>4, <3>1, <3>2, <3>4, CourierKeep
  <2>9. (AnswersAreReplies /\ AnswerInv)'
    <3>1. \A v \in Workers : serving'[v] \in {serving[v], NoBatch} /\ stdin'[v] \in {stdin[v], NoBatch}
      BY <2>2, <2>3
    <3>2. QED
      BY <1>3, <1>4, <1>9, <3>1, PoolAssumption DEF IndInv, AnswersAreReplies, AnswerInv
  <2>10. QED  BY <1>5, <2>4, <2>5, <2>6, <2>7, <2>8, <2>9 DEF IndInv
<1>12. QED  BY <1>10, <1>11

-----------------------------------------------------------------------------
(* The steps of ensure_workers *)

\* They make no answer, and no request.
LEMMA AnswerKeep ==
    ASSUME IndInv, NEW a \in Actors, UNCHANGED callVars,
           NEW p \in {"refill", "idle"}, pc' = [pc EXCEPT ![a] = p],
           \A w \in Workers : /\ stdin'[w] \in {stdin[w], NoBatch}
                              /\ serving'[w] \in {serving[w], NoBatch}
    PROVE  (AnswersAreReplies /\ AnswerInv)'
<1>1. \A c \in Actors : pc'[c] = IF c = a THEN p ELSE pc[c]
  BY OwnTypes
<1>2. split \in [Tests -> Batches] /\ UNCHANGED <<split, outcome, progress, replied>>
  BY DEF IndInv, TypeOK, callVars
<1>3. QED  BY <1>1, <1>2, PoolAssumption DEF IndInv, AnswersAreReplies, AnswerInv, Actors

LEMMA PcStays ==
    ASSUME IndInv, NEW a \in Actors, UNCHANGED pc
    PROVE  pc' = [pc EXCEPT ![a] = pc[a]]
  BY DEF IndInv, TypeOK

LEMMA EnsureBeginStep ==
    ASSUME IndInv, NEW a \in Actors, EnsureBegin(a)
    PROVE  IndInv'
<1>1. /\ pc[a] = "ensure" /\ pc' = [pc EXCEPT ![a] = "refill"]
      /\ lock = Nobody /\ lock' = a /\ refill' = Missing
      /\ UNCHANGED <<pool, own, state, runCount, pythonVars, callVars>>
  BY DEF EnsureBegin
<1>2. own[a] = NoWorker
  BY <1>1 DEF IndInv, OwnInv, Holding
<1>3. /\ \A c \in Actors : pc'[c] = IF c = a THEN "refill" ELSE pc[c]
      /\ UNCHANGED <<proc, serving, stdin>>
  BY <1>1, OwnTypes DEF pythonVars
<1>4. Len(pool) \in Nat /\ Len(pool) <= Size /\ Size \in Nat
  <2>1. refill \in Nat /\ Size \in Nat
    BY PoolAssumption DEF IndInv, TypeOK
  <2>2. Len(pool) + refill <= Size /\ Len(pool) \in Nat
    BY OwnTypes DEF IndInv, RoomKept
  <2>3. QED  BY <2>1, <2>2
<1>5. refill' \in 0 .. Size /\ Len(pool) + refill' <= Size
  BY <1>1, <1>4 DEF Missing
<1>6. TypeOK'
  BY <1>1, <1>5 DEF IndInv, TypeOK, pythonVars, callVars
<1>7. (HeldOnce /\ RoomKept)'
  BY <1>1, <1>5 DEF IndInv, HeldOnce, Pooled, RoomKept
<1>8. TaskInv'
  BY <1>1, <1>3, PoolAssumption DEF IndInv, TaskInv, Actors
<1>9. (OwnInv /\ HandInv)'
  <2>1. OwnInv'
    BY <1>1, <1>2, <1>3 DEF IndInv, OwnInv, TaskInv, Holding
  <2>2. HandInv'
    BY <1>1, <1>2, <1>3 DEF IndInv, HandInv
  <2>3. QED  BY <2>1, <2>2
<1>10. PipeInv'
  <2>1. \A c : Finished(c)' = Finished(c)
    BY <1>1, FinishedFrame DEF callVars
  <2>2. QED  BY <1>1, <2>1, PipeFrame DEF IndInv, callVars
<1>11. CourierInv'
  BY <1>1, <1>3, PipeTypes DEF IndInv, CourierInv, Actors
<1>12. (AnswersAreReplies /\ AnswerInv)'
  BY <1>1, <1>3, AnswerKeep
<1>13. QED  BY <1>6, <1>7, <1>8, <1>9, <1>10, <1>11, <1>12 DEF IndInv

LEMMA RefillSpawnStep ==
    ASSUME IndInv, NEW a \in Actors, RefillSpawn(a)
    PROVE  IndInv'
<1>1. PICK v \in Workers :
        state[v] = "gone" /\ StartProcess(v) /\ own' = [own EXCEPT ![a] = v]
  BY DEF RefillSpawn
<1>2. /\ own[a] = NoWorker /\ pc[a] = "refill" /\ refill > 0
      /\ UNCHANGED <<pool, lock, refill, pc, callVars>>
      /\ pc' = [pc EXCEPT ![a] = "refill"]
  BY PcStays DEF RefillSpawn
<1>3. TypeOK'
  <2>1. own' \in [Actors -> Workers \cup {NoWorker}]
    BY <1>1, OwnTypes
  <2>2. WorkerTypes'
    BY <1>1, TypeParts, PoolAssumption DEF IndInv, StartProcess, WorkerTypes
  <2>3. QED  BY <1>2, <2>1, <2>2 DEF IndInv, TypeOK, WorkerTypes, callVars
<1>4. (HeldOnce /\ HandInv)'
  BY <1>1, <1>2, HandTake DEF StartProcess
<1>5. (RoomKept /\ TaskInv /\ OwnInv)'
  BY <1>1, <1>2, OwnTypes DEF IndInv, RoomKept, TaskInv, OwnInv, Holding
<1>6. proc[v] = "none" /\ stdin[v] = NoBatch /\ serving[v] = NoBatch /\ stdout[v] = <<>>
  BY <1>1 DEF IndInv, PipeInv, PipeOf
<1>7. PipeInv'
  <2>1. PipeOf(v)'
    BY <1>1, <1>6, OwnTypes, TypeParts DEF StartProcess, PipeOf, Spawning, IndInv, WorkerTypes
  <2>2. \A c : Finished(c)' = Finished(c)
    BY <1>2, FinishedFrame DEF callVars
  <2>3. \A w \in Workers \ {v} :
           /\ state'[w] = state[w] /\ proc'[w] = proc[w]
           /\ serving'[w] = serving[w] /\ stdin'[w] = stdin[w] /\ stdout'[w] = stdout[w]
           /\ runCount'[w] = runCount[w] /\ pyRuns'[w] = pyRuns[w]
    BY <1>1 DEF StartProcess, IndInv, TypeOK
  <2>4. \A w \in Workers \ {v}, c \in Batches : own'[c] = w => own[c] = w
    BY <1>1, <1>2, OwnTypes DEF Actors
  <2>5. replied' = replied
    BY <1>2 DEF callVars
  <2>6. QED  BY <2>1, <2>2, <2>3, <2>4, <2>5, PipeLocal DEF IndInv
<1>8. CourierInv'
  <2>1. \A w \in Workers : /\ proc'[w] = IF w = v THEN "booting" ELSE proc[w]
                           /\ serving'[w] = serving[w] /\ stdin'[w] = stdin[w]
    BY <1>1 DEF StartProcess, IndInv, TypeOK
  <2>2. \A c \in Actors \ {a} : own'[c] = own[c] /\ pc'[c] = pc[c]
    BY <1>1, <1>2, OwnTypes
  <2>3. \A w \in Workers : stdin[w] # a /\ serving[w] # a
    BY <1>2, NotServed
  <2>4. \A w \in Workers : proc[w] = "running" <=> serving[w] # NoBatch
    BY DEF IndInv, CourierInv
  <2>5. QED  BY <1>2, <1>6, <2>1, <2>2, <2>3, <2>4, CourierKeep
<1>9. (AnswersAreReplies /\ AnswerInv)'
  BY <1>1, <1>2, AnswerKeep DEF StartProcess
<1>10. QED  BY <1>3, <1>4, <1>5, <1>7, <1>8, <1>9 DEF IndInv

LEMMA RefillReadyStep ==
    ASSUME IndInv, NEW a \in Actors, RefillReady(a)
    PROVE  IndInv'
<1>1. /\ own[a] # NoWorker /\ pc[a] = "refill" /\ Greeted(own[a])
      /\ UNCHANGED <<lock, pc, runCount, proc, pyRuns, serving, stdin, callVars>>
      /\ pc' = [pc EXCEPT ![a] = "refill"]
      /\ refill' = refill - 1
      /\ pool' = Append(pool, own[a])
      /\ own' = [own EXCEPT ![a] = NoWorker]
  BY PcStays DEF RefillReady
<1>2. PICK w \in Workers : w = own[a] /\ state[w] = "spawning"
  BY <1>1, Mine DEF IndInv, HandInv
<1>3. Spawning(w)
  BY <1>2 DEF IndInv, PipeInv, PipeOf
<1>4. /\ stdout[w] = <<PlainLine("ready")>> /\ proc[w] # "booting"
      /\ stdout' = [stdout EXCEPT ![w] = Tail(stdout[w])]
      /\ state' = [state EXCEPT ![w] = "ready"]
  BY <1>1, <1>2, <1>3 DEF RefillReady, Greeted, Spawning
<1>5. /\ own' \in [Actors -> Workers \cup {NoWorker}]
      /\ \A c \in Actors : own'[c] = IF c = a THEN NoWorker ELSE own[c]
      /\ refill \in 1 .. Size /\ refill' \in 0 .. Size
  BY <1>1, OwnTypes, PoolAssumption DEF IndInv, OwnInv, TypeOK
<1>6. HeldOnce' /\ pool' \in Seq(Workers) /\ Len(pool') = Len(pool) + 1
  BY <1>1, PoolGrows
<1>7. TypeOK'
  <2>1. stdout' \in [Workers -> Seq(Line)]
    BY <1>4, LineTypes DEF IndInv, TypeOK
  <2>2. state' \in [Workers -> {"gone", "spawning", "ready", "busy", "recycling"}]
    BY <1>4 DEF IndInv, TypeOK
  <2>3. QED  BY <1>1, <1>5, <1>6, <2>1, <2>2 DEF IndInv, TypeOK, callVars
<1>8. RoomKept'
  BY <1>1, <1>5, <1>6, OwnTypes, PoolAssumption DEF IndInv, RoomKept
<1>9. (TaskInv /\ OwnInv)'
  BY <1>1, <1>5, PoolAssumption DEF IndInv, TaskInv, OwnInv, Holding
<1>10. HandInv'
  <2>1. /\ \A v \in Workers \ {own[a]} : state'[v] = state[v]
        /\ state'[own[a]] = "ready"
    BY <1>2, <1>4, OwnTypes
  <2>2. "refill" \notin Holding
    BY DEF Holding
  <2>3. QED  BY <1>1, <2>1, <2>2, HandGive
<1>11. PipeInv'
  <2>1. stdout'[w] = <<>> /\ state'[w] = "ready"
    BY <1>4 DEF IndInv, TypeOK
  <2>2. PipeOf(w)'
    BY <1>1, <1>3, <1>4, <2>1, PoolAssumption DEF PipeOf, Spawning, InSync
  <2>3. \A c : Finished(c)' = Finished(c)
    BY <1>1, FinishedFrame DEF callVars
  <2>4. \A v \in Workers, c \in Batches : own'[c] = v => own[c] = v
    BY <1>5, PoolAssumption DEF Actors
  <2>5. \A v \in Workers \ {w} : state'[v] = state[v] /\ stdout'[v] = stdout[v]
    BY <1>4 DEF IndInv, TypeOK
  <2>6. QED
    BY <1>1, <2>2, <2>3, <2>4, <2>5, PipeLocal DEF IndInv, callVars
<1>12. CourierInv'
  <2>1. \A v \in Workers : stdin[v] # a /\ serving[v] # a
    BY <1>1, NotServed
  <2>2. \A v \in Workers : proc[v] = "running" <=> serving[v] # NoBatch
    BY DEF IndInv, CourierInv
  <2>3. QED  BY <1>1, <1>5, <2>1, <2>2, CourierKeep
<1>13. (AnswersAreReplies /\ AnswerInv)'
  BY <1>1, AnswerKeep
<1>14. QED  BY <1>6, <1>7, <1>8, <1>9, <1>10, <1>11, <1>12, <1>13 DEF IndInv

LEMMA RefillRefusedStep ==
    ASSUME IndInv, NEW a \in Actors, RefillRefused(a)
    PROVE  IndInv'
<1>1. /\ own[a] = NoWorker /\ refill > 0 /\ refill' = refill - 1 /\ pc[a] = "refill"
      /\ UNCHANGED <<pool, lock, pc, own, state, runCount, pythonVars, callVars>>
      /\ pc' = [pc EXCEPT ![a] = "refill"]
  BY PcStays DEF RefillRefused
<1>2. refill' \in 0 .. Size /\ refill' <= refill /\ refill \in Nat
  BY <1>1, PoolAssumption DEF IndInv, TypeOK
<1>3. TypeOK'
  BY <1>1, <1>2 DEF IndInv, TypeOK, pythonVars, callVars
<1>4. HeldOnce'
  BY <1>1 DEF IndInv, HeldOnce, Pooled
<1>5. RoomKept'
  BY <1>1, <1>2, OwnTypes, PoolAssumption DEF IndInv, RoomKept
<1>6. (TaskInv /\ OwnInv)'
  BY <1>1, <1>2, PoolAssumption DEF IndInv, TaskInv, OwnInv
<1>7. HandInv'
  BY <1>1 DEF IndInv, HandInv
<1>8. PipeInv'
  <2>1. \A c : Finished(c)' = Finished(c)
    BY <1>1, FinishedFrame DEF callVars
  <2>2. QED  BY <1>1, <2>1, PipeFrame DEF IndInv, callVars
<1>9. CourierInv'
  BY <1>1 DEF IndInv, CourierInv, pythonVars
<1>10. (AnswersAreReplies /\ AnswerInv)'
  BY <1>1, AnswerKeep DEF pythonVars
<1>11. QED  BY <1>3, <1>4, <1>5, <1>6, <1>7, <1>8, <1>9, <1>10 DEF IndInv

LEMMA RefillLostStep ==
    ASSUME IndInv, NEW a \in Actors, RefillLost(a)
    PROVE  IndInv'
<1>1. /\ own[a] # NoWorker /\ pc[a] = "refill" /\ refill' = refill - 1
      /\ UNCHANGED <<pool, lock, pc, callVars>>
      /\ pc' = [pc EXCEPT ![a] = "refill"]
      /\ own' = [own EXCEPT ![a] = NoWorker]
  BY PcStays DEF RefillLost
<1>2. PICK w \in Workers : w = own[a] /\ state[w] = "spawning"
  BY <1>1, Mine DEF IndInv, HandInv
<1>3. DropTo({w}) /\ WorkerTypes'
  BY <1>2, TypeParts, DropEffect DEF IndInv, RefillLost
<1>4. /\ own' \in [Actors -> Workers \cup {NoWorker}]
      /\ \A c \in Actors : own'[c] = IF c = a THEN NoWorker ELSE own[c]
      /\ refill \in 1 .. Size /\ refill' \in 0 .. Size
  BY <1>1, OwnTypes, PoolAssumption DEF IndInv, OwnInv, TypeOK
<1>5. \A v \in Workers \ {w} :
         /\ state'[v] = state[v] /\ proc'[v] = proc[v]
         /\ serving'[v] = serving[v] /\ stdin'[v] = stdin[v] /\ stdout'[v] = stdout[v]
         /\ runCount'[v] = runCount[v] /\ pyRuns'[v] = pyRuns[v]
  BY <1>3 DEF DropTo
<1>6. /\ state'[w] = "gone" /\ proc'[w] = "none"
      /\ serving'[w] = NoBatch /\ stdin'[w] = NoBatch /\ stdout'[w] = <<>>
  BY <1>3 DEF DropTo
<1>7. TypeOK'
  <2>1. UNCHANGED <<pool, lock, pc, split, outcome, progress, replied>>
    BY <1>1 DEF callVars
  <2>2. QED  BY <2>1, <1>3, <1>4 DEF IndInv, TypeOK, WorkerTypes
<1>8. (HandInv /\ HeldOnce)'
  <2>1. "refill" \notin Holding
    BY DEF Holding
  <2>2. QED  BY <1>1, <1>2, <1>5, <2>1, HandFree
<1>9. RoomKept'
  BY <1>1, <1>4, OwnTypes, PoolAssumption DEF IndInv, RoomKept
<1>10. (TaskInv /\ OwnInv)'
  BY <1>1, <1>4, PoolAssumption DEF IndInv, TaskInv, OwnInv, Holding
<1>11. PipeInv'
  <2>1. PipeOf(w)'
    BY <1>6, PipeGone
  <2>2. \A c : Finished(c)' = Finished(c)
    BY <1>1, FinishedFrame DEF callVars
  <2>3. \A v \in Workers, c \in Batches : own'[c] = v => own[c] = v
    BY <1>4, PoolAssumption DEF Actors
  <2>4. replied' = replied
    BY <1>1 DEF callVars
  <2>5. QED  BY <1>5, <2>1, <2>2, <2>3, <2>4, PipeLocal DEF IndInv
<1>12. CourierInv'
  <2>1. \A v \in Workers : stdin[v] # a /\ serving[v] # a
    BY <1>1, NotServed
  <2>2. \A v \in Workers : proc[v] = "running" <=> serving[v] # NoBatch
    BY DEF IndInv, CourierInv
  <2>3. \A v \in Workers : /\ proc'[v] = IF v = w THEN "none" ELSE proc[v]
                           /\ serving'[v] = IF v = w THEN NoBatch ELSE serving[v]
                           /\ stdin'[v] = IF v = w THEN NoBatch ELSE stdin[v]
    BY <1>5, <1>6
  <2>4. \A v \in Workers : stdin'[v] # a /\ serving'[v] # a
    BY <2>1, <2>3, PoolAssumption DEF Actors
  <2>5. QED  BY <1>1, <1>4, <2>2, <2>3, <2>4, CourierKeep
<1>13. (AnswersAreReplies /\ AnswerInv)'
  <2>1. \A v \in Workers : serving'[v] \in {serving[v], NoBatch} /\ stdin'[v] \in {stdin[v], NoBatch}
    BY <1>5, <1>6
  <2>2. QED  BY <1>1, <2>1, AnswerKeep
<1>14. QED  BY <1>7, <1>8, <1>9, <1>10, <1>11, <1>12, <1>13 DEF IndInv

LEMMA EnsureEndStep ==
    ASSUME IndInv, NEW a \in Actors, EnsureEnd(a)
    PROVE  IndInv'
<1>1. /\ pc[a] = "refill" /\ refill = 0 /\ lock' = Nobody
      /\ pc' = [pc EXCEPT ![a] = "idle"]
      /\ UNCHANGED <<pool, refill, own, state, runCount, pythonVars, callVars>>
  BY DEF EnsureEnd
<1>2. own[a] = NoWorker
  BY <1>1 DEF IndInv, OwnInv
<1>3. /\ \A c \in Actors : pc'[c] = IF c = a THEN "idle" ELSE pc[c]
      /\ UNCHANGED <<proc, serving, stdin>>
  BY <1>1, OwnTypes DEF pythonVars
<1>4. TypeOK'
  BY <1>1 DEF IndInv, TypeOK, pythonVars, callVars
<1>5. (HeldOnce /\ RoomKept)'
  BY <1>1 DEF IndInv, HeldOnce, Pooled, RoomKept
<1>6. TaskInv'
  BY <1>1, <1>3, PoolAssumption DEF IndInv, TaskInv, Actors
<1>7. (OwnInv /\ HandInv)'
  BY <1>1, <1>2, <1>3 DEF IndInv, OwnInv, HandInv, Holding
<1>8. PipeInv'
  <2>1. \A c : Finished(c)' = Finished(c)
    BY <1>1, FinishedFrame DEF callVars
  <2>2. QED  BY <1>1, <2>1, PipeFrame DEF IndInv, callVars
<1>9. CourierInv'
  BY <1>1, <1>3, PipeTypes DEF IndInv, CourierInv, Actors
<1>10. (AnswersAreReplies /\ AnswerInv)'
  BY <1>1, <1>3, AnswerKeep
<1>11. QED  BY <1>4, <1>5, <1>6, <1>7, <1>8, <1>9, <1>10 DEF IndInv

-----------------------------------------------------------------------------
(* The steps of a Python process *)

\* What a script cannot touch.
LEMMA RustKept ==
    ASSUME IndInv, UNCHANGED rustVars
    PROVE  /\ (HeldOnce /\ RoomKept /\ TaskInv /\ OwnInv /\ HandInv)'
           /\ UNCHANGED <<own, pc, state, runCount>>
  BY RustFrame DEF IndInv, rustVars

LEMMA PyReadyStep ==
    ASSUME IndInv, NEW w \in Workers, PyReady(w)
    PROVE  IndInv'
<1>1. /\ proc[w] = "booting" /\ UNCHANGED <<rustVars, pyRuns, serving, stdin, callVars>>
      /\ stdout' = [stdout EXCEPT ![w] = Append(stdout[w], PlainLine("ready"))]
      /\ proc' = [proc EXCEPT ![w] = "waiting"]
  BY DEF PyReady, Say
<1>2. UNCHANGED <<own, pc, state, runCount>>
  BY <1>1, RustKept
<1>3. TypeOK'
  <2>1. stdout[w] \in Seq(Line) /\ PlainLine("ready") \in Line
    BY LineTypes DEF IndInv, TypeOK
  <2>2. stdout' \in [Workers -> Seq(Line)]
    BY <1>1, <2>1 DEF IndInv, TypeOK
  <2>3. QED  BY <1>1, <2>2 DEF IndInv, TypeOK, rustVars, callVars
<1>4. PipeInv'
  <2>1. PipeOf(w) /\ \A b \in Batches : Busy(w, b) => FALSE
    BY <1>1 DEF IndInv, PipeInv, PipeOf, Busy
  <2>2. proc'[w] = "waiting" /\ stdout'[w] = Append(stdout[w], PlainLine("ready"))
    BY <1>1 DEF IndInv, TypeOK
  <2>3. Spawning(w) => Spawning(w)'
    <3>1. Spawning(w) => stdout[w] = <<>>
      BY <1>1 DEF Spawning
    <3>2. Append(<<>>, PlainLine("ready")) = <<PlainLine("ready")>>
      OBVIOUS
    <3>3. QED  BY <1>1, <1>2, <2>2, <3>1, <3>2 DEF Spawning
  <2>4. PipeOf(w)'
    BY <1>1, <1>2, <2>1, <2>3 DEF PipeOf
  <2>5. \A c : Finished(c)' = Finished(c)
    BY <1>1, FinishedFrame DEF callVars
  <2>6. QED
    BY <1>1, <1>2, <2>4, <2>5, PipeLocal DEF IndInv, TypeOK, callVars
<1>5. CourierInv'
  <2>1. \A v \in Workers : proc'[v] = "running" <=> proc[v] = "running"
    BY <1>1 DEF IndInv, TypeOK
  <2>2. QED  BY <1>1, <1>2, <2>1 DEF IndInv, CourierInv
<1>6. (AnswersAreReplies /\ AnswerInv)'
  BY <1>1, <1>2 DEF IndInv, AnswersAreReplies, AnswerInv, callVars
<1>7. QED  BY <1>1, <1>3, <1>4, <1>5, <1>6, RustKept DEF IndInv

LEMMA PyTakeStep ==
    ASSUME IndInv, NEW w \in Workers, PyTake(w)
    PROVE  IndInv'
<1>1. /\ proc[w] = "waiting" /\ pyRuns[w] < MaxRuns /\ stdin[w] # NoBatch
      /\ proc' = [proc EXCEPT ![w] = "running"]
      /\ serving' = [serving EXCEPT ![w] = stdin[w]]
      /\ stdin' = [stdin EXCEPT ![w] = NoBatch]
      /\ UNCHANGED <<rustVars, pyRuns, stdout, callVars>>
  BY DEF PyTake
<1>2. UNCHANGED <<own, pc, state, runCount>>
  BY <1>1, RustKept
<1>3. TypeOK'
  BY <1>1, PipeTypes DEF IndInv, TypeOK, rustVars, callVars
<1>4. \A v \in Workers : /\ proc'[v] = IF v = w THEN "running" ELSE proc[v]
                         /\ serving'[v] = IF v = w THEN stdin[w] ELSE serving[v]
                         /\ stdin'[v] = IF v = w THEN NoBatch ELSE stdin[v]
  BY <1>1 DEF IndInv, TypeOK
<1>5. serving[w] = NoBatch
  BY <1>1 DEF IndInv, CourierInv
<1>6. PipeInv'
  <2>1. PipeOf(w)
    BY DEF IndInv, PipeInv
  <2>2. \A c : Finished(c)' = Finished(c)
    BY <1>1, FinishedFrame DEF callVars
  <2>3. ASSUME NEW b \in Batches, Busy(w, b)  PROVE Busy(w, b)'
    BY <1>1, <1>2, <1>4, <1>5, <2>3 DEF Busy
  <2>4. PipeOf(w)'
    BY <1>1, <1>2, <2>1, <2>3 DEF PipeOf, InSync, Spawning
  <2>5. QED
    BY <1>1, <1>2, <1>4, <2>2, <2>4, PipeLocal DEF IndInv, callVars
<1>7. CourierInv'
  BY <1>1, <1>2, <1>4, PipeTypes DEF IndInv, CourierInv
<1>8. (AnswersAreReplies /\ AnswerInv)'
  <2>1. split \in [Tests -> Batches] /\ \A b \in Batches : b # NoBatch
    BY PoolAssumption DEF IndInv, TypeOK
  <2>2. QED  BY <1>1, <1>2, <1>4, <2>1 DEF IndInv, AnswersAreReplies, AnswerInv, callVars
<1>9. QED  BY <1>1, <1>3, <1>6, <1>7, <1>8, RustKept DEF IndInv

LEMMA PyTestBeginStep ==
    ASSUME IndInv, NEW w \in Workers, NEW t \in Tests, PyTestBegin(w, t)
    PROVE  IndInv'
<1>1. /\ progress[t] = "waiting" /\ progress' = [progress EXCEPT ![t] = "running"]
      /\ UNCHANGED <<rustVars, pythonVars, split, outcome, replied>>
  BY DEF PyTestBegin
<1>2. UNCHANGED <<own, pc, state, runCount, proc, serving, stdin>>
  BY <1>1, RustKept DEF pythonVars
<1>3. TypeOK'
  BY <1>1 DEF IndInv, TypeOK, rustVars, pythonVars
<1>4. \A u \in Tests : progress'[u] = IF u = t THEN "running" ELSE progress[u]
  BY <1>1 DEF IndInv, TypeOK
<1>5. \A c : Finished(c)' = Finished(c)
  BY <1>1, <1>4 DEF Finished, TestsOf
<1>6. PipeInv'
  BY <1>1, <1>2, <1>5, PipeFrame DEF IndInv
<1>7. CourierInv'
  BY <1>2 DEF IndInv, CourierInv
<1>8. (AnswersAreReplies /\ AnswerInv)'
  BY <1>1, <1>2, <1>4 DEF IndInv, AnswersAreReplies, AnswerInv
<1>9. QED  BY <1>1, <1>3, <1>6, <1>7, <1>8, RustKept DEF IndInv

LEMMA PyTestEndStep ==
    ASSUME IndInv, NEW w \in Workers, NEW t \in Tests, PyTestEnd(w, t)
    PROVE  IndInv'
<1>1. /\ proc[w] = "running" /\ split[t] = serving[w]
      /\ progress[t] = "running" /\ progress' = [progress EXCEPT ![t] = "finished"]
      /\ UNCHANGED <<rustVars, pythonVars, split, outcome, replied>>
  BY DEF PyTestEnd
<1>2. UNCHANGED <<own, pc, state, runCount, proc, serving, stdin, stdout, pyRuns>>
  BY <1>1, RustKept DEF pythonVars
<1>3. TypeOK'
  BY <1>1 DEF IndInv, TypeOK, rustVars, pythonVars
<1>4. \A u \in Tests : progress'[u] = IF u = t THEN "finished" ELSE progress[u]
  BY <1>1 DEF IndInv, TypeOK
<1>5. serving[w] \in Batches /\ own[serving[w]] = w /\ serving[w] # NoBatch
  BY <1>1, PipeTypes DEF IndInv, CourierInv
<1>6. \A c : c # serving[w] => Finished(c)' = Finished(c)
  BY <1>1, <1>4 DEF Finished, TestsOf
<1>7. PipeInv'
  <2>1. PipeOf(w)
    BY DEF IndInv, PipeInv
  <2>2. ASSUME NEW b \in Batches, Busy(w, b)  PROVE Busy(w, b)'
    BY <1>1, <1>2, <1>5, <2>2 DEF Busy
  <2>3. PipeOf(w)'
    BY <1>2, <2>1, <2>2 DEF PipeOf, InSync, Spawning
  <2>4. QED  BY <1>1, <1>2, <1>5, <1>6, <2>3, PipeLocal DEF IndInv
<1>8. CourierInv'
  BY <1>2 DEF IndInv, CourierInv
<1>9. (AnswersAreReplies /\ AnswerInv)'
  BY <1>1, <1>2, <1>4 DEF IndInv, AnswersAreReplies, AnswerInv
<1>10. QED  BY <1>1, <1>3, <1>7, <1>8, <1>9, RustKept DEF IndInv

\* The first line of a pipe stays the first when a script prints another.
LEMMA LineAdded ==
    \A s \in Seq(Line), x \in Line :
       /\ Append(s, x) # <<>>
       /\ s # <<>> => Head(Append(s, x)) = Head(s)
       /\ s = <<>> => Head(Append(s, x)) = x /\ Len(Append(s, x)) = 1
<1>1. ASSUME NEW S, NEW s \in Seq(S), NEW x \in S
      PROVE  /\ Append(s, x) # <<>>
             /\ s # <<>> => Head(Append(s, x)) = Head(s)
             /\ s = <<>> => Head(Append(s, x)) = x /\ Len(Append(s, x)) = 1
  OBVIOUS
<1>2. QED  BY <1>1

LEMMA PyDoneStep ==
    ASSUME IndInv, NEW w \in Workers, PyDone(w)
    PROVE  IndInv'
<1>1. PICK b \in Batches, line \in Line :
        /\ b = serving[w] /\ own[b] = w /\ proc[w] = "running"
        /\ line = [status |-> "done", batch |-> b, results |-> Finished(b)]
        /\ stdout' = [stdout EXCEPT ![w] = Append(stdout[w], line)]
        /\ pyRuns' = [pyRuns EXCEPT ![w] = pyRuns[w] + 1]
        /\ proc' = [proc EXCEPT ![w] = "waiting"]
        /\ serving' = [serving EXCEPT ![w] = NoBatch]
        /\ replied' = replied \cup {b}
        /\ UNCHANGED <<rustVars, stdin, split, outcome, progress>>
  <2>1. serving[w] \in Batches /\ own[serving[w]] = w
    BY PipeTypes DEF PyDone, IndInv, CourierInv
  <2>2. Finished(serving[w]) \in SUBSET Tests
    BY DEF Finished, TestsOf
  <2>3. QED  BY <2>1, <2>2, LineTypes DEF PyDone, Say, Finished
<1>2. UNCHANGED <<own, pc, state, runCount>>
  BY <1>1, RustKept
<1>3. /\ state[w] \in {"busy", "recycling"}
      /\ state[w] = "busy" => Busy(w, b) /\ stdout[w] = <<>> /\ pyRuns[w] = runCount[w] /\ stdin[w] = NoBatch
  <2>1. serving[w] # NoBatch /\ PipeOf(w)
    BY <1>1 DEF IndInv, CourierInv, PipeInv
  <2>2. state[w] \in {"busy", "recycling"}
    BY <2>1 DEF PipeOf, Spawning, InSync, IndInv, TypeOK
  <2>3. QED  BY <1>1, <2>1, <2>2 DEF PipeOf, Busy
<1>4. TypeOK'
  <2>1. /\ stdout' \in [Workers -> Seq(Line)] /\ pyRuns' \in [Workers -> Nat]
        /\ replied' \subseteq Batches
    BY <1>1 DEF IndInv, TypeOK
  <2>2. QED  BY <1>1, <2>1 DEF IndInv, TypeOK, rustVars
<1>5. \A v \in Workers : /\ proc'[v] = IF v = w THEN "waiting" ELSE proc[v]
                         /\ serving'[v] = IF v = w THEN NoBatch ELSE serving[v]
                         /\ stdout'[v] = IF v = w THEN Append(stdout[v], line) ELSE stdout[v]
                         /\ pyRuns'[v] = IF v = w THEN pyRuns[v] + 1 ELSE pyRuns[v]
  BY <1>1 DEF IndInv, TypeOK
<1>6. \A c : Finished(c)' = Finished(c)
  BY <1>1, FinishedFrame
<1>7. PipeInv'
  <2>1. stdout[w] \in Seq(Line)
    BY DEF IndInv, TypeOK
  <2>2. ASSUME state[w] = "busy"  PROVE Busy(w, b)'
    <3>1. /\ Len(stdout'[w]) = 1 /\ Head(stdout'[w]) = line /\ stdout'[w] # <<>>
      <4>1. stdout'[w] = Append(stdout[w], line) /\ stdout[w] = <<>>
        BY <1>3, <1>5, <2>2
      <4>2. QED  BY <2>1, <4>1, LineAdded
    <3>2. line.status = "done" /\ line.results = Finished(b)'
      BY <1>1, <1>6
    <3>3. /\ runCount'[w] < MaxRuns /\ pyRuns'[w] = runCount'[w] + 1 /\ stdin'[w] = NoBatch
      BY <1>1, <1>2, <1>3, <1>5, <2>2 DEF Busy
    <3>4. proc'[w] = "waiting" /\ serving'[w] = NoBatch /\ b \in replied'
      BY <1>1, <1>5
    <3>5. QED  BY <3>1, <3>2, <3>3, <3>4 DEF Busy
  <2>3. \A c \in Batches : own'[c] = w => c = b
    BY <1>1, <1>2, PoolAssumption DEF IndInv, HeldOnce, Actors
  <2>4. PipeOf(w)'
    BY <1>2, <1>3, <2>2, <2>3 DEF PipeOf
  <2>5. QED
    BY <1>1, <1>2, <1>5, <1>6, <2>4, PipeLocal DEF IndInv
<1>8. CourierInv'
  BY <1>1, <1>2, <1>5 DEF IndInv, CourierInv
<1>9. (AnswersAreReplies /\ AnswerInv)'
  <2>1. \A v \in Workers : serving'[v] \in {serving[v], NoBatch} /\ stdin'[v] = stdin[v]
    BY <1>1, <1>5
  <2>2. split \in [Tests -> Batches] /\ \A c \in Batches : c # NoBatch
    BY PoolAssumption DEF IndInv, TypeOK
  <2>3. QED  BY <1>1, <1>2, <2>1, <2>2 DEF IndInv, AnswersAreReplies, AnswerInv
<1>10. QED  BY <1>1, <1>4, <1>7, <1>8, <1>9, RustKept DEF IndInv

LEMMA PyRaiseStep ==
    ASSUME IndInv, NEW w \in Workers, PyRaise(w)
    PROVE  IndInv'
<1>1. PICK b \in Batches, line \in Line :
        /\ b = serving[w] /\ own[b] = w /\ proc[w] = "running"
        /\ line.status = "error"
        /\ stdout' = [stdout EXCEPT ![w] = Append(stdout[w], line)]
        /\ proc' = [proc EXCEPT ![w] = "waiting"]
        /\ serving' = [serving EXCEPT ![w] = NoBatch]
        /\ UNCHANGED <<rustVars, pyRuns, stdin, callVars>>
  <2>1. serving[w] \in Batches /\ own[serving[w]] = w
    BY PipeTypes DEF PyRaise, IndInv, CourierInv
  <2>2. PlainLine("error").status = "error"
    BY DEF PlainLine
  <2>3. QED  BY <2>1, <2>2, LineTypes DEF PyRaise, Say
<1>2. UNCHANGED <<own, pc, state, runCount>>
  BY <1>1, RustKept
<1>3. /\ state[w] \in {"busy", "recycling"}
      /\ state[w] = "busy" => Busy(w, b) /\ stdout[w] = <<>> /\ stdin[w] = NoBatch
  <2>1. serving[w] # NoBatch /\ PipeOf(w)
    BY <1>1 DEF IndInv, CourierInv, PipeInv
  <2>2. state[w] \in {"busy", "recycling"}
    BY <2>1 DEF PipeOf, Spawning, InSync, IndInv, TypeOK
  <2>3. QED  BY <1>1, <2>1, <2>2 DEF PipeOf, Busy
<1>4. TypeOK'
  <2>1. stdout' \in [Workers -> Seq(Line)]
    BY <1>1 DEF IndInv, TypeOK
  <2>2. QED  BY <1>1, <2>1 DEF IndInv, TypeOK, rustVars, callVars
<1>5. \A v \in Workers : /\ proc'[v] = IF v = w THEN "waiting" ELSE proc[v]
                         /\ serving'[v] = IF v = w THEN NoBatch ELSE serving[v]
                         /\ stdout'[v] = IF v = w THEN Append(stdout[v], line) ELSE stdout[v]
  BY <1>1 DEF IndInv, TypeOK
<1>6. \A c : Finished(c)' = Finished(c)
  BY <1>1, FinishedFrame DEF callVars
<1>7. PipeInv'
  <2>1. stdout[w] \in Seq(Line)
    BY DEF IndInv, TypeOK
  <2>2. ASSUME state[w] = "busy"  PROVE Busy(w, b)'
    <3>1. Head(stdout'[w]) = line /\ stdout'[w] # <<>>
      <4>1. stdout'[w] = Append(stdout[w], line) /\ stdout[w] = <<>>
        BY <1>3, <1>5, <2>2
      <4>2. QED  BY <2>1, <4>1, LineAdded
    <3>2. runCount'[w] < MaxRuns /\ stdin'[w] = NoBatch
      BY <1>1, <1>2, <1>3, <2>2 DEF Busy
    <3>3. proc'[w] = "waiting" /\ serving'[w] = NoBatch
      BY <1>5
    <3>4. QED  BY <1>1, <3>1, <3>2, <3>3 DEF Busy
  <2>3. \A c \in Batches : own'[c] = w => c = b
    BY <1>1, <1>2, PoolAssumption DEF IndInv, HeldOnce, Actors
  <2>4. PipeOf(w)'
    BY <1>2, <1>3, <2>2, <2>3 DEF PipeOf
  <2>5. QED
    BY <1>1, <1>2, <1>5, <1>6, <2>4, PipeLocal DEF IndInv, callVars
<1>8. CourierInv'
  BY <1>1, <1>2, <1>5 DEF IndInv, CourierInv
<1>9. (AnswersAreReplies /\ AnswerInv)'
  <2>1. \A v \in Workers : serving'[v] \in {serving[v], NoBatch} /\ stdin'[v] = stdin[v]
    BY <1>1, <1>5
  <2>2. split \in [Tests -> Batches] /\ \A c \in Batches : c # NoBatch
    BY PoolAssumption DEF IndInv, TypeOK
  <2>3. QED  BY <1>1, <1>2, <2>1, <2>2 DEF IndInv, AnswersAreReplies, AnswerInv, callVars
<1>10. QED  BY <1>1, <1>4, <1>7, <1>8, <1>9, RustKept DEF IndInv

LEMMA PyRetireStep ==
    ASSUME IndInv, NEW w \in Workers, PyRetire(w)
    PROVE  IndInv'
<1>1. PICK line \in Line :
        /\ proc[w] = "waiting" /\ pyRuns[w] >= MaxRuns
        /\ stdout' = [stdout EXCEPT ![w] = Append(stdout[w], line)]
        /\ proc' = [proc EXCEPT ![w] = "exited"]
        /\ UNCHANGED <<rustVars, pyRuns, serving, stdin, callVars>>
  BY LineTypes DEF PyRetire, Say
<1>2. UNCHANGED <<own, pc, state, runCount>>
  BY <1>1, RustKept
<1>3. TypeOK'
  <2>1. stdout' \in [Workers -> Seq(Line)]
    BY <1>1 DEF IndInv, TypeOK
  <2>2. QED  BY <1>1, <2>1 DEF IndInv, TypeOK, rustVars, callVars
<1>4. \A v \in Workers : /\ proc'[v] = IF v = w THEN "exited" ELSE proc[v]
                         /\ stdout'[v] = IF v = w THEN Append(stdout[v], line) ELSE stdout[v]
  BY <1>1 DEF IndInv, TypeOK
<1>5. PipeInv'
  <2>1. /\ stdout[w] \in Seq(Line) /\ pyRuns[w] \in Nat /\ runCount[w] \in Nat
        /\ MaxRuns \in Nat \ {0} /\ PipeOf(w)
    BY PoolAssumption DEF IndInv, TypeOK, PipeInv
  <2>2. ~(state[w] \in {"gone", "ready", "spawning"})
    BY <1>1, <2>1 DEF PipeOf, InSync, Spawning
  <2>3. ASSUME NEW b \in Batches, Busy(w, b)  PROVE Busy(w, b)'
    <3>1. stdout[w] # <<>>
      BY <1>1, <2>1, <2>3 DEF Busy
    <3>2. Head(stdout'[w]) = Head(stdout[w]) /\ stdout'[w] # <<>>
      <4>1. stdout'[w] = Append(stdout[w], line)
        BY <1>4
      <4>2. QED  BY <2>1, <3>1, <4>1, LineAdded
    <3>3. UNCHANGED <<runCount, pyRuns, stdin, serving, replied>> /\ Finished(b)' = Finished(b)
      BY <1>1, <1>2, FinishedFrame DEF callVars
    <3>4. proc'[w] # "booting"
      BY <1>4
    <3>5. QED  BY <1>1, <2>1, <2>3, <3>1, <3>2, <3>3, <3>4 DEF Busy
  <2>4. PipeOf(w)'
    BY <1>2, <2>1, <2>2, <2>3 DEF PipeOf
  <2>5. \A c : Finished(c)' = Finished(c)
    BY <1>1, FinishedFrame DEF callVars
  <2>6. QED
    BY <1>1, <1>2, <1>4, <2>4, <2>5, PipeLocal DEF IndInv, callVars
<1>6. CourierInv'
  <2>1. \A v \in Workers : proc'[v] = "running" <=> proc[v] = "running"
    BY <1>1, <1>4
  <2>2. QED  BY <1>1, <1>2, <2>1 DEF IndInv, CourierInv
<1>7. (AnswersAreReplies /\ AnswerInv)'
  BY <1>1, <1>2 DEF IndInv, AnswersAreReplies, AnswerInv, callVars
<1>8. QED  BY <1>1, <1>3, <1>5, <1>6, <1>7, RustKept DEF IndInv

LEMMA PyCrashStep ==
    ASSUME IndInv, NEW w \in Workers, PyCrash(w)
    PROVE  IndInv'
<1>1. /\ proc[w] \in {"booting", "waiting", "running"}
      /\ proc' = [proc EXCEPT ![w] = "exited"]
      /\ serving' = [serving EXCEPT ![w] = NoBatch]
      /\ stdin' = [stdin EXCEPT ![w] = NoBatch]
      /\ progress' = [t \in Tests |->
                         IF split[t] = serving[w] /\ progress[t] = "running"
                         THEN "crashed" ELSE progress[t]]
      /\ UNCHANGED <<rustVars, pyRuns, stdout, split, outcome, replied>>
  BY DEF PyCrash
<1>2. UNCHANGED <<own, pc, state, runCount>>
  BY <1>1, RustKept
<1>3. TypeOK'
  <2>1. /\ proc' \in [Workers -> {"none", "booting", "waiting", "running", "exited"}]
        /\ serving' \in [Workers -> Batches \cup {NoBatch}]
        /\ stdin' \in [Workers -> Batches \cup {NoBatch}]
    BY <1>1 DEF IndInv, TypeOK
  <2>2. progress' \in [Tests -> {"waiting", "running", "finished", "crashed"}]
    BY <1>1 DEF IndInv, TypeOK
  <2>3. QED  BY <1>1, <2>1, <2>2 DEF IndInv, TypeOK, rustVars
<1>4. \A v \in Workers : /\ proc'[v] = IF v = w THEN "exited" ELSE proc[v]
                         /\ serving'[v] = IF v = w THEN NoBatch ELSE serving[v]
                         /\ stdin'[v] = IF v = w THEN NoBatch ELSE stdin[v]
  BY <1>1 DEF IndInv, TypeOK
<1>5. \A u \in Tests : progress'[u] = "finished" <=> progress[u] = "finished"
  BY <1>1
<1>6. \A c : Finished(c)' = Finished(c)
  BY <1>1, <1>5 DEF Finished, TestsOf
<1>7. PipeInv'
  <2>1. PipeOf(w) /\ state[w] # "gone"
    BY <1>1 DEF IndInv, PipeInv, PipeOf
  <2>2. ASSUME NEW b \in Batches, Busy(w, b)  PROVE Busy(w, b)'
    BY <1>1, <1>2, <1>4, <1>6, <2>2 DEF Busy
  <2>3. InSync(w) => InSync(w)'
    BY <1>1, <1>2, <1>4 DEF InSync
  <2>4. Spawning(w) => Spawning(w)'
    BY <1>1, <1>2, <1>4 DEF Spawning
  <2>5. PipeOf(w)'
    BY <1>2, <1>4, <2>1, <2>2, <2>3, <2>4 DEF PipeOf
  <2>6. QED
    BY <1>1, <1>2, <1>4, <1>6, <2>5, PipeLocal DEF IndInv
<1>8. CourierInv'
  BY <1>1, <1>2, <1>4 DEF IndInv, CourierInv
<1>9. (AnswersAreReplies /\ AnswerInv)'
  <2>1. split \in [Tests -> Batches] /\ \A c \in Batches : c # NoBatch
    BY PoolAssumption DEF IndInv, TypeOK
  <2>2. QED  BY <1>1, <1>2, <1>4, <1>5, <2>1 DEF IndInv, AnswersAreReplies, AnswerInv
<1>10. QED  BY <1>1, <1>3, <1>7, <1>8, <1>9, RustKept DEF IndInv

-----------------------------------------------------------------------------
(* The theorems *)

LEMMA InitStep == Init => IndInv
<1> SUFFICES ASSUME Init  PROVE IndInv
  OBVIOUS
<1>1. TypeOK
  BY PoolAssumption DEF Init, TypeOK, Actors
<1>2. HeldOnce /\ RoomKept
  BY PoolAssumption DEF Init, HeldOnce, Pooled, RoomKept
<1>3. TaskInv /\ OwnInv /\ HandInv
  BY PoolAssumption DEF Init, TaskInv, OwnInv, HandInv, Holding, Actors
<1>4. PipeInv
  BY DEF Init, PipeInv, PipeOf
<1>5. CourierInv
  BY PoolAssumption DEF Init, CourierInv
<1>6. AnswersAreReplies /\ AnswerInv
  BY PoolAssumption DEF Init, AnswersAreReplies, AnswerInv, Actors
<1>7. QED  BY <1>1, <1>2, <1>3, <1>4, <1>5, <1>6 DEF IndInv

LEMMA StutterStep == IndInv /\ UNCHANGED vars => IndInv'
<1> SUFFICES ASSUME IndInv, UNCHANGED vars  PROVE IndInv'
  OBVIOUS
<1>1. /\ UNCHANGED rustVars
      /\ UNCHANGED <<proc, pyRuns, serving, stdin, stdout, split, outcome, progress, replied>>
      /\ UNCHANGED <<own, pc, state, runCount>>
  BY DEF vars, rustVars, pythonVars, callVars
<1>2. TypeOK'
  BY <1>1 DEF IndInv, TypeOK, rustVars
<1>3. PipeInv'
  <2>1. \A c : Finished(c)' = Finished(c)
    BY <1>1, FinishedFrame
  <2>2. QED  BY <1>1, <2>1, PipeFrame DEF IndInv, pythonVars
<1>4. CourierInv'
  BY <1>1 DEF IndInv, CourierInv
<1>5. (AnswersAreReplies /\ AnswerInv)'
  BY <1>1 DEF IndInv, AnswersAreReplies, AnswerInv
<1>6. QED  BY <1>1, <1>2, <1>3, <1>4, <1>5, RustKept DEF IndInv

LEMMA NextStep == IndInv /\ [Next]_vars => IndInv'
<1> SUFFICES ASSUME IndInv, [Next]_vars  PROVE IndInv'
  OBVIOUS
<1>1. CASE ExecuteParallel
  BY <1>1, ExecuteParallelStep
<1>2. CASE JoinAll
  BY <1>2, JoinAllStep
<1>3. CASE \E b \in Batches : Batch(b)
  <2>1. PICK b \in Batches : Batch(b)
    BY <1>3
  <2>2. CASE Acquire(b) \/ AcquireNothing(b)
    BY <2>2, AcquireStep, AcquireNothingStep
  <2>3. CASE SpawnTemporary(b) \/ TemporaryReady(b) \/ SpawnRefused(b) \/ TemporaryLost(b)
    BY <2>3, SpawnTemporaryStep, TemporaryReadyStep, SpawnRefusedStep, TemporaryLostStep
  <2>4. CASE Send(b) \/ SendFails(b) \/ ReadLine(b) \/ ReadFails(b)
    BY <2>4, SendStep, SendFailsStep, ReadLineStep, ReadFailsStep
  <2>5. CASE Release(b)
    BY <2>5, ReleaseStep
  <2>6. QED  BY <2>1, <2>2, <2>3, <2>4, <2>5 DEF Batch
<1>4. CASE \E a \in Actors : Ensure(a)
  BY <1>4, EnsureBeginStep, RefillSpawnStep, RefillReadyStep, RefillRefusedStep,
     RefillLostStep, EnsureEndStep DEF Ensure
<1>5. CASE \E w \in Workers : Python(w)
  BY <1>5, PyReadyStep, PyTakeStep, PyTestBeginStep, PyTestEndStep, PyDoneStep,
     PyRaiseStep, PyRetireStep, PyCrashStep DEF Python
<1>6. CASE UNCHANGED vars
  BY <1>6, StutterStep
<1>7. QED  BY <1>1, <1>2, <1>3, <1>4, <1>5, <1>6 DEF Next

(* IndInv is an inductive invariant of the pool: what the tasks know of their
   workers, and what travels in the pipes, holds at every step of pool.rs. *)
THEOREM Invariance == Spec => []IndInv
<1>1. Init => IndInv
  BY InitStep
<1>2. IndInv /\ [Next]_vars => IndInv'
  BY NextStep
<1>3. QED  BY <1>1, <1>2, PTL DEF Spec

(* The variables keep their types; in particular no worker's run count ever
   exceeds max_runs (Worker::execute_tests counts, needs_recycle retires). *)
THEOREM TypeCorrect == Spec => []TypeOK
<1>1. IndInv => TypeOK
  BY DEF IndInv
<1>2. QED  BY <1>1, Invariance, PTL

(* A Worker value has one owner, however acquire, release and the spawning
   paths of execute_batch and ensure_workers interleave. *)
THEOREM WorkersHeldOnce == Spec => []HeldOnce
<1>1. IndInv => HeldOnce
  BY DEF IndInv
<1>2. QED  BY <1>1, Invariance, PTL

(* release and ensure_workers never let the pool outgrow its target size. *)
THEOREM PoolBounded == Spec => []RoomKept
<1>1. IndInv => RoomKept
  BY DEF IndInv
<1>2. QED  BY <1>1, Invariance, PTL

(* A worker that waits in the pool, or was just taken out of it, has no
   request and no reply of an earlier batch in its pipes, and its script
   counts its runs as Rust does. *)
THEOREM RequestsPaired == Spec => []PooledInSync
<1>1. IndInv => PooledInSync
  <2> SUFFICES ASSUME IndInv  PROVE PooledInSync
    OBVIOUS
  <2>1. \A w \in Workers : state[w] = "ready" => InSync(w)
    BY DEF IndInv, PipeInv, PipeOf
  <2>2. ASSUME NEW i \in DOMAIN pool  PROVE InSync(pool[i])
    BY <2>1, OwnTypes DEF IndInv, HandInv
  <2>3. ASSUME NEW b \in Batches, pc[b] = "run"  PROVE InSync(own[b])
    BY <2>1, <2>3, Mine DEF IndInv, HandInv, OwnInv, Holding, Actors
  <2>4. QED  BY <2>2, <2>3 DEF PooledInSync
<1>2. QED  BY <1>1, Invariance, PTL

(* What execute_batch answers is what Python did: a test is reported only if
   its run ended, and left out only if pytest replied without running it. *)
THEOREM AnswersTrue == Spec => []AnswersAreReplies
<1>1. IndInv => AnswersAreReplies
  BY DEF IndInv
<1>2. QED  BY <1>1, Invariance, PTL

-----------------------------------------------------------------------------
(***************************************************************************)
(* How many workers live at once, for every pool size and every number of  *)
(* batches.  Two facts make the bound: no live worker is out of reach of   *)
(* the pool and of the tasks, and the owner holds one only while the pool  *)
(* still lacks it.                                                         *)
(***************************************************************************)

Live == {w \in Workers : state[w] # "gone"}

Held(w) == \E a \in Actors : own[a] = w

\* Every live worker waits in the pool or is in a task's hands.
Accounted == \A w \in Live : Pooled(w) \/ Held(w)

-----------------------------------------------------------------------------
(* The steps keep every worker accounted for *)

\* A step that moves no worker and creates none.
LEMMA AccountedFrame ==
    ASSUME Accounted, UNCHANGED <<pool, own>>,
           \A w \in Workers : state'[w] # "gone" => state[w] # "gone"
    PROVE  Accounted'
  BY DEF Accounted, Live, Pooled, Held

LEMMA AccountedSpawn ==
    ASSUME IndInv, Accounted, NEW a \in Actors, own[a] = NoWorker, NEW v \in Workers,
           StartProcess(v), own' = [own EXCEPT ![a] = v], UNCHANGED pool
    PROVE  Accounted'
<1>1. \A w \in Workers : w # v => state'[w] = state[w]
  BY DEF StartProcess, IndInv, TypeOK
<1>2. \A c \in Actors : own'[c] = IF c = a THEN v ELSE own[c]
  BY OwnTypes
<1>3. ASSUME NEW w \in Workers, w # v, state'[w] # "gone"  PROVE (Pooled(w) \/ Held(w))'
  <2>1. Pooled(w) \/ Held(w)
    BY <1>1, <1>3 DEF Accounted, Live
  <2>2. Pooled(w) => Pooled(w)'
    BY DEF Pooled
  <2>3. Held(w) => Held(w)'
    BY <1>2, PoolAssumption DEF Held
  <2>4. QED  BY <2>1, <2>2, <2>3
<1>4. Held(v)'
  BY <1>2 DEF Held
<1>5. QED  BY <1>3, <1>4 DEF Accounted, Live

\* A task lets its worker go: it is dropped, or it is in the pool.
LEMMA AccountedFree ==
    ASSUME IndInv, Accounted, NEW a \in Actors, own[a] # NoWorker,
           own' = [own EXCEPT ![a] = NoWorker],
           \A w \in Workers \ {own[a]} : state'[w] # "gone" => state[w] # "gone",
           \/ pool' = pool /\ state'[own[a]] = "gone"
           \/ pool' = Append(pool, own[a])
    PROVE  Accounted'
<1>1. PICK v \in Workers : v = own[a]
  BY Mine
<1>2. \A c \in Actors : own'[c] = IF c = a THEN NoWorker ELSE own[c]
  BY OwnTypes
<1>3. \A i \in DOMAIN pool : i \in DOMAIN pool' /\ pool'[i] = pool[i]
  BY PoolGrows
<1>4. ASSUME NEW w \in Workers, w # v, state'[w] # "gone"  PROVE (Pooled(w) \/ Held(w))'
  <2>1. Pooled(w) \/ Held(w)
    BY <1>1, <1>4 DEF Accounted, Live
  <2>2. Pooled(w) => Pooled(w)'
    BY <1>3 DEF Pooled
  <2>3. Held(w) => Held(w)'
    BY <1>1, <1>2, <1>4, PoolAssumption DEF Held
  <2>4. QED  BY <2>1, <2>2, <2>3
<1>5. state'[v] # "gone" => Pooled(v)'
  <2>1. SUFFICES ASSUME pool' = Append(pool, v)  PROVE Pooled(v)'
    BY <1>1
  <2>2. Len(pool) + 1 \in DOMAIN pool' /\ pool'[Len(pool) + 1] = v
    BY <1>1, <2>1, OwnTypes
  <2>3. QED  BY <2>2 DEF Pooled
<1>6. QED  BY <1>4, <1>5 DEF Accounted, Live

LEMMA AccountedAcquire ==
    ASSUME IndInv, Accounted, NEW b \in Batches, Acquire(b)
    PROVE  Accounted'
<1>1. PICK i \in DOMAIN pool :
        /\ Drop({pool[j] : j \in i + 1 .. Len(pool)})
        /\ pool' = SubSeq(pool, 1, i - 1)
        /\ own' = [own EXCEPT ![b] = pool[i]]
  BY DEF Acquire
<1>2. pool \in Seq(Workers) /\ i \in 1 .. Len(pool) /\ DOMAIN pool = 1 .. Len(pool)
  BY OwnTypes
<1>3. DOMAIN pool' = 1 .. i - 1 /\ \A j \in 1 .. i - 1 : pool'[j] = pool[j]
  BY <1>1, <1>2
<1>4. b \in Actors /\ own[b] = NoWorker
  BY DEF Acquire, IndInv, OwnInv, Holding, Actors
<1>5. \A c \in Actors : own'[c] = IF c = b THEN pool[i] ELSE own[c]
  BY <1>1, OwnTypes
<1>6. \A w \in Workers : state'[w] # "gone" =>
         state[w] # "gone" /\ \A j \in i + 1 .. Len(pool) : pool[j] # w
  BY <1>1 DEF Drop
<1>7. SUFFICES ASSUME NEW w \in Workers, state'[w] # "gone"  PROVE (Pooled(w) \/ Held(w))'
  BY DEF Accounted, Live
<1>8. CASE Held(w)
  BY <1>4, <1>5, <1>8, PoolAssumption DEF Held
<1>9. CASE Pooled(w)
  <2>1. PICK j \in 1 .. Len(pool) : pool[j] = w
    BY <1>2, <1>9 DEF Pooled
  <2>2. j \notin i + 1 .. Len(pool)
    BY <1>6, <1>7, <2>1
  <2>3. j \in 1 .. i - 1 \/ j = i
    BY <1>2, <2>1, <2>2
  <2>4. CASE j \in 1 .. i - 1
    BY <1>3, <2>1, <2>4 DEF Pooled
  <2>5. CASE j = i
    BY <1>4, <1>5, <2>1, <2>5 DEF Held
  <2>6. QED  BY <2>3, <2>4, <2>5
<1>10. QED  BY <1>6, <1>7, <1>8, <1>9 DEF Accounted, Live

LEMMA AccountedAcquireNothing ==
    ASSUME IndInv, Accounted, NEW b \in Batches, AcquireNothing(b)
    PROVE  Accounted'
<1>1. \A w \in Workers : state'[w] # "gone" => state[w] # "gone" /\ ~Pooled(w)
  BY DEF AcquireNothing, Drop, Pooled
<1>2. UNCHANGED own
  BY DEF AcquireNothing
<1>3. QED  BY <1>1, <1>2 DEF Accounted, Live, Held

LEMMA AccountedBatch ==
    ASSUME IndInv, Accounted, NEW b \in Batches, Batch(b)
    PROVE  Accounted'
<1>1. b \in Actors
  BY DEF Actors
<1>2. \A w \in Workers, W \in SUBSET Workers :
         Drop(W) => (state'[w] # "gone" => state[w] # "gone") /\ (w \in W => state'[w] = "gone")
  BY DEF Drop
<1>3. pc[b] \in Holding => own[b] # NoWorker /\ own[b] \in Workers /\ state[own[b]] # "gone"
  BY <1>1, Mine DEF IndInv, OwnInv, HandInv, Holding
<1>4. CASE Acquire(b) \/ AcquireNothing(b)
  BY <1>4, AccountedAcquire, AccountedAcquireNothing
<1>5. CASE SpawnTemporary(b)
  <2>1. own[b] = NoWorker
    BY <1>1, <1>5 DEF SpawnTemporary, IndInv, OwnInv, Holding
  <2>2. QED  BY <1>1, <1>5, <2>1, AccountedSpawn DEF SpawnTemporary
<1>6. CASE TemporaryReady(b) \/ Send(b) \/ SendFails(b) \/ ReadLine(b) \/ ReadFails(b)
  <2>1. /\ UNCHANGED <<pool, own>> /\ pc[b] \in Holding
        /\ \E s : state' = [state EXCEPT ![own[b]] = s]
    BY <1>6 DEF TemporaryReady, Send, SendFails, ReadLine, ReadFails, Holding
  <2>2. \A w \in Workers : w # own[b] => state'[w] = state[w]
    BY <2>1, OwnTypes
  <2>3. QED  BY <1>3, <2>1, <2>2, AccountedFrame
<1>7. CASE SpawnRefused(b)
  BY <1>7, AccountedFrame DEF SpawnRefused
<1>8. CASE TemporaryLost(b)
  <2>1. Drop({own[b]}) /\ own' = [own EXCEPT ![b] = NoWorker] /\ UNCHANGED pool /\ own[b] # NoWorker
    BY <1>3, <1>8 DEF TemporaryLost, Holding
  <2>2. own[b] \in Workers
    BY <1>1, <2>1, Mine
  <2>3. state'[own[b]] = "gone" /\ \A w \in Workers : state'[w] # "gone" => state[w] # "gone"
    BY <1>2, <2>1, <2>2
  <2>4. QED  BY <1>1, <2>1, <2>3, AccountedFree
<1>9. CASE Release(b)
  <2>1. own' = [own EXCEPT ![b] = NoWorker] /\ own[b] # NoWorker /\ own[b] \in Workers
    BY <1>3, <1>9 DEF Release, Holding
  <2>2. \/ pool' = Append(pool, own[b]) /\ state' = state
        \/ Drop({own[b]}) /\ pool' = pool
    BY <1>9 DEF Release
  <2>3. \A w \in Workers : state'[w] # "gone" => state[w] # "gone"
    BY <1>2, <2>1, <2>2
  <2>4. pool' = Append(pool, own[b]) \/ (pool' = pool /\ state'[own[b]] = "gone")
    BY <1>2, <2>1, <2>2
  <2>5. QED  BY <1>1, <2>1, <2>3, <2>4, AccountedFree
<1>10. QED  BY <1>4, <1>5, <1>6, <1>7, <1>8, <1>9 DEF Batch

LEMMA AccountedEnsure ==
    ASSUME IndInv, Accounted, NEW a \in Actors, Ensure(a)
    PROVE  Accounted'
<1>1. CASE EnsureBegin(a) \/ RefillRefused(a) \/ EnsureEnd(a)
  BY <1>1, AccountedFrame DEF EnsureBegin, RefillRefused, EnsureEnd
<1>2. CASE RefillSpawn(a)
  BY <1>2, AccountedSpawn DEF RefillSpawn
<1>3. CASE RefillReady(a)
  <2>1. /\ own[a] # NoWorker /\ own' = [own EXCEPT ![a] = NoWorker]
        /\ pool' = Append(pool, own[a]) /\ state' = [state EXCEPT ![own[a]] = "ready"]
    BY <1>3 DEF RefillReady
  <2>2. \A w \in Workers \ {own[a]} : state'[w] # "gone" => state[w] # "gone"
    BY <2>1, OwnTypes
  <2>3. QED  BY <2>1, <2>2, AccountedFree
<1>4. CASE RefillLost(a)
  <2>1. /\ own[a] # NoWorker /\ own' = [own EXCEPT ![a] = NoWorker]
        /\ UNCHANGED pool /\ Drop({own[a]})
    BY <1>4 DEF RefillLost
  <2>2. own[a] \in Workers
    BY <2>1, Mine
  <2>3. state'[own[a]] = "gone" /\ \A w \in Workers : state'[w] # "gone" => state[w] # "gone"
    BY <2>1, <2>2 DEF Drop
  <2>4. QED  BY <2>1, <2>3, AccountedFree
<1>5. QED  BY <1>1, <1>2, <1>3, <1>4 DEF Ensure

LEMMA AccountedNext == IndInv /\ Accounted /\ [Next]_vars => Accounted'
<1> SUFFICES ASSUME IndInv, Accounted, [Next]_vars  PROVE Accounted'
  OBVIOUS
<1>1. CASE ExecuteParallel \/ JoinAll
  BY <1>1, AccountedFrame DEF ExecuteParallel, JoinAll
<1>2. CASE (\E b \in Batches : Batch(b)) \/ (\E a \in Actors : Ensure(a))
  BY <1>2, AccountedBatch, AccountedEnsure
<1>3. CASE (\E w \in Workers : Python(w)) \/ UNCHANGED vars
  <2>1. UNCHANGED <<pool, own, state>>
    BY <1>3 DEF Python, PyReady, PyTake, PyTestBegin, PyTestEnd, PyDone, PyRaise, PyRetire,
                PyCrash, vars, rustVars
  <2>2. QED  BY <2>1, AccountedFrame
<1>4. QED  BY <1>1, <1>2, <1>3 DEF Next

-----------------------------------------------------------------------------
(* The count *)

\* A set whose members a function on a finite set reaches is no larger.
LEMMA ImageBound ==
    ASSUME NEW S, IsFiniteSet(S), NEW f, DOMAIN f = S, f = [x \in S |-> f[x]]
    PROVE  /\ IsFiniteSet({f[x] : x \in S})
           /\ Cardinality({f[x] : x \in S}) <= Cardinality(S)
<1> DEFINE T == {f[x] : x \in S}
<1>1. f \in Surjection(S, T)
  BY DEF Surjection
<1>2. QED  BY <1>1, FS_Surjection

LEMMA PooledBound ==
    ASSUME IndInv
    PROVE  /\ IsFiniteSet({pool[i] : i \in DOMAIN pool})
           /\ Cardinality({pool[i] : i \in DOMAIN pool}) <= Len(pool)
<1>1. DOMAIN pool = 1 .. Len(pool) /\ Len(pool) \in Nat /\ pool = [i \in DOMAIN pool |-> pool[i]]
  BY OwnTypes
<1>2. IsFiniteSet(DOMAIN pool) /\ Cardinality(DOMAIN pool) = Len(pool)
  <2>1. \A n \in Nat : IsFiniteSet(1 .. n) /\ Cardinality(1 .. n) = n
    BY FS_Interval
  <2>2. QED  BY <1>1, <2>1
<1>3. QED  BY <1>1, <1>2, ImageBound

LEMMA HeldBound ==
    ASSUME IndInv
    PROVE  /\ IsFiniteSet({own[b] : b \in Batches})
           /\ Cardinality({own[b] : b \in Batches}) <= Cardinality(Batches)
<1> DEFINE f == [b \in Batches |-> own[b]]
<1>1. DOMAIN f = Batches /\ f = [b \in Batches |-> f[b]] /\ {own[b] : b \in Batches} = {f[b] : b \in Batches}
  OBVIOUS
<1> HIDE DEF f
<1>2. QED  BY <1>1, ImageBound, PoolAssumption

LEMMA LiveBound ==
    ASSUME IndInv, Accounted
    PROVE  LiveWorkersBounded
<1> DEFINE P == {pool[i] : i \in DOMAIN pool}
           H == {own[b] : b \in Batches}
           O == IF own[Owner] = NoWorker THEN P ELSE P \cup {own[Owner]}
<1>1. IsFiniteSet(P) /\ Cardinality(P) <= Len(pool) /\ Cardinality(P) \in Nat
  BY PooledBound, FS_CardinalityType
<1>2. IsFiniteSet(H) /\ Cardinality(H) <= Cardinality(Batches) /\ Cardinality(H) \in Nat
  BY HeldBound, FS_CardinalityType
<1>3. /\ Len(pool) \in Nat /\ refill \in Nat /\ Size \in Nat /\ Len(pool) + refill <= Size
      /\ own[Owner] # NoWorker => refill > 0
  <2>1. Len(pool) \in Nat /\ refill \in Nat /\ Size \in Nat /\ Len(pool) + refill <= Size
    BY PoolAssumption, OwnTypes DEF IndInv, RoomKept, TypeOK
  <2>2. own[Owner] # NoWorker => pc[Owner] = "refill"
    BY DEF IndInv, OwnInv, TaskInv, Holding, Actors
  <2>3. own[Owner] # NoWorker => refill > 0
    BY <2>2 DEF IndInv, OwnInv, Actors
  <2>4. QED  BY <2>1, <2>3
<1>4. IsFiniteSet(O) /\ Cardinality(O) <= Size /\ Cardinality(O) \in Nat
  <2>1. /\ IsFiniteSet(P \cup {own[Owner]})
        /\ Cardinality(P \cup {own[Owner]}) <= Cardinality(P) + 1
        /\ Cardinality(P \cup {own[Owner]}) \in Nat
    <3> HIDE DEF P
    <3>1. /\ IsFiniteSet(P \cup {own[Owner]})
          /\ Cardinality(P \cup {own[Owner]}) =
                IF own[Owner] \in P THEN Cardinality(P) ELSE Cardinality(P) + 1
      BY <1>1, FS_AddElement
    <3>2. QED  BY <1>1, <3>1
  <2> HIDE DEF P
  <2>2. QED  BY <1>1, <1>3, <2>1
<1>5. IsFiniteSet(O \cup H) /\ Cardinality(O \cup H) <= Size + Cardinality(Batches)
      /\ Cardinality(O \cup H) \in Nat
  <2> HIDE DEF O, H
  <2>1. IsFiniteSet(O \cap H) /\ Cardinality(O \cap H) \in Nat
    BY <1>4, FS_Intersection, FS_CardinalityType
  <2>2. Cardinality(Batches) \in Nat
    BY PoolAssumption, FS_CardinalityType
  <2>3. /\ IsFiniteSet(O \cup H)
        /\ Cardinality(O \cup H) = Cardinality(O) + Cardinality(H) - Cardinality(O \cap H)
    BY <1>2, <1>4, FS_Union
  <2>4. QED  BY <1>2, <1>3, <1>4, <2>1, <2>2, <2>3, FS_CardinalityType
<1>6. Live \subseteq O \cup H
  BY PoolAssumption DEF Accounted, Live, Pooled, Held, Actors
<1>7. Cardinality(Live) <= Size + Cardinality(Batches)
  <2> HIDE DEF O, H
  <2>1. IsFiniteSet(Live) /\ Cardinality(Live) <= Cardinality(O \cup H)
    BY <1>5, <1>6, FS_Subset
  <2>2. QED  BY <1>3, <1>5, <2>1, PoolAssumption, FS_CardinalityType
<1>8. QED  BY <1>7 DEF LiveWorkersBounded, Live

(* However many batches miss the pool at once and spawn temporary workers,
   and however their refills interleave, there are never more Worker values
   alive than the pool's size and one for each batch. *)
THEOREM WorkersBounded == Spec => []LiveWorkersBounded
<1>1. Init => Accounted
  BY DEF Init, Accounted, Live
<1>2. IndInv /\ Accounted /\ [Next]_vars => Accounted'
  BY AccountedNext
<1>3. IndInv /\ Accounted => LiveWorkersBounded
  BY LiveBound
<1>4. QED  BY <1>1, <1>2, <1>3, Invariance, PTL DEF Spec

-----------------------------------------------------------------------------
(***************************************************************************)
(* The worker pool takes only steps of BatchService, for every number of   *)
(* batches, tests and workers: execute_parallel hands its caller one       *)
(* answer for every batch, made at once, and returns after the last one.   *)
(* That it does return is left to the model checker.                       *)
(***************************************************************************)

\* Where a batch has no answer yet.
Early == {"acquire", "spawn", "greet", "run", "read"}

\* Only a batch with tests is run, and it has its answer once it is past the
\* read of its reply.
CallInv ==
    /\ \A b \in Batches : pc[b] \in Early => \E t \in Tests : split[t] = b
    /\ pc[Owner] = "joining" =>
          \A t \in Tests : pc[split[t]] \notin Early => outcome[t] # "none"

\* A step that makes no answer, and lets no batch past the read of its reply.
LEMMA Silent ==
    ASSUME IndInv, CallInv, UNCHANGED <<split, outcome>>,
           \A a \in Actors : pc'[a] \in Early <=> pc[a] \in Early,
           pc'[Owner] = "joining" <=> pc[Owner] = "joining"
    PROVE  CallInv' /\ UNCHANGED Service!vars
<1>1. split \in [Tests -> Batches] /\ Batches \subseteq Actors
  BY DEF IndInv, TypeOK, Actors
<1>2. CallInv'
  BY <1>1 DEF CallInv
<1>3. (pc[Owner] = "joining")' = (pc[Owner] = "joining")
  OBVIOUS
<1>4. QED  BY <1>2, <1>3 DEF Service!vars

\* A step that moves one actor, which is not a join.
LEMMA OneMoves ==
    ASSUME IndInv, NEW a \in Actors, NEW p, pc' = [pc EXCEPT ![a] = p],
           p # "joining", pc[a] # "joining", p \in Early <=> pc[a] \in Early
    PROVE  /\ \A c \in Actors : pc'[c] \in Early <=> pc[c] \in Early
           /\ pc'[Owner] = "joining" <=> pc[Owner] = "joining"
<1>1. \A c \in Actors : pc'[c] = IF c = a THEN p ELSE pc[c]
  BY OwnTypes
<1>2. Owner \in Actors
  BY DEF Actors
<1>3. QED  BY <1>1, <1>2

\* A step that answers a batch.
LEMMA Answers ==
    ASSUME IndInv, CallInv, NEW b \in Batches, pc[b] \in Early,
           NEW p \in {"release", "idle"}, pc' = [pc EXCEPT ![b] = p],
           NEW kinds \in {{"error"}, {"reported", "missing"}},
           NEW answer \in [Tests -> kinds],
           outcome' = [t \in Tests |-> IF split[t] = b THEN answer[t] ELSE outcome[t]],
           UNCHANGED split
    PROVE  CallInv' /\ Service!Answer(b)
<1>1. /\ split \in [Tests -> Batches] /\ Batches \subseteq Actors /\ Owner \in Actors
      /\ Owner \notin Batches
  BY PoolAssumption DEF IndInv, TypeOK, Actors
<1>2. \A c \in Actors : pc'[c] = IF c = b THEN p ELSE pc[c]
  BY <1>1, OwnTypes
<1>3. \A t \in Tests : outcome'[t] = IF split[t] = b THEN answer[t] ELSE outcome[t]
  OBVIOUS
<1>4. \A t \in Tests : answer[t] # "none"
  OBVIOUS
<1>5. p \notin Early /\ p # "joining"
  BY DEF Early
<1>6. pc[Owner] = "joining" /\ pc'[Owner] = "joining"
  BY <1>1, <1>2, <1>5 DEF IndInv, TaskInv, Early
<1>7. CallInv'
  BY <1>1, <1>2, <1>3, <1>4, <1>5, <1>6 DEF CallInv
<1>8. \A t \in Tests : split[t] = b => outcome[t] = "none"
  BY DEF IndInv, AnswerInv, Early
<1>9. \E t \in Tests : split[t] = b
  BY DEF CallInv
<1>10. Service!Answer(b)
  BY <1>6, <1>8, <1>9 DEF Service!Answer
<1>11. QED  BY <1>7, <1>10

LEMMA OwnerSteps ==
    ASSUME IndInv, CallInv, ExecuteParallel \/ JoinAll
    PROVE  CallInv' /\ (Service!Call \/ Service!Return)
<1>1. /\ split \in [Tests -> Batches] /\ Batches \subseteq Actors /\ Owner \in Actors
      /\ Owner \notin Batches
  BY PoolAssumption DEF IndInv, TypeOK, Actors
<1>2. CASE ExecuteParallel
  <2>1. /\ pc' = [a \in Actors |->
                    IF a = Owner THEN "joining"
                    ELSE IF \E t \in Tests : split'[t] = a THEN "acquire" ELSE "idle"]
        /\ split' \in [Tests -> Batches] /\ outcome' = [t \in Tests |-> "none"]
        /\ pc[Owner] = "idle"
    BY <1>2 DEF ExecuteParallel
  <2>2. \A b \in Batches : pc'[b] \in Early <=> \E t \in Tests : split'[t] = b
    BY <1>1, <2>1 DEF Early
  <2>3. CallInv'
    BY <2>1, <2>2 DEF CallInv
  <2>4. pc'[Owner] = "joining"
    BY <1>1, <2>1
  <2>5. Service!Call
    BY <2>1, <2>4 DEF Service!Call
  <2>6. QED  BY <2>3, <2>5
<1>3. CASE JoinAll
  <2>1. /\ pc[Owner] = "joining" /\ \A b \in Batches : pc[b] = "idle"
        /\ pc' = [pc EXCEPT ![Owner] = "idle"]
        /\ UNCHANGED <<split, outcome>>
    BY <1>3 DEF JoinAll, callVars
  <2>2. pc'[Owner] = "idle" /\ \A b \in Batches : pc'[b] = "idle"
    BY <1>1, <2>1, OwnTypes
  <2>3. CallInv'
    BY <2>2 DEF CallInv, Early
  <2>4. \A b \in Batches : Service!Answered(b)
    BY <1>1, <2>1 DEF CallInv, Early, Service!Answered
  <2>5. Service!Return
    BY <2>1, <2>2, <2>4 DEF Service!Return
  <2>6. QED  BY <2>3, <2>5
<1>4. QED  BY <1>2, <1>3

LEMMA BatchSteps ==
    ASSUME IndInv, CallInv, NEW b \in Batches, Batch(b)
    PROVE  CallInv' /\ (Service!Answer(b) \/ UNCHANGED Service!vars)
<1>1. b \in Actors /\ pc[b] # "joining"
  BY DEF Actors, IndInv, TaskInv
<1>2. ASSUME AnswerError(b), UNCHANGED split, pc[b] \in Early,
             NEW p \in {"release", "idle"}, pc' = [pc EXCEPT ![b] = p]
      PROVE  CallInv' /\ Service!Answer(b)
  <2>1. PICK answer \in [Tests -> {"error"}] : answer = [t \in Tests |-> "error"]
    OBVIOUS
  <2>2. outcome' = [t \in Tests |-> IF split[t] = b THEN answer[t] ELSE outcome[t]]
    BY <1>2, <2>1 DEF AnswerError
  <2>3. QED  BY <1>2, <2>2, Answers
<1>3. CASE Acquire(b) \/ AcquireNothing(b) \/ SpawnTemporary(b) \/ TemporaryReady(b)
            \/ Send(b) \/ Release(b)
  <2>1. PICK p : /\ pc' = [pc EXCEPT ![b] = p] /\ p # "joining"
                 /\ p \in Early <=> pc[b] \in Early
    BY <1>3 DEF Acquire, AcquireNothing, SpawnTemporary, TemporaryReady, Send, Release, Early
  <2>2. UNCHANGED <<split, outcome>>
    BY <1>3 DEF Acquire, AcquireNothing, SpawnTemporary, TemporaryReady, Send, Release, callVars
  <2>3. QED  BY <1>1, <2>1, <2>2, OneMoves, Silent
<1>4. CASE SpawnRefused(b) \/ TemporaryLost(b)
  BY <1>2, <1>4 DEF SpawnRefused, TemporaryLost, Early
<1>5. CASE SendFails(b) \/ ReadFails(b)
  BY <1>2, <1>5 DEF SendFails, ReadFails, Early
<1>6. CASE ReadLine(b)
  <2>1. /\ pc[b] = "read" /\ pc' = [pc EXCEPT ![b] = "release"] /\ UNCHANGED split
        /\ AnswerError(b) \/ AnswerWith(b, Head(stdout[own[b]]).results)
    BY <1>6 DEF ReadLine
  <2>2. CASE AnswerError(b)
    BY <1>2, <2>1, <2>2 DEF Early
  <2>3. ASSUME NEW results, AnswerWith(b, results)  PROVE CallInv' /\ Service!Answer(b)
    <3>1. PICK answer \in [Tests -> {"reported", "missing"}] :
             answer = [t \in Tests |-> IF t \in results THEN "reported" ELSE "missing"]
      OBVIOUS
    <3>2. outcome' = [t \in Tests |-> IF split[t] = b THEN answer[t] ELSE outcome[t]]
      BY <2>3, <3>1 DEF AnswerWith
    <3>3. pc[b] \in Early
      BY <2>1 DEF Early
    <3>4. QED  BY <2>1, <3>2, <3>3, Answers
  <2>4. QED  BY <2>1, <2>2, <2>3
<1>7. QED  BY <1>3, <1>4, <1>5, <1>6 DEF Batch

LEMMA OtherSteps ==
    ASSUME IndInv, CallInv,
           \/ \E a \in Actors : Ensure(a)
           \/ \E w \in Workers : Python(w)
           \/ UNCHANGED vars
    PROVE  CallInv' /\ UNCHANGED Service!vars
<1>1. UNCHANGED <<split, outcome>>
  BY DEF Ensure, EnsureBegin, RefillSpawn, RefillReady, RefillRefused, RefillLost, EnsureEnd,
         Python, PyReady, PyTake, PyTestBegin, PyTestEnd, PyDone, PyRaise, PyRetire, PyCrash,
         vars, callVars
<1>2. CASE \E a \in Actors : Ensure(a)
  <2>1. PICK a \in Actors : Ensure(a)
    BY <1>2
  <2>2. PICK p : /\ pc' = [pc EXCEPT ![a] = p] /\ p # "joining" /\ pc[a] # "joining"
                 /\ p \notin Early /\ pc[a] \notin Early
    <3>1. pc' = pc => pc' = [pc EXCEPT ![a] = pc[a]]
      BY PcStays
    <3>2. QED
      BY <2>1, <3>1 DEF Ensure, EnsureBegin, RefillSpawn, RefillReady, RefillRefused, RefillLost,
         EnsureEnd, Early
  <2>3. QED  BY <1>1, <2>2, OneMoves, Silent
<1>3. CASE UNCHANGED pc
  BY <1>1, <1>3, Silent
<1>4. (\E w \in Workers : Python(w)) \/ UNCHANGED vars => UNCHANGED pc
  BY DEF Python, PyReady, PyTake, PyTestBegin, PyTestEnd, PyDone, PyRaise, PyRetire, PyCrash,
         vars, rustVars
<1>5. QED  BY <1>2, <1>3, <1>4

(* The pool implements the service it is there for: a test of a call is in
   one answer and one only, a batch is answered as a whole, with pytest's
   report or with an Error for each of its tests, and execute_parallel does
   not return before the last answer.  This is the safety part of
   ServiceSpec. *)
THEOREM Implements == Spec => Service!SafeSpec
<1>1. Init => CallInv /\ Service!Init
  BY PoolAssumption DEF Init, CallInv, Early, Actors, Service!Init
<1>2. IndInv /\ CallInv /\ [Next]_vars => CallInv' /\ [Service!Next]_(Service!vars)
  BY OwnerSteps, BatchSteps, OtherSteps DEF Next, Service!Next
<1>3. QED  BY <1>1, <1>2, Invariance, PTL DEF Spec, Service!SafeSpec
=============================================================================
