------------------------------ MODULE Scheduler ------------------------------
(***************************************************************************)
(* The test scheduler (rpytest-daemon/src/scheduler.rs): estimates from    *)
(* the durations of past runs, an order, and batches for workers; fed by   *)
(* RepoContext::run_tests (context.rs) and used by PooledExecutor          *)
(* (executor.rs).                                                          *)
(***************************************************************************)
EXTENDS Lists, SequencesExt, FiniteSetsExt

CONSTANTS
    Tests,      \* node ids
    Durations,  \* what a test can take, in ms
    Keep,       \* durations kept of each test: ten
    Default,    \* default_duration_ms
    Boost,      \* what a recent failure adds to a priority
    MinBatch,   \* MIN_BATCH_SIZE of the pooled executor
    Requests,   \* the lists of tests that are scheduled
    MaxWorkers  \* bound: numbers of workers looked at

ASSUME SchedulerAssumption ==
    /\ Durations \subseteq Nat
    /\ Keep \in Nat \ {0} /\ Default \in Nat /\ MinBatch \in Nat \ {0}
    /\ Boost \in Nat
    /\ Requests \subseteq Seq(Tests)
    /\ MaxWorkers \in Nat

VARIABLES
    measured,  \* RepoContext::duration_history
    history    \* TestScheduler::duration_history

schedVars == <<measured, history>>

SchedInit ==
    /\ measured = [t \in Tests |-> <<>>]
    /\ history = [t \in Tests |-> <<>>]

-----------------------------------------------------------------------------
(* Durations *)

Recent(s) == IF Len(s) > Keep THEN SubSeq(s, Len(s) - Keep + 1, Len(s)) ELSE s

UpdateDuration(durations, d) == Recent(Append(durations, d))

\* The weight of a duration is half of the next one's; in halves of the
\* oldest, 1, 2, 4, ... and the cast to an integer drops the fraction.
Weighed(sum, d) ==
    [weighted |-> sum.weighted + d * (sum.weight + 1), weight |-> 2 * sum.weight + 1]

Estimate(t) ==
    LET s == history[t]
        sum[n \in 0 .. Len(s)] ==
            IF n = 0 THEN [weighted |-> 0, weight |-> 0] ELSE Weighed(sum[n - 1], s[n])
    IN  IF s = <<>> THEN Default ELSE sum[Len(s)].weighted \div sum[Len(s)].weight

-----------------------------------------------------------------------------
(* Order and batches *)

\* A stable sort, the largest key first.
Before(s, key, i) ==
    {j \in DOMAIN s : key[s[j]] > key[s[i]] \/ (key[s[j]] = key[s[i]] /\ j < i)}

Descending(s, key) ==
    [n \in DOMAIN s |-> s[CHOOSE i \in DOMAIN s : Cardinality(Before(s, key, i)) = n - 1]]

\* Mutant: only the estimate counts.
PriorityUnboosted(t, failures) == Estimate(t)

Priority(t, failures) == Estimate(t) + IF t \in failures THEN Boost ELSE 0

Schedule(request, failures) ==
    Descending(request, [t \in Tests |-> Priority(t, failures)])

\* The first of the batches with the least to do.
Lightest(load) ==
    CHOOSE w \in DOMAIN load :
        \A v \in DOMAIN load : load[w] < load[v] \/ (load[w] = load[v] /\ w <= v)

\* Mutant: a batch is replaced instead of extended.
AssignOver(a, t) ==
    LET w == Lightest(a.load) IN
    [batches |-> [a.batches EXCEPT ![w] = <<t>>],
     load |-> [a.load EXCEPT ![w] = @ + Estimate(t)]]

\* Mutant: the tests of a batch are counted.
AssignByCount(a, t) ==
    LET w == Lightest(a.load) IN
    [batches |-> [a.batches EXCEPT ![w] = Append(@, t)],
     load |-> [a.load EXCEPT ![w] = @ + 1]]

Assign(a, t) ==
    LET w == Lightest(a.load) IN
    [batches |-> [a.batches EXCEPT ![w] = Append(@, t)],
     load |-> [a.load EXCEPT ![w] = @ + Estimate(t)]]

\* The batches and their loads when all of the sorted tests are assigned.
Assigned(sorted, workers) ==
    LET after[n \in 0 .. Len(sorted)] ==
            IF n = 0 THEN [batches |-> [w \in 1 .. workers |-> <<>>],
                           load |-> [w \in 1 .. workers |-> 0]]
            ELSE Assign(after[n - 1], sorted[n])
    IN  after[Len(sorted)]

SplitBalanced(request, workers) ==
    IF workers <= 1 \/ request = <<>> THEN <<request>>
    ELSE Without(Assigned(Descending(request, [t \in Tests |-> Estimate(t)]), workers).batches, {<<>>})

\* run_tests of the pooled executor: no more workers than fill their batches.
ActualWorkers(request, workers) ==
    IF Len(request) <= MinBatch THEN 1
    ELSE Min({workers, (Len(request) + MinBatch - 1) \div MinBatch})

-----------------------------------------------------------------------------
(* RepoContext::run_tests feeds both histories. *)

\* Mutant: the scheduler learns a duration with the next run only.
RunLate(took) ==
    /\ measured' = [t \in Tests |-> IF t \in DOMAIN took
                                    THEN UpdateDuration(measured[t], took[t]) ELSE measured[t]]
    /\ history' = [t \in Tests |-> IF measured[t] = <<>> THEN history[t]
                                   ELSE UpdateDuration(history[t], Last(measured[t]))]

\* Before the tests run the last known duration of every test is fed once
\* more; afterwards those of the run, to both.
Run(took) ==
    LET fed == [t \in Tests |-> IF measured[t] = <<>> THEN history[t]
                                ELSE UpdateDuration(history[t], Last(measured[t]))]
        WithRun(h) == [t \in Tests |-> IF t \in DOMAIN took
                                       THEN UpdateDuration(h[t], took[t]) ELSE h[t]]
    IN  /\ measured' = WithRun(measured)
        /\ history' = WithRun(fed)

SchedNext == \E ran \in SUBSET Tests : \E took \in [ran -> Durations] : Run(took)

SchedSpec == SchedInit /\ [][SchedNext]_schedVars

-----------------------------------------------------------------------------
(* Properties *)

(* What the scheduler knows last of a test is what the context measured      *)
(* last, and it knows nothing of a test that never ran: feeding every        *)
(* duration twice does not leave it behind (context.rs:396-412, 456-460).    *)
LastAgrees ==
    \A t \in Tests :
        /\ (history[t] = <<>>) <=> (measured[t] = <<>>)
        /\ measured[t] # <<>> => Last(history[t]) = Last(measured[t])

(* Batches are a partition: every test of a request is in one batch, at one  *)
(* place, and no batch is empty, with more workers than tests, none or one   *)
(* (scheduler.rs:128-159, executor.rs:645-682).                              *)
SplitPartitions ==
    \A r \in Requests, n \in 0 .. MaxWorkers :
        LET batches == SplitBalanced(r, ActualWorkers(r, n))
            places == {p \in (1 .. Len(batches)) \X (1 .. Len(r)) : p[2] <= Len(batches[p[1]])}
        IN  /\ Len(batches) <= Max({1, n})
            /\ r # <<>> => \A b \in DOMAIN batches : batches[b] # <<>>
            /\ Cardinality(places) = Len(r)
            /\ {batches[p[1]][p[2]] : p \in places} = ToSet(r)

\* What the tests at some places of a list take together.
Total(s, places) ==
    LET sum[n \in 0 .. Len(s)] ==
            IF n = 0 THEN 0
            ELSE sum[n - 1] + IF n \in places THEN Estimate(s[n]) ELSE 0
    IN  sum[Len(s)]

(* Longest first, each to the lightest batch: in any other split of the      *)
(* request, the best one too, there is a worker so busy that no batch takes  *)
(* more than 4/3 - 1/3n times as long (Graham's bound; scheduler.rs:121-126, *)
(* "to minimize total execution time").                                      *)
GreedyBound ==
    \A r \in Requests, n \in 2 .. MaxWorkers :
        LET batches == SplitBalanced(r, n) IN
        \A b \in DOMAIN batches, to \in [DOMAIN r -> 1 .. n] :
            \E w \in 1 .. n :
                3 * n * Total(batches[b], DOMAIN batches[b])
                    <= (4 * n - 1) * Total(r, {i \in DOMAIN r : to[i] = w})

(* schedule drops no test, puts recent failures first, unless a test takes   *)
(* as much longer as a failure is worth, and within each part the longest    *)
(* first (scheduler.rs:81-119).                                              *)
FailuresFirst ==
    \A r \in Requests, failures \in SUBSET Tests :
        LET s == Schedule(r, failures) IN
        /\ ToSet(s) = ToSet(r) /\ Len(s) = Len(r)
        /\ \A i, j \in DOMAIN s : i < j =>
              /\ s[j] \in failures /\ s[i] \notin failures => Estimate(s[i]) >= Estimate(s[j]) + Boost
              /\ (s[i] \in failures <=> s[j] \in failures) => Estimate(s[i]) >= Estimate(s[j])
=============================================================================
