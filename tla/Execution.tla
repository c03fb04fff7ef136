------------------------------ MODULE Execution ------------------------------
(***************************************************************************)
(* One run of tests, from the list a client sends to the exit code of its  *)
(* command: RepoContext::run_tests (rpytest-daemon/src/context.rs) with    *)
(* the subprocess executor (executor.rs), which has pytest run batches and *)
(* reads what it prints, or with the embedded one (embedded.rs), whose     *)
(* plugin is called by pytest. The pooled executor is WorkerPool.          *)
(***************************************************************************)
EXTENDS Lists, SequencesExt, FiniteSetsExt

CONSTANTS
    Tests,       \* node ids
    NameOf,      \* what follows the last "::" of a node id
    InClass,     \* the node ids with a class between file and name
    Requests,    \* the lists a client may send
    SkipMarked,  \* the tests the inventory has a skip marker for
    Modes,       \* executors: "subprocess", "embedded"
    Batch,       \* batch_size
    Workers,     \* workers
    None         \* no word, no summary

Outcome == {"passed", "failed", "skipped", "error", "xfail", "xpass"}

\* What pytest makes of a test: an outcome, where "error" is one of its
\* set-up, or one of its tear-down after it passed, or it is never reached.
Verdict == Outcome \cup {"teardown", "unreached"}
Bad == {"failed", "error", "teardown"}

\* The kind of result the last line of pytest's output names last.
Closing == {"passed", "failed", "skipped", "errors", "other", "none"}

ASSUME ExecutionAssumption ==
    /\ Requests \subseteq Seq(Tests) /\ \A r \in Requests : IsInjective(r)
    /\ InClass \subseteq Tests /\ SkipMarked \subseteq Tests
    /\ Modes \subseteq {"subprocess", "embedded"}
    /\ Batch \in Nat \ {0} /\ Workers \in Nat
    /\ None \notin Outcome

VARIABLES
    stage,    \* "idle", "running", "gathered" or "done"
    mode,     \* the executor
    asked,    \* the list of the request
    batches,  \* what run_tests splits it into
    task,     \* each batch's task: "waiting", "running" or "done"
    found,    \* the verdict of every test pytest was given
    read,     \* the tests whose line can be read
    parsed,   \* the results of each batch
    results,  \* what run_tests of the executor returns
    summary   \* the RunSummary, None before

execVars == <<stage, mode, asked, batches, task, found, read, parsed, results, summary>>

ExecInit ==
    /\ stage = "idle"
    /\ mode \in Modes
    /\ asked = <<>> /\ batches = <<>> /\ task = <<>> /\ parsed = <<>> /\ results = <<>>
    /\ found = [t \in Tests |-> "unreached"]
    /\ read = {}
    /\ summary = None

-----------------------------------------------------------------------------
(* pytest *)

Reached(v) == Cardinality({i \in DOMAIN v : v[i] # "unreached"})
Kinds(v) == {v[i] : i \in DOMAIN v}

\* pytest takes the tests in order and may stop before any: it was told to
\* by --maxfail or a plugin, could not start or collect, or died.
Verdicts(b) ==
    {v \in [DOMAIN b -> Verdict] : \A i \in 1 .. Reached(v) : v[i] # "unreached"}

\* The verdicts of all tests when b has run.
FoundAfter(b, v) ==
    [t \in Tests |-> IF t \in ToSet(b) THEN v[CHOOSE j \in DOMAIN b : b[j] = t] ELSE found[t]]

\* The kinds stand in a fixed order, errors last and "1 error" not read.
LastKind(v) ==
    LET errors == Cardinality({i \in DOMAIN v : v[i] \in {"error", "teardown"}}) IN
    IF errors > 1 THEN "errors"
    ELSE IF errors = 1 \/ Kinds(v) \cap {"xfail", "xpass"} # {} THEN "other"
    ELSE IF "skipped" \in Kinds(v) THEN "skipped"
    ELSE IF "passed" \in Kinds(v) THEN "passed"
    ELSE "failed"

\* The last line may be missing: pytest died, or a line before it was not
\* UTF-8 and read_output stopped there. Warnings come last but for errors.
Closings(v) ==
    {"none"} \cup IF Reached(v) = 0 THEN {"errors", "other"}
                  ELSE {LastKind(v)} \cup IF LastKind(v) = "errors" THEN {} ELSE {"other"}

\* Whether everything ran and nothing failed: exit code 0.
Clean(tests) == \A t \in tests : found[t] \notin Bad \cup {"unreached"}

-----------------------------------------------------------------------------
(* The subprocess executor: parse_batch_output *)

\* The word on a test's line; ERROR is not among those looked for, and an
\* error of the tear-down comes on a second line.
Word(verdict) ==
    CASE verdict = "teardown"               -> "passed"
      [] verdict \in {"error", "unreached"} -> None
      [] OTHER                              -> verdict

\* What is made of a test without a line.
Fallback(closing) ==
    CASE closing = "passed"  -> "passed"
      [] closing = "failed"  -> "failed"
      [] closing = "errors"  -> "error"
      [] closing = "skipped" -> "skipped"
      [] OTHER               -> "passed"

\* Mutant: the name is looked up before the node id.
OutcomeByName(b, v, lines, closing, i) ==
    LET alike == {j \in lines : NameOf[b[j]] = NameOf[b[i]]} IN
    IF b[i] \notin InClass /\ alike # {} THEN Word(v[Max(alike)])
    ELSE IF i \in lines THEN Word(v[i])
    ELSE Fallback(closing)

\* lines are the places in the batch whose line can be read. Lines are kept
\* by node id and by name, the later one of a name over the earlier; a test
\* is looked up by what follows its file, which for a method is no name.
OutcomeOf(b, v, lines, closing, i) ==
    LET alike == {j \in lines : NameOf[b[j]] = NameOf[b[i]]} IN
    IF i \in lines THEN Word(v[i])
    ELSE IF b[i] \notin InClass /\ alike # {} THEN Word(v[Max(alike)])
    ELSE Fallback(closing)

Result(t, o) == [test |-> t, outcome |-> o]

ParseBatch(b, v, lines, closing) ==
    [i \in DOMAIN b |-> Result(b[i], OutcomeOf(b, v, lines, closing, i))]

-----------------------------------------------------------------------------
(* The subprocess executor: run_tests *)

Runnable(s) == Without(s, SkipMarked)

\* Mutant: the last tests make no batch when they do not fill one.
ChunksWhole(s) ==
    [i \in 1 .. Len(s) \div Batch |-> SubSeq(s, (i - 1) * Batch + 1, i * Batch)]

Chunks(s) ==
    [i \in 1 .. (Len(s) + Batch - 1) \div Batch |->
        SubSeq(s, (i - 1) * Batch + 1, Min({i * Batch, Len(s)}))]

\* One batch at a time, or a permit of the semaphore for each worker.
Permits == IF Workers > 1 /\ Len(batches) > 1 THEN Workers ELSE 1
Running == {i \in DOMAIN task : task[i] = "running"}

Begin(request) ==
    /\ stage = "idle"
    /\ stage' = "running"
    /\ asked' = request
    /\ batches' = IF mode = "subprocess" THEN Chunks(Runnable(request)) ELSE <<Runnable(request)>>
    /\ task' = [i \in DOMAIN batches' |-> "waiting"]
    /\ parsed' = [i \in DOMAIN batches' |-> <<>>]
    /\ UNCHANGED <<mode, found, read, results, summary>>

\* The loop waits for a permit before it spawns the next task.
StartBatch(i) ==
    /\ stage = "running" /\ mode = "subprocess"
    /\ task[i] = "waiting" /\ \A j \in 1 .. i - 1 : task[j] # "waiting"
    /\ Cardinality(Running) < Permits
    /\ task' = [task EXCEPT ![i] = "running"]
    /\ UNCHANGED <<stage, mode, asked, batches, found, read, parsed, results, summary>>

\* pytest ends; a line is read unless the test printed into it.
FinishBatch(i) ==
    LET b == batches[i] IN
    /\ stage = "running" /\ mode = "subprocess" /\ task[i] = "running"
    /\ \E v \in Verdicts(b) :
          \E lines \in SUBSET {j \in DOMAIN b : Word(v[j]) # None}, closing \in Closings(v) :
             /\ parsed' = [parsed EXCEPT ![i] = ParseBatch(b, v, lines, closing)]
             /\ read' = read \cup {b[j] : j \in lines}
             /\ found' = FoundAfter(b, v)
    /\ task' = [task EXCEPT ![i] = "done"]
    /\ UNCHANGED <<stage, mode, asked, batches, results, summary>>

\* The handles are awaited in the order of the batches.
Gather ==
    /\ stage = "running" /\ mode = "subprocess"
    /\ \A i \in DOMAIN task : task[i] = "done"
    /\ stage' = "gathered"
    /\ results' = FlattenSeq(parsed)
    /\ UNCHANGED <<mode, asked, batches, task, found, read, parsed, summary>>

-----------------------------------------------------------------------------
(* The embedded executor *)

\* Mutant: the plugin records the call of a test only.
ReportsCallOnly(verdict) ==
    CASE verdict \in {"passed", "xpass", "teardown"} -> <<"passed">>
      [] verdict \in {"skipped", "xfail"}            -> <<"skipped">>
      [] verdict = "failed"                          -> <<"failed">>
      [] OTHER                                       -> <<>>

\* pytest_runtest_logreport: a result for the call, or for the set-up that
\* skipped or failed, and another for a tear-down that failed.
Reports(verdict) ==
    CASE verdict \in {"passed", "xpass"}   -> <<"passed">>
      [] verdict \in {"skipped", "xfail"}  -> <<"skipped">>
      [] verdict = "failed"                -> <<"failed">>
      [] verdict = "error"                 -> <<"error">>
      [] verdict = "teardown"              -> <<"passed", "error">>
      [] verdict = "unreached"             -> <<>>

AllOf(s, o) == [i \in DOMAIN s |-> Result(s[i], o)]

\* Without a single report every test gets the error of the exit code.
Embedded ==
    LET b == batches[1] IN
    /\ stage = "running" /\ mode = "embedded"
    /\ stage' = "gathered"
    /\ \E v \in Verdicts(b) :
          LET Of(i) == [n \in DOMAIN Reports(v[i]) |-> Result(b[i], Reports(v[i])[n])]
              reported == FlattenSeq([i \in DOMAIN b |-> Of(i)])
          IN  /\ results' = IF reported = <<>> THEN AllOf(b, "error") ELSE reported
              /\ found' = FoundAfter(b, v)
    /\ UNCHANGED <<mode, asked, batches, task, read, parsed, summary>>

\* pytest.main raises.
EmbeddedFails ==
    /\ stage = "running" /\ mode = "embedded"
    /\ stage' = "gathered"
    /\ results' = AllOf(batches[1], "error")
    /\ UNCHANGED <<mode, asked, batches, task, found, read, parsed, summary>>

-----------------------------------------------------------------------------
(* RepoContext::run_tests and the command *)

Count(o) == Cardinality({i \in DOMAIN results : results[i].outcome = o})
PreSkipped == Len(asked) - Len(Runnable(asked))

\* Mutant: the tests that were skipped beforehand are not in the total.
SummariseWithoutSkipped ==
    /\ stage = "gathered"
    /\ stage' = "done"
    /\ summary' = [total |-> Len(results), passed |-> Count("passed"),
                   failed |-> Count("failed"), skipped |-> Count("skipped") + PreSkipped,
                   errors |-> Count("error")]
    /\ UNCHANGED <<mode, asked, batches, task, found, read, parsed, results>>

\* Expected failures, failed or passed, are in the total only.
Summarise ==
    /\ stage = "gathered"
    /\ stage' = "done"
    /\ summary' = [total |-> Len(results) + PreSkipped, passed |-> Count("passed"),
                   failed |-> Count("failed"), skipped |-> Count("skipped") + PreSkipped,
                   errors |-> Count("error")]
    /\ UNCHANGED <<mode, asked, batches, task, found, read, parsed, results>>

ExitCode == IF summary.failed > 0 \/ summary.errors > 0 THEN 1 ELSE 0

\* The next command.
Again ==
    /\ stage = "done"
    /\ stage' = "idle"
    /\ asked' = <<>> /\ batches' = <<>> /\ task' = <<>> /\ parsed' = <<>> /\ results' = <<>>
    /\ found' = [t \in Tests |-> "unreached"]
    /\ read' = {}
    /\ summary' = None
    /\ UNCHANGED mode

ExecNext ==
    \/ \E request \in Requests : Begin(request)
    \/ \E i \in DOMAIN task : StartBatch(i) \/ FinishBatch(i)
    \/ Gather \/ Embedded \/ EmbeddedFails \/ Summarise \/ Again

ExecSpec == ExecInit /\ [][ExecNext]_execVars

-----------------------------------------------------------------------------
(* Properties *)

TestsOf(rs) == [i \in DOMAIN rs |-> rs[i].test]

(* Whatever pytest prints, whether it dies, and in whatever order batches    *)
(* end, the subprocess executor returns one result for each test, in the     *)
(* order they were asked for (executor.rs:225-277, 411-504).                 *)
OneResultEach ==
    stage \in {"gathered", "done"} /\ mode = "subprocess" => TestsOf(results) = Runnable(asked)

(* A test whose line can be read gets the outcome on it, also when other     *)
(* files have a test of its name and whatever the last line says             *)
(* (executor.rs:463-480).                                                    *)
LinesBelieved ==
    stage \in {"gathered", "done"} => \A i \in DOMAIN results :
        results[i].test \in read => results[i].outcome = Word(found[results[i].test])

(* The embedded executor does not lose a failure: when pytest found one, of  *)
(* a test, of its set-up or its tear-down, or ran nothing, the command's     *)
(* exit code says so (embedded.rs:99-169, 640-668, main.rs:784).             *)
EmbeddedTells ==
    stage = "done" /\ mode = "embedded" /\ Runnable(asked) # <<>>
        /\ \/ \E t \in Tests : found[t] \in Bad
           \/ \A t \in Tests : found[t] = "unreached"
        => ExitCode = 1

(* The numbers of a summary add up to its total, but for expected failures,  *)
(* and a failure the executor returned is never lost between the results     *)
(* and the exit code (context.rs:428-492).                                   *)
SummaryAddsUp ==
    stage = "done" =>
        /\ summary.passed + summary.failed + summary.skipped + summary.errors
             + Count("xfail") + Count("xpass") = summary.total
        /\ (ExitCode = 0) <=> \A i \in DOMAIN results : results[i].outcome \notin {"failed", "error"}

(* README.md:89, "Exit codes and JUnit XML match pytest exactly": the code   *)
(* is 0 exactly when pytest's own is.                                        *)
ExitCodesMatch ==
    stage = "done" /\ asked # <<>> =>
        ((ExitCode = 0) <=> Clean(ToSet(Runnable(asked))))
=============================================================================
