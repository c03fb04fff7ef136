------------------------------ MODULE Flakiness ------------------------------
(***************************************************************************)
(* The flakiness tracker (rpytest-daemon/src/flakiness.rs, the states of   *)
(* models.rs) as RepoContext drives it (context.rs): outcomes are recorded *)
(* after a run, the records are written to the repository's flakiness.json *)
(* and read back when a context is made. Contexts of one repository (other *)
(* interpreter, other mode) share the file and do not know of each other.  *)
(***************************************************************************)
EXTENDS Naturals, Sequences

CONSTANTS
    Ctx,      \* contexts of one repository
    Tests,    \* node ids
    Given,    \* the outcomes runs are made of
    Keep,     \* max_outcomes: twenty
    MaxRuns,  \* bound: outcomes recorded of a test
    None      \* no tracker, no save, no author, not JSON

Outcome == {"passed", "failed", "skipped", "error", "xfail", "xpass"}
Failures == {"failed", "error"}

\* StabilityState: n is the count a state carries, or 0.
Stability == [is: {"unknown", "stable", "unstable", "flaky", "confirmed"}, n: Nat]

\* FlakinessRecord: fails and passes are consecutive, flips is flaky_streak.
Record == [outcomes: Seq(Outcome), stability: Stability,
           fails: Nat, passes: Nat, flips: Nat, runs: Nat]

ASSUME FlakinessAssumption ==
    /\ Given \subseteq Outcome
    /\ Keep \in Nat \ {0}
    /\ MaxRuns \in Nat
    /\ None \notin Ctx \cup Outcome \cup [Tests -> Record] \cup (Ctx \X {"open", "write"})

VARIABLES
    mem,     \* the records of each context's tracker, None when it has none
    dirty,   \* FlakinessTracker::dirty
    file,    \* flakiness.json: the records in it, None when it is torn
    saving,  \* a context inside fs::write, and how far it got
    author   \* who wrote the file last

flakyVars == <<mem, dirty, file, saving, author>>

-----------------------------------------------------------------------------
(* StabilityState::transition *)

Is(state, n) == [is |-> state, n |-> n]
Unknown == Is("unknown", 0)

\* What an outcome makes of a test whose past does not matter.
Fresh(o) ==
    CASE o = "passed"   -> Is("stable", 1)
      [] o \in Failures -> Is("unstable", 1)
      [] OTHER          -> Unknown

\* Mutant: a test without a past counts as flipped.
FlipsAlways(prev, o) == prev = None \/ (prev \in Failures) # (o \in Failures)

\* No flip without a previous outcome.
Flips(prev, o) == prev # None /\ (prev \in Failures) # (o \in Failures)

FromStable(s, o) ==
    CASE o = "passed"   -> Is("stable", s.n + 1)
      [] o \in Failures -> Is("flaky", 1)
      [] OTHER          -> Unknown

\* Mutant: a skipped test does not end a streak of failures.
FromUnstableSticky(s, o) ==
    CASE o = "passed"   -> Is("flaky", 1)
      [] o \in Failures -> Is("unstable", s.n + 1)
      [] OTHER          -> s

FromUnstable(s, o) ==
    CASE o = "passed"   -> Is("flaky", 1)
      [] o \in Failures -> Is("unstable", s.n + 1)
      [] OTHER          -> Unknown

\* Mutant: a test stays flaky when it does not flip.
FromFlakyKept(s, prev, o) ==
    IF ~Flips(prev, o) THEN s
    ELSE IF s.n + 1 >= 3 THEN Is("confirmed", 0) ELSE Is("flaky", s.n + 1)

FromFlaky(s, prev, o) ==
    IF ~Flips(prev, o) THEN Fresh(o)
    ELSE IF s.n + 1 >= 3 THEN Is("confirmed", 0) ELSE Is("flaky", s.n + 1)

\* Mutant: one pass is enough to leave.
FromConfirmedAtOnce(s, prev, o) ==
    CASE o = "passed" -> Is("stable", 1)
      [] o \in Failures /\ prev \in Failures -> Is("unstable", 2)
      [] OTHER -> s

FromConfirmed(s, prev, o) ==
    CASE o = "passed" /\ prev = "passed"     -> Is("stable", 2)
      [] o \in Failures /\ prev \in Failures -> Is("unstable", 2)
      [] OTHER                               -> s

Transition(s, prev, o) ==
    CASE s.is = "unknown"   -> Fresh(o)
      [] s.is = "stable"    -> FromStable(s, o)
      [] s.is = "unstable"  -> FromUnstable(s, o)
      [] s.is = "flaky"     -> FromFlaky(s, prev, o)
      [] s.is = "confirmed" -> FromConfirmed(s, prev, o)

-----------------------------------------------------------------------------
(* FlakinessTracker::record_outcome *)

NewRecord == [outcomes |-> <<>>, stability |-> Unknown,
              fails |-> 0, passes |-> 0, flips |-> 0, runs |-> 0]

Latest(r) == IF r.outcomes = <<>> THEN None ELSE r.outcomes[Len(r.outcomes)]

LastOnes(s) == IF Len(s) > Keep THEN SubSeq(s, Len(s) - Keep + 1, Len(s)) ELSE s

RecordOutcome(r, o) ==
    [outcomes  |-> LastOnes(Append(r.outcomes, o)),
     stability |-> Transition(r.stability, Latest(r), o),
     fails     |-> IF o \in Failures THEN r.fails + 1 ELSE 0,
     passes    |-> IF o = "passed" THEN r.passes + 1 ELSE 0,
     flips     |-> IF Flips(Latest(r), o) THEN r.flips + 1 ELSE r.flips,
     runs      |-> r.runs + 1]

IsFlaky(r) == r.stability.is = "confirmed" \/ (r.stability.is = "flaky" /\ r.stability.n >= 2)

\* is_flaky in the report of the context.
ReportedFlaky(r) == r.flips >= 2 /\ \E i \in DOMAIN r.outcomes : r.outcomes[i] = "passed"

-----------------------------------------------------------------------------
(* The tracker in its context *)

\* A test without a record and a file that is not there: nothing known.
Blank == [t \in Tests |-> NewRecord]

FlakyInit ==
    /\ mem = [k \in Ctx |-> None]
    /\ dirty = [k \in Ctx |-> FALSE]
    /\ file = Blank
    /\ saving = None
    /\ author = None

\* FlakinessTracker::new: what cannot be read is ignored.
Open(k) ==
    /\ saving = None
    /\ mem[k] = None
    /\ mem' = [mem EXCEPT ![k] = IF file = None THEN Blank ELSE file]
    /\ dirty' = [dirty EXCEPT ![k] = FALSE]
    /\ UNCHANGED <<file, saving, author>>

\* run_tests: every result is recorded, then save_state flushes what is
\* dirty, of this run or of one whose save failed.
RunTests(k, results) ==
    /\ saving = None
    /\ mem[k] # None
    /\ \A t \in DOMAIN results : mem[k][t].runs < MaxRuns
    /\ mem' = [mem EXCEPT ![k] = [t \in Tests |-> IF t \in DOMAIN results
                                                  THEN RecordOutcome(@[t], results[t])
                                                  ELSE @[t]]]
    /\ dirty' = [dirty EXCEPT ![k] = @ \/ DOMAIN results # {}]
    /\ saving' = IF dirty'[k] THEN <<k, "open">> ELSE None
    /\ UNCHANGED <<file, author>>

\* fs::write cuts the file to nothing ...
Truncate(k) ==
    /\ saving = <<k, "open">>
    /\ saving' = <<k, "write">>
    /\ file' = None
    /\ author' = k
    /\ UNCHANGED <<mem, dirty>>

\* ... and fills it.
Write(k) ==
    /\ saving = <<k, "write">>
    /\ saving' = None
    /\ file' = mem[k]
    /\ dirty' = [dirty EXCEPT ![k] = FALSE]
    /\ UNCHANGED <<mem, author>>

\* Mutant: the flag is reset before the save.
SaveFailsClean(k) ==
    /\ saving \in {<<k, "open">>, <<k, "write">>}
    /\ saving' = None
    /\ dirty' = [dirty EXCEPT ![k] = FALSE]
    /\ UNCHANGED <<mem, file, author>>

\* The directory, the file or the room for it cannot be had: the run is
\* answered with the error and the records stay dirty.
SaveFails(k) ==
    /\ saving \in {<<k, "open">>, <<k, "write">>}
    /\ saving' = None
    /\ UNCHANGED <<mem, dirty, file, author>>

\* Shutdown of a context: its tracker goes, saved or not.
Drop(k) ==
    /\ saving = None
    /\ mem[k] # None
    /\ mem' = [mem EXCEPT ![k] = None]
    /\ dirty' = [dirty EXCEPT ![k] = FALSE]
    /\ UNCHANGED <<file, saving, author>>

\* The daemon dies, in a save or not.
Crash ==
    /\ mem' = [k \in Ctx |-> None]
    /\ dirty' = [k \in Ctx |-> FALSE]
    /\ saving' = None
    /\ UNCHANGED <<file, author>>

FlakyNext ==
    \/ \E k \in Ctx : Open(k) \/ Truncate(k) \/ Write(k) \/ SaveFails(k) \/ Drop(k)
    \/ \E k \in Ctx, ran \in SUBSET Tests : \E results \in [ran -> Given] : RunTests(k, results)
    \/ Crash

FlakySpec == FlakyInit /\ [][FlakyNext]_flakyVars

-----------------------------------------------------------------------------
(* Properties *)

FlakyTypeOK ==
    /\ mem \in [Ctx -> [Tests -> Record] \cup {None}]
    /\ dirty \in [Ctx -> BOOLEAN]
    /\ file \in [Tests -> Record] \cup {None}
    /\ saving \in (Ctx \X {"open", "write"}) \cup {None}
    /\ author \in Ctx \cup {None}
    /\ \A k \in Ctx : mem[k] # None => \A t \in Tests : Len(mem[k][t].outcomes) <= Keep
    /\ file # None => \A t \in Tests : Len(file[t].outcomes) <= Keep

\* A state and the counters beside it tell the same past.
Fits(r) ==
    /\ (r.outcomes = <<>>) <=> (r.runs = 0)
    /\ r.passes > 0 <=> Latest(r) = "passed"
    /\ r.fails > 0 <=> Latest(r) \in Failures
    /\ r.flips < r.runs \/ r.runs = 0
    /\ r.stability.is = "stable" => r.stability.n \in 1 .. r.passes
    /\ r.stability.is = "unstable" => r.stability.n \in 1 .. r.fails
    /\ r.stability.is = "flaky" => r.stability.n \in 1 .. 2 /\ r.flips >= r.stability.n
    /\ r.stability.is = "confirmed" => r.flips >= 3

(* The state machine and the counters kept beside it for old files never     *)
(* contradict each other, in memory and on disk, whatever sequence of        *)
(* outcomes, saves, crashes and reloads came before: a test called stable    *)
(* passed last, a flaky one has flipped as often as the state says, a        *)
(* confirmed one three times (flakiness.rs:14-111, 151-224).                 *)
RecordsFit ==
    /\ \A k \in Ctx : mem[k] # None => \A t \in Tests : Fits(mem[k][t])
    /\ file # None => \A t \in Tests : Fits(file[t])

(* A test the state machine lists as flaky before it is confirmed is called  *)
(* flaky by the older rule in the report beside it as well: its pass is      *)
(* still among the outcomes kept (context.rs:537-560, flakiness.rs:254-264). *)
ReportsAgree ==
    Keep >= 3 => \A k \in Ctx : mem[k] # None => \A t \in Tests :
        IsFlaky(mem[k][t]) /\ mem[k][t].stability.is = "flaky" => ReportedFlaky(mem[k][t])

(* Records that are not dirty are on disk, until another context writes the  *)
(* file; a failed save leaves them dirty for the next run to save            *)
(* (flakiness.rs:332-338, context.rs:496-511).                               *)
CleanIsSaved ==
    \A k \in Ctx : mem[k] # None /\ ~dirty[k] /\ author = k =>
        IF file = None THEN mem[k] = Blank ELSE mem[k] = file

(* A confirmed flaky test leaves that state by two passes or two failures    *)
(* in a row and by nothing else while its context lives                      *)
(* (flakiness.rs:79-109).                                                    *)
ConfirmedKept ==
    [][\A k \in Ctx : mem[k] # None /\ mem'[k] # None => \A t \in Tests :
         LET r == mem[k][t]  s == mem'[k][t] IN
         r.stability.is = "confirmed" /\ s.stability.is # "confirmed" =>
             \/ Latest(r) = "passed" /\ Latest(s) = "passed"
             \/ Latest(r) \in Failures /\ Latest(s) \in Failures]_flakyVars
=============================================================================
