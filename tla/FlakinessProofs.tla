--------------------------- MODULE FlakinessProofs ---------------------------
(***************************************************************************)
(* The inductive invariant of Flakiness and what follows from it, for any  *)
(* number of contexts, tests, outcomes and records kept.                   *)
(*                                                                         *)
(* One lemma says what RecordOutcome makes of a sound record; the rest is  *)
(* who holds which records, and which of them are on disk.                 *)
(***************************************************************************)
EXTENDS Flakiness, SequenceTheorems, TLAPS

\* A flaky test has passed among its last two or three outcomes.
PassNear(r) ==
    r.stability.is = "flaky" =>
        \E d \in 0 .. r.stability.n :
            d < Len(r.outcomes) /\ r.outcomes[Len(r.outcomes) - d] = "passed"

\* What every record satisfies.
Sound(r) ==
    /\ Fits(r)
    /\ r.runs = 0 => r.flips = 0
    /\ Len(r.outcomes) <= Keep
    /\ Keep >= 3 => PassNear(r)

AllSound(rs) == rs # None => \A t \in Tests : Sound(rs[t])

\* Only a context with dirty records saves, and it becomes the author as it
\* cuts the file.
SavingInv ==
    saving # None => \E k \in Ctx :
        /\ saving \in {<<k, "open">>, <<k, "write">>}
        /\ mem[k] # None /\ dirty[k]
        /\ saving = <<k, "write">> => author = k

FlakyInv ==
    /\ FlakyTypeOK
    /\ \A k \in Ctx : AllSound(mem[k])
    /\ AllSound(file)
    /\ SavingInv
    /\ CleanIsSaved

-----------------------------------------------------------------------------
(* A record *)

\* p is s with o at its end, at most Keep of them.
Pushed(s, o, p) ==
    /\ p \in Seq(Outcome) /\ Len(p) \in 1 .. Keep /\ p[Len(p)] = o
    /\ Len(p) = Len(s) + 1 \/ Len(p) = Keep
    /\ \A d \in 1 .. Len(p) - 1 : p[Len(p) - d] = s[Len(s) + 1 - d]

\* The outcomes kept end with the new one, before it those that were last.
LEMMA LastOnesKept ==
    ASSUME NEW s \in Seq(Outcome), Len(s) <= Keep, NEW o \in Outcome
    PROVE  Pushed(s, o, LastOnes(Append(s, o)))
<1> DEFINE q == Append(s, o)  p == LastOnes(q)
<1> SUFFICES /\ p \in Seq(Outcome) /\ Len(p) \in 1 .. Keep /\ p[Len(p)] = o
             /\ Len(p) = Len(s) + 1 \/ Len(p) = Keep
             /\ \A d \in 1 .. Len(p) - 1 : p[Len(p) - d] = s[Len(s) + 1 - d]
    BY DEF Pushed
<1>1. /\ q \in Seq(Outcome) /\ Len(q) = Len(s) + 1
      /\ q[Len(s) + 1] = o /\ \A i \in 1 .. Len(s) : q[i] = s[i]
      /\ Len(s) \in Nat /\ Keep \in Nat \ {0}
    BY FlakinessAssumption
<1>2. CASE Len(q) <= Keep
    <2>1. p = q
        BY <1>1, <1>2 DEF LastOnes
    <2> QED BY <1>1, <1>2, <2>1
<1>3. CASE Len(q) > Keep
    <2> HIDE DEF q
    <2>0. Len(s) = Keep /\ Len(q) = Keep + 1 /\ Len(q) - Keep + 1 = 2
        BY <1>1, <1>3
    <2>1. Len(s) = Keep /\ p = SubSeq(q, 2, Len(q)) /\ Len(q) = Keep + 1
        BY <1>3, <2>0 DEF LastOnes, q
    <2>2. \A i \in 2 .. Keep + 1 : q[i] \in Outcome
        BY <1>1, <2>1
    <2>3. /\ p \in Seq(Outcome) /\ Len(p) = Keep
          /\ \A i \in 1 .. Keep : p[i] = q[i + 1]
        <3>1. 2 \in Int /\ Keep + 1 \in Int /\ 2 <= Keep + 1
            BY <1>1
        <3> QED BY <1>1, <2>1, <2>2, <3>1, SubSeqProperties
    <2>4. p[Keep] = o
        BY <1>1, <2>1, <2>3
    <2>5. \A d \in 1 .. Keep - 1 : p[Keep - d] = s[Keep + 1 - d]
        BY <1>1, <2>1, <2>3
    <2> QED BY <1>1, <2>1, <2>3, <2>4, <2>5
<1> QED BY <1>1, <1>2, <1>3

\* The outcome before the next one; None is no outcome.
LEMMA LatestIs ==
    ASSUME NEW r \in Record
    PROVE  /\ r.outcomes = <<>> => Latest(r) = None
           /\ r.outcomes # <<>> => Latest(r) \in Outcome /\ Latest(r) = r.outcomes[Len(r.outcomes)]
           /\ None \notin Outcome
<1>1. None \notin Outcome
    BY FlakinessAssumption
<1>2. r.outcomes \in Seq(Outcome)
    BY DEF Record
<1> QED BY <1>1, <1>2 DEF Latest

\* Every state and counter of a record that was sound.
LEMMA RecordFields ==
    ASSUME NEW r \in Record
    PROVE  /\ r.outcomes \in Seq(Outcome) /\ r.stability \in Stability
           /\ r.stability.n \in Nat
           /\ r.stability.is \in {"unknown", "stable", "unstable", "flaky", "confirmed"}
           /\ r.fails \in Nat /\ r.passes \in Nat /\ r.flips \in Nat /\ r.runs \in Nat
BY DEF Record, Stability

\* What is known of a record and its next outcome, for the cases below.
LEMMA NextRecord ==
    ASSUME NEW r \in Record, Sound(r), NEW o \in Outcome,
           NEW s, s = RecordOutcome(r, o)
    PROVE  /\ s.outcomes \in Seq(Outcome) /\ Len(s.outcomes) \in 1 .. Keep
           /\ Latest(s) = o /\ s.outcomes[Len(s.outcomes)] = o
           /\ s.stability = Transition(r.stability, Latest(r), o)
           /\ s.fails = IF o \in Failures THEN r.fails + 1 ELSE 0
           /\ s.passes = IF o = "passed" THEN r.passes + 1 ELSE 0
           /\ s.flips = IF Flips(Latest(r), o) THEN r.flips + 1 ELSE r.flips
           /\ s.runs = r.runs + 1
           /\ s = [outcomes |-> s.outcomes, stability |-> s.stability, fails |-> s.fails,
                   passes |-> s.passes, flips |-> s.flips, runs |-> s.runs]
           /\ Len(s.outcomes) = Len(r.outcomes) + 1 \/ Len(s.outcomes) = Keep
           /\ \A d \in 1 .. Len(s.outcomes) - 1 :
                 s.outcomes[Len(s.outcomes) - d] = r.outcomes[Len(r.outcomes) + 1 - d]
<1>1. /\ r.outcomes \in Seq(Outcome) /\ Len(r.outcomes) <= Keep
    BY RecordFields DEF Sound
<1>2. s.outcomes = LastOnes(Append(r.outcomes, o))
    BY DEF RecordOutcome
<1>3. /\ s.outcomes \in Seq(Outcome) /\ Len(s.outcomes) \in 1 .. Keep
      /\ s.outcomes[Len(s.outcomes)] = o
      /\ Len(s.outcomes) = Len(r.outcomes) + 1 \/ Len(s.outcomes) = Keep
      /\ \A d \in 1 .. Len(s.outcomes) - 1 :
            s.outcomes[Len(s.outcomes) - d] = r.outcomes[Len(r.outcomes) + 1 - d]
    <2>1. Pushed(r.outcomes, o, LastOnes(Append(r.outcomes, o)))
        BY <1>1, LastOnesKept
    <2>2. Pushed(r.outcomes, o, s.outcomes)
        BY <1>2, <2>1
    <2> QED BY <2>2 DEF Pushed
<1>4. Latest(s) = o
    BY <1>3 DEF Latest
<1>5. /\ s.stability = Transition(r.stability, Latest(r), o)
      /\ s.fails = IF o \in Failures THEN r.fails + 1 ELSE 0
      /\ s.passes = IF o = "passed" THEN r.passes + 1 ELSE 0
      /\ s.flips = IF Flips(Latest(r), o) THEN r.flips + 1 ELSE r.flips
      /\ s.runs = r.runs + 1
    BY DEF RecordOutcome
<1>6. s = [outcomes |-> s.outcomes, stability |-> s.stability, fails |-> s.fails,
           passes |-> s.passes, flips |-> s.flips, runs |-> s.runs]
    BY DEF RecordOutcome
<1> QED BY <1>3, <1>4, <1>5, <1>6

-----------------------------------------------------------------------------
(* RecordOutcome keeps records sound *)

LEMMA RecordTyped ==
    ASSUME NEW r \in Record, Sound(r), NEW o \in Outcome
    PROVE  RecordOutcome(r, o) \in Record
<1> DEFINE s == RecordOutcome(r, o)
<1>1. r.stability \in Stability /\ r.stability.n \in Nat
    BY RecordFields
<1>2. Fresh(o) \in Stability
    BY DEF Fresh, Is, Unknown, Stability
<1>3. FromStable(r.stability, o) \in Stability /\ FromUnstable(r.stability, o) \in Stability
    BY <1>1 DEF FromStable, FromUnstable, Is, Unknown, Stability
<1>4. FromFlaky(r.stability, Latest(r), o) \in Stability
    BY <1>1, <1>2 DEF FromFlaky, Is, Stability
<1>5. FromConfirmed(r.stability, Latest(r), o) \in Stability
    BY <1>1 DEF FromConfirmed, Is, Stability
<1>6. Transition(r.stability, Latest(r), o) \in Stability
    BY <1>1, <1>2, <1>3, <1>4, <1>5, RecordFields DEF Transition
<1>7. /\ s.outcomes \in Seq(Outcome) /\ s.stability \in Stability /\ s.fails \in Nat
      /\ s.passes \in Nat /\ s.flips \in Nat /\ s.runs \in Nat
    <2>1. /\ s.outcomes \in Seq(Outcome) /\ s.stability = Transition(r.stability, Latest(r), o)
          /\ s.fails = IF o \in Failures THEN r.fails + 1 ELSE 0
          /\ s.passes = IF o = "passed" THEN r.passes + 1 ELSE 0
          /\ s.flips = IF Flips(Latest(r), o) THEN r.flips + 1 ELSE r.flips
          /\ s.runs = r.runs + 1
        BY NextRecord
    <2>2. r.fails \in Nat /\ r.passes \in Nat /\ r.flips \in Nat /\ r.runs \in Nat
        BY RecordFields
    <2> HIDE DEF s
    <2> QED BY <1>6, <2>1, <2>2
<1>8. s = [outcomes |-> s.outcomes, stability |-> s.stability, fails |-> s.fails,
           passes |-> s.passes, flips |-> s.flips, runs |-> s.runs]
    BY NextRecord
<1> HIDE DEF s
<1>9. s \in Record
    BY <1>7, <1>8 DEF Record
<1> QED BY <1>9 DEF s

\* A state and the counters beside it keep telling the same past.
LEMMA RecordFits ==
    ASSUME NEW r \in Record, Sound(r), NEW o \in Outcome
    PROVE  Fits(RecordOutcome(r, o)) /\ RecordOutcome(r, o).runs # 0
<1> DEFINE s == RecordOutcome(r, o)  prev == Latest(r)  st == r.stability
<1>1. /\ r.fails \in Nat /\ r.passes \in Nat /\ r.flips \in Nat /\ r.runs \in Nat
      /\ st.n \in Nat /\ st.is \in {"unknown", "stable", "unstable", "flaky", "confirmed"}
    BY RecordFields
<1>2. /\ (prev = None) <=> (r.runs = 0)
      /\ r.passes > 0 <=> prev = "passed"
      /\ r.fails > 0 <=> prev \in Failures
      /\ r.flips < r.runs \/ r.runs = 0
      /\ r.runs = 0 => r.flips = 0
      /\ st.is = "stable" => st.n \in 1 .. r.passes
      /\ st.is = "unstable" => st.n \in 1 .. r.fails
      /\ st.is = "flaky" => st.n \in 1 .. 2 /\ r.flips >= st.n
      /\ st.is = "confirmed" => r.flips >= 3
    BY LatestIs DEF Sound, Fits
<1>3. /\ s.outcomes # <<>> /\ Latest(s) = o
      /\ s.stability = Transition(st, prev, o)
      /\ s.fails = IF o \in Failures THEN r.fails + 1 ELSE 0
      /\ s.passes = IF o = "passed" THEN r.passes + 1 ELSE 0
      /\ s.flips = IF Flips(prev, o) THEN r.flips + 1 ELSE r.flips
      /\ s.runs = r.runs + 1
    BY NextRecord
<1>4. None \notin Outcome
    BY LatestIs
<1> HIDE DEF s, prev, st
<1>5. /\ (s.outcomes = <<>>) <=> (s.runs = 0)
      /\ s.passes > 0 <=> Latest(s) = "passed"
      /\ s.fails > 0 <=> Latest(s) \in Failures
      /\ s.flips < s.runs /\ s.runs # 0
    BY <1>1, <1>2, <1>3 DEF Flips
<1> DEFINE Right(x) ==
      /\ x.is = "stable" => x.n \in 1 .. s.passes
      /\ x.is = "unstable" => x.n \in 1 .. s.fails
      /\ x.is = "flaky" => x.n \in 1 .. 2 /\ s.flips >= x.n
      /\ x.is = "confirmed" => s.flips >= 3
<1>6. Right(Fresh(o)) /\ Right(Unknown)
    BY <1>1, <1>3 DEF Fresh, Is, Unknown
<1> SUFFICES Right(s.stability)
    BY <1>5 DEF Fits, s
<1>7. CASE st.is = "stable"
    <2>1. s.stability = FromStable(st, o)
        BY <1>3, <1>7 DEF Transition
    <2>2. CASE o = "passed"
        <3>1. s.stability = Is("stable", st.n + 1)
            BY <2>1, <2>2 DEF FromStable, Failures
        <3>2. s.passes = r.passes + 1
            BY <1>3, <2>2
        <3> QED BY <1>1, <1>2, <1>7, <3>1, <3>2 DEF Is
    <2>3. CASE o \in Failures
        <3>1. prev = "passed"
            BY <1>1, <1>2, <1>7
        <3>2. s.stability = Is("flaky", 1) /\ Flips(prev, o)
            BY <1>4, <2>1, <2>3, <3>1 DEF FromStable, Flips, Failures, Outcome
        <3> QED BY <1>1, <1>3, <3>2 DEF Is
    <2>4. CASE o # "passed" /\ o \notin Failures
        BY <2>1, <2>4 DEF FromStable, Is, Unknown
    <2> QED BY <2>2, <2>3, <2>4
<1>8. CASE st.is = "unstable"
    <2>1. s.stability = FromUnstable(st, o)
        BY <1>3, <1>8 DEF Transition
    <2>2. CASE o = "passed"
        <3>1. prev \in Failures
            BY <1>1, <1>2, <1>8
        <3>2. s.stability = Is("flaky", 1) /\ Flips(prev, o)
            BY <1>4, <2>1, <2>2, <3>1 DEF FromUnstable, Flips, Failures, Outcome
        <3> QED BY <1>1, <1>3, <3>2 DEF Is
    <2>3. CASE o \in Failures
        <3>1. s.stability = Is("unstable", st.n + 1) /\ s.fails = r.fails + 1
            BY <1>3, <2>1, <2>3 DEF FromUnstable, Failures
        <3> QED BY <1>1, <1>2, <1>8, <3>1 DEF Is
    <2>4. CASE o # "passed" /\ o \notin Failures
        BY <2>1, <2>4 DEF FromUnstable, Is, Unknown
    <2> QED BY <2>2, <2>3, <2>4
<1>9. CASE st.is = "flaky"
    <2>1. s.stability = FromFlaky(st, prev, o)
        BY <1>3, <1>9 DEF Transition
    <2>2. CASE ~Flips(prev, o)
        BY <1>5, <1>6, <2>1, <2>2 DEF FromFlaky
    <2>3. CASE Flips(prev, o)
        BY <1>1, <1>2, <1>3, <1>5, <1>9, <2>1, <2>3 DEF FromFlaky, Is
    <2> QED BY <2>2, <2>3
<1>10. CASE st.is = "confirmed"
    <2>1. s.stability = FromConfirmed(st, prev, o)
        BY <1>3, <1>10 DEF Transition
    <2> QED BY <1>1, <1>2, <1>3, <1>5, <1>10, <2>1 DEF FromConfirmed, Is, Failures
<1>11. CASE st.is = "unknown"
    <2>1. s.stability = Fresh(o)
        BY <1>3, <1>11 DEF Transition
    <2> HIDE DEF Right
    <2> QED BY <1>6, <2>1
<1> QED BY <1>1, <1>5, <1>7, <1>8, <1>9, <1>10, <1>11

\* A pass is among the last outcomes of a flaky test.
LEMMA RecordPassNear ==
    ASSUME NEW r \in Record, Sound(r), NEW o \in Outcome, Keep >= 3
    PROVE  PassNear(RecordOutcome(r, o))
<1> DEFINE s == RecordOutcome(r, o)  prev == Latest(r)  st == r.stability
<1>1. /\ r.outcomes \in Seq(Outcome) /\ st.n \in Nat /\ r.passes \in Nat /\ r.fails \in Nat
      /\ st.is \in {"unknown", "stable", "unstable", "flaky", "confirmed"}
    BY RecordFields
<1>2. /\ Len(s.outcomes) \in 1 .. Keep /\ s.outcomes[Len(s.outcomes)] = o
      /\ s.stability = Transition(st, prev, o)
      /\ Len(s.outcomes) = Len(r.outcomes) + 1 \/ Len(s.outcomes) = Keep
      /\ \A d \in 1 .. Len(s.outcomes) - 1 :
            s.outcomes[Len(s.outcomes) - d] = r.outcomes[Len(r.outcomes) + 1 - d]
    BY NextRecord
<1>3. /\ st.is = "stable" => prev = "passed" /\ r.outcomes # <<>>
                               /\ r.outcomes[Len(r.outcomes)] = "passed"
      /\ st.is = "flaky" => st.n \in 1 .. 2
      /\ Keep \in Nat
    <2>1. /\ r.passes > 0 <=> prev = "passed"
          /\ st.is = "stable" => st.n \in 1 .. r.passes
          /\ st.is = "flaky" => st.n \in 1 .. 2
        BY DEF Sound, Fits
    <2>2. /\ r.outcomes = <<>> => prev = None
          /\ r.outcomes # <<>> => prev = r.outcomes[Len(r.outcomes)]
          /\ None # "passed" /\ Keep \in Nat
        BY LatestIs, FlakinessAssumption DEF Outcome
    <2> HIDE DEF prev, st
    <2> QED BY <1>1, <2>1, <2>2
<1>4. PassNear(r)
    BY DEF Sound
<1> SUFFICES ASSUME s.stability.is = "flaky"
             PROVE  \E d \in 0 .. s.stability.n :
                        d < Len(s.outcomes) /\ s.outcomes[Len(s.outcomes) - d] = "passed"
    BY DEF PassNear
<1>5. Len(s.outcomes) \in Nat /\ Len(r.outcomes) \in Nat
    BY <1>1, <1>2, <1>3
<1> HIDE DEF s, prev, st
<1>6. CASE st.is = "stable"
    <2>1. s.stability = Is("flaky", 1)
        BY <1>2, <1>6 DEF Transition, FromStable, Is, Unknown
    <2>2. s.stability.n = 1
        BY <2>1 DEF Is
    <2>3. Len(r.outcomes) >= 1
        BY <1>1, <1>3, <1>6
    <2>4. 1 < Len(s.outcomes)
        BY <1>2, <1>3, <1>5, <2>3
    <2>5. s.outcomes[Len(s.outcomes) - 1] = r.outcomes[Len(r.outcomes)]
        <3>1. 1 \in 1 .. Len(s.outcomes) - 1 /\ Len(r.outcomes) + 1 - 1 = Len(r.outcomes)
            BY <1>5, <2>4
        <3> QED BY <1>2, <3>1
    <2>6. s.outcomes[Len(s.outcomes) - 1] = "passed"
        BY <1>3, <1>6, <2>5
    <2> QED BY <2>2, <2>4, <2>6
<1>7. CASE st.is = "unstable"
    <2>1. o = "passed" /\ s.stability = Is("flaky", 1)
        BY <1>2, <1>7 DEF Transition, FromUnstable, Is, Unknown
    <2>2. s.stability.n = 1
        BY <2>1 DEF Is
    <2>3. 0 < Len(s.outcomes) /\ Len(s.outcomes) - 0 = Len(s.outcomes)
        BY <1>2, <1>5
    <2>4. 0 \in 0 .. s.stability.n
        BY <2>2
    <2> QED BY <1>2, <2>1, <2>3, <2>4
<1>8. CASE st.is = "flaky"
    <2>1. s.stability = FromFlaky(st, prev, o)
        BY <1>2, <1>8 DEF Transition
    <2>2. s.stability = Is("flaky", st.n + 1) /\ st.n = 1
        <3>1. Fresh(o).is # "flaky"
            BY DEF Fresh, Is, Unknown
        <3> QED BY <1>1, <1>3, <1>8, <2>1, <3>1 DEF FromFlaky, Is
    <2>3. s.stability.n = 2
        BY <2>2 DEF Is
    <2>4. PICK d \in 0 .. 1 : d < Len(r.outcomes) /\ r.outcomes[Len(r.outcomes) - d] = "passed"
        BY <1>4, <1>8, <2>2 DEF PassNear, st
    <2>5. d + 1 < Len(s.outcomes) /\ d + 1 \in 0 .. 2
        BY <1>2, <1>3, <1>5, <2>4
    <2>6. s.outcomes[Len(s.outcomes) - (d + 1)] = r.outcomes[Len(r.outcomes) + 1 - (d + 1)]
        BY <1>2, <1>5, <2>5
    <2>7. Len(r.outcomes) + 1 - (d + 1) = Len(r.outcomes) - d
        <3>1. \A a \in Nat, e \in 0 .. 1 : a + 1 - (e + 1) = a - e
            OBVIOUS
        <3> QED BY <1>5, <3>1
    <2> QED BY <2>3, <2>4, <2>5, <2>6, <2>7
<1>9. CASE st.is \in {"unknown", "confirmed"}
    <2>1. Fresh(o).is # "flaky"
        BY DEF Fresh, Is, Unknown
    <2> QED BY <1>2, <1>9, <2>1 DEF Transition, FromConfirmed, Is
<1> QED BY <1>1, <1>6, <1>7, <1>8, <1>9

LEMMA RecordSound ==
    ASSUME NEW r \in Record, Sound(r), NEW o \in Outcome
    PROVE  RecordOutcome(r, o) \in Record /\ Sound(RecordOutcome(r, o))
<1>1. Len(RecordOutcome(r, o).outcomes) <= Keep
    BY NextRecord, FlakinessAssumption
<1> QED BY <1>1, RecordTyped, RecordFits, RecordPassNear DEF Sound

LEMMA BlankSound == Blank \in [Tests -> Record] /\ AllSound(Blank)
<1>1. NewRecord \in Record
    BY DEF NewRecord, Record, Unknown, Is, Stability
<1>2. Latest(NewRecord) = None
    BY DEF NewRecord, Latest
<1>3. None \notin Outcome /\ Keep \in Nat \ {0}
    BY FlakinessAssumption
<1>4. Fits(NewRecord)
    BY <1>2, <1>3 DEF NewRecord, Fits, Unknown, Is, Failures, Outcome
<1>5. Sound(NewRecord)
    BY <1>3, <1>4 DEF Sound, NewRecord, PassNear, Unknown, Is
<1> QED BY <1>1, <1>5 DEF Blank, AllSound

-----------------------------------------------------------------------------
(* The tracker and its file *)

LEMMA FlakyInit_FlakyInv == FlakyInit => FlakyInv
<1> SUFFICES ASSUME FlakyInit PROVE FlakyInv
    OBVIOUS
<1>1. FlakyTypeOK
    <2>1. \A t \in Tests : Len(Blank[t].outcomes) <= Keep
        BY FlakinessAssumption DEF Blank, NewRecord
    <2> QED BY <2>1, BlankSound DEF FlakyInit, FlakyTypeOK
<1>2. /\ \A k \in Ctx : AllSound(mem[k])
      /\ AllSound(file)
    BY BlankSound DEF FlakyInit, AllSound
<1>3. SavingInv /\ CleanIsSaved
    BY DEF FlakyInit, SavingInv, CleanIsSaved
<1> QED BY <1>1, <1>2, <1>3 DEF FlakyInv

\* The part of FlakyInv about records, from what is known of each.
LEMMA TypedAndSound ==
    ASSUME mem \in [Ctx -> [Tests -> Record] \cup {None}],
           file \in [Tests -> Record] \cup {None},
           dirty \in [Ctx -> BOOLEAN],
           saving \in (Ctx \X {"open", "write"}) \cup {None},
           author \in Ctx \cup {None},
           \A k \in Ctx : AllSound(mem[k]), AllSound(file)
    PROVE  FlakyTypeOK
BY DEF FlakyTypeOK, AllSound, Sound

LEMMA OpenStep ==
    ASSUME FlakyInv, NEW k \in Ctx, Open(k)
    PROVE  FlakyInv'
<1> DEFINE given == IF file = None THEN Blank ELSE file
<1>1. given \in [Tests -> Record] /\ AllSound(given) /\ mem' = [mem EXCEPT ![k] = given]
    BY BlankSound DEF Open, FlakyInv, FlakyTypeOK
<1> HIDE DEF given
<1>2. \A j \in Ctx : AllSound(mem'[j])
    BY <1>1 DEF FlakyInv, FlakyTypeOK
<1>3. FlakyTypeOK'
    <2>1. AllSound(file')
        BY DEF Open, FlakyInv
    <2>2. /\ mem' \in [Ctx -> [Tests -> Record] \cup {None}]
          /\ dirty' \in [Ctx -> BOOLEAN]
          /\ file' \in [Tests -> Record] \cup {None}
          /\ saving' \in (Ctx \X {"open", "write"}) \cup {None}
          /\ author' \in Ctx \cup {None}
        BY <1>1 DEF Open, FlakyInv, FlakyTypeOK
    <2> QED BY <1>2, <2>1, <2>2 DEF FlakyTypeOK, AllSound, Sound
<1>4. SavingInv'
    BY DEF Open, SavingInv
<1>5. CleanIsSaved'
    BY <1>1 DEF given, Open, FlakyInv, FlakyTypeOK, CleanIsSaved
<1> QED BY <1>2, <1>3, <1>4, <1>5 DEF FlakyInv, Open, AllSound

\* A step that touches one context's records at most, and not the file.
LEMMA RecordsStep ==
    ASSUME FlakyInv, NEW k \in Ctx, NEW rs \in [Tests -> Record] \cup {None}, AllSound(rs),
           mem' = [mem EXCEPT ![k] = rs],
           dirty' \in [Ctx -> BOOLEAN], UNCHANGED <<file, author>>,
           saving' \in (Ctx \X {"open", "write"}) \cup {None}
    PROVE  FlakyTypeOK' /\ (\A j \in Ctx : AllSound(mem'[j])) /\ AllSound(file')
<1>1. \A j \in Ctx : AllSound(mem'[j])
    BY DEF FlakyInv, FlakyTypeOK
<1>2. /\ mem' \in [Ctx -> [Tests -> Record] \cup {None}]
      /\ file' \in [Tests -> Record] \cup {None}
      /\ author' \in Ctx \cup {None}
    BY DEF FlakyInv, FlakyTypeOK
<1>3. AllSound(file')
    BY DEF FlakyInv
<1> QED BY <1>1, <1>2, <1>3 DEF FlakyTypeOK, AllSound, Sound

LEMMA RunTestsStep ==
    ASSUME FlakyInv, NEW k \in Ctx, NEW ran \in SUBSET Tests, NEW results \in [ran -> Given],
           RunTests(k, results)
    PROVE  FlakyInv'
<1> DEFINE rs == [t \in Tests |-> IF t \in DOMAIN results
                                  THEN RecordOutcome(mem[k][t], results[t]) ELSE mem[k][t]]
<1>1. mem[k] \in [Tests -> Record] /\ AllSound(mem[k]) /\ mem[k] # None
    BY DEF RunTests, FlakyInv, FlakyTypeOK
<1>2. mem' = [mem EXCEPT ![k] = rs]
    BY <1>1 DEF RunTests, FlakyInv, FlakyTypeOK
<1>3. \A t \in Tests : rs[t] \in Record /\ Sound(rs[t])
    <2> SUFFICES ASSUME NEW t \in Tests PROVE rs[t] \in Record /\ Sound(rs[t])
        OBVIOUS
    <2>1. mem[k][t] \in Record /\ Sound(mem[k][t])
        BY <1>1 DEF AllSound
    <2>2. CASE t \in DOMAIN results
        <3>1. results[t] \in Outcome
            BY <2>2, FlakinessAssumption
        <3> QED BY <2>1, <2>2, <3>1, RecordSound
    <2>3. CASE t \notin DOMAIN results
        BY <2>1, <2>3
    <2> QED BY <2>2, <2>3
<1>4. rs \in [Tests -> Record] /\ AllSound(rs)
    BY <1>3 DEF AllSound
<1>5. /\ dirty' \in [Ctx -> BOOLEAN]
      /\ saving' \in (Ctx \X {"open", "write"}) \cup {None}
      /\ UNCHANGED <<file, author>>
    BY DEF RunTests, FlakyInv, FlakyTypeOK
<1>6. FlakyTypeOK' /\ (\A j \in Ctx : AllSound(mem'[j])) /\ AllSound(file')
    <2> HIDE DEF rs
    <2> QED BY <1>2, <1>4, <1>5, RecordsStep
<1>7. mem'[k] = rs /\ rs # None
    BY <1>2, <1>4, FlakinessAssumption DEF FlakyInv, FlakyTypeOK
<1>8. SavingInv'
    <2>1. saving' = IF dirty'[k] THEN <<k, "open">> ELSE None
        BY DEF RunTests
    <2> HIDE DEF rs
    <2> QED BY <1>7, <2>1 DEF SavingInv
<1>9. CleanIsSaved'
    <2> SUFFICES ASSUME NEW j \in Ctx, mem'[j] # None, ~dirty'[j], author' = j
                 PROVE  IF file' = None THEN mem'[j] = Blank ELSE mem'[j] = file'
        BY DEF CleanIsSaved
    <2>1. mem'[j] = mem[j] /\ ~dirty[j]
        <3>1. CASE j = k
            <4>1. ~dirty[k] /\ DOMAIN results = {}
                BY <3>1 DEF RunTests, FlakyInv, FlakyTypeOK
            <4>2. rs = mem[k]
                BY <1>1, <4>1
            <4> QED BY <1>7, <3>1, <4>1, <4>2
        <3>2. CASE j # k
            BY <3>2 DEF RunTests, FlakyInv, FlakyTypeOK
        <3> QED BY <3>1, <3>2
    <2> QED BY <1>5, <2>1 DEF FlakyInv, CleanIsSaved
<1> QED BY <1>6, <1>8, <1>9 DEF FlakyInv

LEMMA TruncateStep ==
    ASSUME FlakyInv, NEW k \in Ctx, Truncate(k)
    PROVE  FlakyInv'
<1>1. mem[k] # None /\ dirty[k]
    BY FlakinessAssumption DEF Truncate, FlakyInv, SavingInv
<1>2. FlakyTypeOK'
    BY DEF Truncate, FlakyInv, FlakyTypeOK
<1>3. (\A j \in Ctx : AllSound(mem'[j])) /\ AllSound(file')
    BY DEF Truncate, FlakyInv, AllSound
<1>4. SavingInv'
    BY <1>1 DEF Truncate, SavingInv
<1>5. CleanIsSaved'
    BY <1>1 DEF Truncate, CleanIsSaved
<1> QED BY <1>2, <1>3, <1>4, <1>5 DEF FlakyInv

LEMMA WriteStep ==
    ASSUME FlakyInv, NEW k \in Ctx, Write(k)
    PROVE  FlakyInv'
<1>1. mem[k] # None /\ author = k
    BY FlakinessAssumption DEF Write, FlakyInv, SavingInv
<1>2. mem[k] \in [Tests -> Record] /\ AllSound(mem[k])
    BY <1>1 DEF FlakyInv, FlakyTypeOK
<1>3. (\A j \in Ctx : AllSound(mem'[j])) /\ AllSound(file')
    BY <1>2 DEF Write, FlakyInv
<1>4. FlakyTypeOK'
    <2>1. /\ mem' \in [Ctx -> [Tests -> Record] \cup {None}]
          /\ dirty' \in [Ctx -> BOOLEAN]
          /\ file' \in [Tests -> Record] \cup {None}
          /\ saving' \in (Ctx \X {"open", "write"}) \cup {None}
          /\ author' \in Ctx \cup {None}
        BY <1>2 DEF Write, FlakyInv, FlakyTypeOK
    <2> QED BY <1>3, <2>1 DEF FlakyTypeOK, AllSound, Sound
<1>5. SavingInv' /\ CleanIsSaved'
    BY <1>1 DEF Write, SavingInv, CleanIsSaved
<1> QED BY <1>3, <1>4, <1>5 DEF FlakyInv

LEMMA SaveFailsStep ==
    ASSUME FlakyInv, NEW k \in Ctx, SaveFails(k)
    PROVE  FlakyInv'
<1>1. FlakyTypeOK' /\ (\A j \in Ctx : AllSound(mem'[j])) /\ AllSound(file')
    BY DEF SaveFails, FlakyInv, FlakyTypeOK, AllSound
<1>2. SavingInv' /\ CleanIsSaved'
    BY DEF SaveFails, FlakyInv, SavingInv, CleanIsSaved
<1> QED BY <1>1, <1>2 DEF FlakyInv

LEMMA DropStep ==
    ASSUME FlakyInv, NEW k \in Ctx, Drop(k)
    PROVE  FlakyInv'
<1>1. AllSound(None)
    BY DEF AllSound
<1>2. /\ mem' = [mem EXCEPT ![k] = None]
      /\ dirty' \in [Ctx -> BOOLEAN] /\ UNCHANGED <<file, author>>
      /\ saving' \in (Ctx \X {"open", "write"}) \cup {None}
    BY DEF Drop, FlakyInv, FlakyTypeOK
<1>3. FlakyTypeOK' /\ (\A j \in Ctx : AllSound(mem'[j])) /\ AllSound(file')
    BY <1>1, <1>2, RecordsStep
<1>4. SavingInv' /\ CleanIsSaved'
    BY DEF Drop, FlakyInv, FlakyTypeOK, SavingInv, CleanIsSaved
<1> QED BY <1>3, <1>4 DEF FlakyInv

LEMMA CrashStep == ASSUME FlakyInv, Crash PROVE FlakyInv'
<1>1. FlakyTypeOK' /\ (\A j \in Ctx : AllSound(mem'[j])) /\ AllSound(file')
    BY DEF Crash, FlakyInv, FlakyTypeOK, AllSound
<1>2. SavingInv' /\ CleanIsSaved'
    BY DEF Crash, SavingInv, CleanIsSaved
<1> QED BY <1>1, <1>2 DEF FlakyInv

LEMMA FlakyInductive == FlakyInv /\ [FlakyNext]_flakyVars => FlakyInv'
<1> SUFFICES ASSUME FlakyInv, [FlakyNext]_flakyVars PROVE FlakyInv'
    OBVIOUS
<1>1. CASE \E k \in Ctx : Open(k) \/ Truncate(k) \/ Write(k) \/ SaveFails(k) \/ Drop(k)
    BY <1>1, OpenStep, TruncateStep, WriteStep, SaveFailsStep, DropStep
<1>2. CASE \E k \in Ctx, ran \in SUBSET Tests : \E results \in [ran -> Given] : RunTests(k, results)
    BY <1>2, RunTestsStep
<1>3. CASE Crash
    BY <1>3, CrashStep
<1>4. CASE UNCHANGED flakyVars
    BY <1>4 DEF flakyVars, FlakyInv, FlakyTypeOK, AllSound, SavingInv, CleanIsSaved
<1> QED BY <1>1, <1>2, <1>3, <1>4 DEF FlakyNext

-----------------------------------------------------------------------------
(* Theorems *)

(* The inductive invariant of the tracker: sound records in memory and on    *)
(* disk, and a save only of dirty records (flakiness.rs:186-224, 305-338).   *)
THEOREM Invariance == FlakySpec => []FlakyInv
<1>1. FlakyInv /\ [FlakyNext]_flakyVars => FlakyInv'
    BY FlakyInductive
<1> QED BY <1>1, FlakyInit_FlakyInv, PTL DEF FlakySpec

(* The state machine and the counters beside it never contradict each other  *)
(* after any number of outcomes, however few of them are kept                *)
(* (flakiness.rs:14-111, 151-224).                                           *)
THEOREM RecordsAlwaysFit == FlakySpec => []RecordsFit
<1>1. FlakyInv => RecordsFit
    BY DEF FlakyInv, AllSound, Sound, RecordsFit
<1> QED BY <1>1, Invariance, PTL

(* The report's older rule agrees with a state machine that says flaky, if   *)
(* three outcomes or more are kept (context.rs:537-560).                     *)
THEOREM ReportsAlwaysAgree == FlakySpec => []ReportsAgree
<1>1. FlakyInv => ReportsAgree
    <2> SUFFICES ASSUME FlakyInv, Keep >= 3, NEW k \in Ctx, mem[k] # None, NEW t \in Tests,
                        IsFlaky(mem[k][t]), mem[k][t].stability.is = "flaky"
                 PROVE  ReportedFlaky(mem[k][t])
        BY DEF ReportsAgree
    <2> DEFINE r == mem[k][t]
    <2>1. r \in Record /\ Sound(r)
        BY DEF FlakyInv, FlakyTypeOK, AllSound
    <2>2. r.outcomes \in Seq(Outcome) /\ r.stability.n \in Nat /\ r.flips \in Nat
        BY <2>1, RecordFields
    <2>3. r.flips >= 2
        BY <2>1, <2>2 DEF IsFlaky, Sound, Fits
    <2>4. PICK d \in 0 .. r.stability.n :
              d < Len(r.outcomes) /\ r.outcomes[Len(r.outcomes) - d] = "passed"
        BY <2>1 DEF Sound, PassNear
    <2>5. Len(r.outcomes) - d \in DOMAIN r.outcomes
        BY <2>2, <2>4
    <2> HIDE DEF r
    <2>6. ReportedFlaky(r)
        BY <2>3, <2>4, <2>5 DEF ReportedFlaky
    <2> QED BY <2>6 DEF r
<1> QED BY <1>1, Invariance, PTL

(* Records that are not dirty are on disk until another context writes, for  *)
(* any number of contexts, whatever saves fail (flakiness.rs:332-338).       *)
THEOREM CleanAlwaysSaved == FlakySpec => []CleanIsSaved
<1>1. FlakyInv => CleanIsSaved
    BY DEF FlakyInv
<1> QED BY <1>1, Invariance, PTL

(* Two passes or two failures in a row end a confirmed state, and nothing    *)
(* else does while the context lives (flakiness.rs:79-109).                  *)
THEOREM ConfirmedAlwaysKept == FlakySpec => ConfirmedKept
<1> DEFINE Kept(k, t) ==
      LET r == mem[k][t]  s == mem'[k][t] IN
      r.stability.is = "confirmed" /\ s.stability.is # "confirmed" =>
          \/ Latest(r) = "passed" /\ Latest(s) = "passed"
          \/ Latest(r) \in Failures /\ Latest(s) \in Failures
<1>1. ASSUME FlakyInv, FlakyNext, NEW k \in Ctx, mem[k] # None, mem'[k] # None, NEW t \in Tests
      PROVE  Kept(k, t)
    <2>1. CASE mem'[k] = mem[k]
        BY <2>1
    <2>2. CASE mem'[k] # mem[k]
        <3>1. PICK ran \in SUBSET Tests : \E results \in [ran -> Given] : RunTests(k, results)
            <4>1. ASSUME NEW j \in Ctx, Open(j) \/ Drop(j) PROVE mem'[k] = mem[k]
                BY <1>1, <4>1 DEF Open, Drop, FlakyInv, FlakyTypeOK
            <4>2. ASSUME NEW j \in Ctx, Truncate(j) \/ Write(j) \/ SaveFails(j)
                  PROVE  mem'[k] = mem[k]
                BY <4>2 DEF Truncate, Write, SaveFails
            <4>3. ~Crash
                BY <1>1 DEF Crash
            <4>4. ASSUME NEW j \in Ctx, j # k, NEW results, RunTests(j, results)
                  PROVE  mem'[k] = mem[k]
                BY <1>1, <4>4 DEF RunTests, FlakyInv, FlakyTypeOK
            <4> QED BY <1>1, <2>2, <4>1, <4>2, <4>3, <4>4 DEF FlakyNext
        <3>2. PICK results \in [ran -> Given] : RunTests(k, results)
            BY <3>1
        <3>3. mem[k][t] \in Record /\ Sound(mem[k][t])
            BY <1>1 DEF FlakyInv, FlakyTypeOK, AllSound
        <3>4. mem'[k][t] = IF t \in DOMAIN results
                           THEN RecordOutcome(mem[k][t], results[t]) ELSE mem[k][t]
            BY <1>1, <3>2 DEF RunTests, FlakyInv, FlakyTypeOK
        <3>5. CASE t \in DOMAIN results
            <4> DEFINE r == mem[k][t]  o == results[t]  s == RecordOutcome(r, o)
            <4>1. o \in Outcome
                BY <3>5, FlakinessAssumption
            <4>2. Latest(s) = o /\ s.stability = Transition(r.stability, Latest(r), o)
                BY <3>3, <4>1, NextRecord
            <4>3. mem'[k][t] = s
                BY <3>4, <3>5
            <4> HIDE DEF s, o
            <4> QED BY <4>2, <4>3 DEF Transition, FromConfirmed, Failures
        <3> QED BY <3>4, <3>5
    <2> QED BY <2>1, <2>2
<1>2. FlakyInv /\ [FlakyNext]_flakyVars =>
        [\A k \in Ctx : mem[k] # None /\ mem'[k] # None => \A t \in Tests : Kept(k, t)]_flakyVars
    BY <1>1
<1> QED BY <1>2, Invariance, PTL DEF FlakySpec, ConfirmedKept
=============================================================================
