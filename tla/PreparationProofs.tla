--------------------------- MODULE PreparationProofs ---------------------------
(***************************************************************************)
(* Proofs about what comes before a test runs: the collector finds it      *)
(* (Collect and Extraction), the scheduler puts it in a place and a batch  *)
(* (Scheduler).                                                            *)
(* The two share no state; neither half uses a fact of the other.          *)
(***************************************************************************)
EXTENDS Extraction, Scheduler, Induction

-----------------------------------------------------------------------------
(***************************************************************************)
(* The collector. The threads keep an invariant on the map they share: all *)
(* in it is of a text that was read in this collection, and what a thread  *)
(* has passed of its fixtures is in it. The variants of a test then follow *)
(* from its own file, in whatever order the map is walked.                 *)
(***************************************************************************)

AllTexts == UNION {Texts[f] : f \in Files}

CollectTypeInv ==
    /\ pc \in {"idle", "parsing", "done"}
    /\ text \in [Files -> AllTexts] /\ \A f \in Files : text[f] \in Texts[f]
    /\ read \in [Files -> AllTexts \cup {None}] /\ \A f \in Files : read[f] \in Texts[f] \cup {None}
    /\ todo \in [Files -> Seq(FixtureDefs) \cup {None}]
    /\ found \in [Files -> Seq(Nodes) \cup {None}]

\* The map is finite, and what it holds was given by a file that was read.
MapInv ==
    /\ IsFiniteSet(DOMAIN params)
    /\ \A n \in DOMAIN params : \E f \in Files : \E x \in FixturesOf(read[f]) :
          x.name = n /\ x.params = params[n] /\ x.params # None

\* Of a file that was read the parameters of each fixture are in the map, or it
\* is still to be looked at.
Entered(f) ==
    \A x \in FixturesOf(read[f]) :
        x.params = None \/ x.name \in DOMAIN params \/ x \in ToSet(todo[f])

ThreadInv ==
    \A f \in Files :
        /\ todo[f] = None => read[f] = None
        /\ todo[f] # None => ToSet(todo[f]) \subseteq FixturesOf(read[f]) /\ Entered(f)
        /\ found[f] # None => todo[f] = <<>> /\ found[f] = TestsOf(read[f])

DoneInv ==
    pc = "done" =>
        /\ \A f \in Files : found[f] # None
        /\ \E order \in SetToSeqs(DOMAIN params) :
              result = [f \in Files |-> Expanded(found[f], params, order)]

CollectInv == CollectTypeInv /\ MapInv /\ ThreadInv /\ DoneInv

-----------------------------------------------------------------------------
(* The threads and their map *)

LEMMA FixturesType ==
    ASSUME NEW f \in Files, NEW t \in Texts[f] \cup {None}
    PROVE  /\ FixturesOf(t) \subseteq FixtureDefs
           /\ t # None => t.fixtures \in Seq(FixtureDefs) /\ FixturesOf(t) = ToSet(t.fixtures)
           /\ TestsOf(t) \in Seq(Nodes)
           /\ \A n \in ToSet(TestsOf(t)) : n.uses \subseteq {x.name : x \in FixturesOf(t)}
<1>1. CASE t = None
  <2>1. <<>> \in Seq(Nodes) /\ ToSet(<<>>) = {}
    BY DEF ToSet
  <2>2. QED  BY <1>1, <2>1, CollectAssumption DEF FixturesOf
<1>2. CASE t # None
  <2>1. /\ t.fixtures \in Seq(FixtureDefs) /\ TestsOf(t) \in Seq(Nodes)
        /\ \A n \in ToSet(TestsOf(t)) : n.uses \subseteq {x.name : x \in ToSet(t.fixtures)}
    BY <1>2, CollectAssumption
  <2>2. ToSet(t.fixtures) \subseteq FixtureDefs
    BY <2>1, ElementOfSeq, LenProperties DEF ToSet
  <2>3. QED  BY <1>2, <2>1, <2>2 DEF FixturesOf
<1>3. QED  BY <1>1, <1>2

LEMMA ForAllNone ==
    /\ ForAll(None) \in [Files -> {None}]
    /\ \A f \in Files : ForAll(None)[f] = None
  BY DEF ForAll

LEMMA EmptyMap == DOMAIN <<>> = {} /\ IsFiniteSet({})
<1>1. DOMAIN <<>> = {}
  OBVIOUS
<1>2. QED  BY <1>1, FS_EmptySet

\* A collection begins, or there was none yet.
LEMMA NothingRead ==
    ASSUME params' = <<>>, read' = ForAll(None), todo' = ForAll(None), found' = ForAll(None),
           pc' \in {"idle", "parsing"},
           text' \in [Files -> AllTexts], \A f \in Files : text'[f] \in Texts[f]
    PROVE  CollectInv'
<1>1. \A f \in Files : read'[f] = None /\ todo'[f] = None /\ found'[f] = None
  BY ForAllNone
<1>2. CollectTypeInv'
  BY <1>1, ForAllNone DEF CollectTypeInv
<1>3. MapInv'
  BY EmptyMap DEF MapInv
<1>4. ThreadInv'
  BY <1>1 DEF ThreadInv
<1>5. DoneInv'
  BY DEF DoneInv
<1>6. QED  BY <1>2, <1>3, <1>4, <1>5 DEF CollectInv

LEMMA CollectStart == CollectInit => CollectInv
<1> SUFFICES ASSUME CollectInit  PROVE CollectInv
  OBVIOUS
<1>1. \A f \in Files : read[f] = None /\ todo[f] = None /\ found[f] = None
  BY ForAllNone DEF CollectInit
<1>2. CollectTypeInv
  BY <1>1, ForAllNone DEF CollectTypeInv, CollectInit, AllTexts
<1>3. MapInv
  BY EmptyMap DEF MapInv, CollectInit
<1>4. ThreadInv
  BY <1>1 DEF ThreadInv
<1>5. DoneInv
  BY DEF DoneInv, CollectInit
<1>6. QED  BY <1>2, <1>3, <1>4, <1>5 DEF CollectInv

LEMMA BeginKeeps ==
    ASSUME CollectInv, Begin \/ WalkFails  PROVE CollectInv'
<1>1. text' = text /\ params' = <<>> /\ pc' \in {"idle", "parsing"}
  BY DEF Begin, WalkFails, Reset
<1>2. read' = ForAll(None) /\ todo' = ForAll(None) /\ found' = ForAll(None)
  BY DEF Begin, WalkFails, Reset
<1>3. QED  BY <1>1, <1>2, NothingRead DEF CollectInv, CollectTypeInv

LEMMA ReadKeeps ==
    ASSUME CollectInv, NEW f \in Files, Read(f)  PROVE CollectInv'
<1>1. PICK t \in Texts[f] : t = text[f]
  BY DEF CollectInv, CollectTypeInv
<1> DEFINE fs == IF t = None THEN <<>> ELSE t.fixtures
<1>2. /\ pc = "parsing" /\ todo[f] = None
      /\ read' = [read EXCEPT ![f] = t] /\ todo' = [todo EXCEPT ![f] = fs]
      /\ UNCHANGED <<text, pc, params, found, result>>
  BY <1>1 DEF Read
<1>3. fs \in Seq(FixtureDefs) /\ ToSet(fs) = FixturesOf(t)
  <2>1. <<>> \in Seq(FixtureDefs) /\ ToSet(<<>>) = {}
    BY DEF ToSet
  <2>2. QED  BY <2>1, FixturesType DEF FixturesOf
<1> HIDE DEF fs
<1>4. /\ read'[f] = t /\ todo'[f] = fs
      /\ \A g \in Files : g # f => read'[g] = read[g] /\ todo'[g] = todo[g]
  BY <1>2 DEF CollectInv, CollectTypeInv
<1>5. found[f] = None
  <2>1. None # <<>>
    <3>1. <<>> \in Seq(Nodes)
      OBVIOUS
    <3>2. QED  BY <3>1, CollectAssumption
  <2>2. QED  BY <1>2, <2>1 DEF CollectInv, ThreadInv
<1>6. read[f] = None
  BY <1>2 DEF CollectInv, ThreadInv
<1>7. CollectTypeInv'
  BY <1>2, <1>3 DEF CollectInv, CollectTypeInv, AllTexts
<1>8. MapInv'
  <2>1. IsFiniteSet(DOMAIN params')
    BY <1>2 DEF CollectInv, MapInv
  <2>2. ASSUME NEW n \in DOMAIN params'
        PROVE  \E g \in Files : \E x \in FixturesOf(read'[g]) :
                  x.name = n /\ x.params = params'[n] /\ x.params # None
    <3>1. PICK g \in Files : \E x \in FixturesOf(read[g]) :
                  x.name = n /\ x.params = params[n] /\ x.params # None
      BY <1>2, <2>2 DEF CollectInv, MapInv
    <3>2. g # f
      BY <1>6, <3>1 DEF FixturesOf
    <3>3. read'[g] = read[g] /\ params' = params
      BY <1>2, <1>4, <3>2
    <3>4. QED  BY <3>1, <3>3
  <2>3. QED  BY <2>1, <2>2 DEF MapInv
<1>9. ThreadInv'
  <2>1. ASSUME NEW g \in Files
        PROVE  /\ todo'[g] = None => read'[g] = None
               /\ todo'[g] # None => ToSet(todo'[g]) \subseteq FixturesOf(read'[g]) /\ Entered(g)'
               /\ found'[g] # None => todo'[g] = <<>> /\ found'[g] = TestsOf(read'[g])
    <3>1. CASE g = f
      <4>1. fs # None
        BY <1>3, CollectAssumption
      <4>2. Entered(f)'
        BY <1>3, <1>4 DEF Entered
      <4>3. QED  BY <1>2, <1>3, <1>4, <1>5, <3>1, <4>1, <4>2
    <3>2. CASE g # f
      <4>1. Entered(g) => Entered(g)'
        BY <1>2, <1>4, <3>2 DEF Entered
      <4>2. QED  BY <1>2, <1>4, <3>2, <4>1 DEF CollectInv, ThreadInv
    <3>3. QED  BY <3>1, <3>2
  <2>2. QED  BY <2>1 DEF ThreadInv
<1>10. DoneInv'
  BY <1>2 DEF DoneInv
<1>11. QED  BY <1>7, <1>8, <1>9, <1>10 DEF CollectInv

LEMMA FixtureKeeps ==
    ASSUME CollectInv, NEW f \in Files, Fixture(f)  PROVE CollectInv'
<1>1. PICK s \in Seq(FixtureDefs) : s = todo[f] /\ s # <<>>
  BY DEF Fixture, CollectInv, CollectTypeInv
<1>2. PICK x \in FixtureDefs : x = Head(s)
  BY <1>1
<1>3. Tail(s) \in Seq(FixtureDefs) /\ ToSet(s) = {x} \cup ToSet(Tail(s))
  <2>1. PICK n \in Nat : n = Len(s) /\ n >= 1 /\ DOMAIN s = 1 .. n
    BY <1>1, LenProperties, EmptySeq
  <2>2. /\ Tail(s) \in Seq(FixtureDefs) /\ Len(Tail(s)) = n - 1
        /\ \A i \in 1 .. n - 1 : Tail(s)[i] = s[i + 1]
    BY <1>1, <2>1, HeadTailProperties
  <2>3. PICK u \in Seq(FixtureDefs) : u = Tail(s) /\ DOMAIN u = 1 .. n - 1
    BY <2>1, <2>2, LenProperties
  <2>4. s[1] = x
    BY <1>2
  <2>5. ASSUME NEW y  PROVE y \in ToSet(s) <=> y = x \/ y \in ToSet(u)
    <3>1. ASSUME NEW i \in 1 .. n, y = s[i]  PROVE y = x \/ y \in ToSet(u)
      <4>1. CASE i = 1
        BY <2>4, <3>1, <4>1
      <4>2. CASE i # 1
        <5>1. i - 1 \in 1 .. n - 1 /\ (i - 1) + 1 = i
          BY <2>1, <4>2
        <5>2. u[i - 1] = y
          BY <2>2, <2>3, <3>1, <5>1
        <5>3. QED  BY <2>3, <5>1, <5>2, Zenon DEF ToSet
      <4>3. QED  BY <4>1, <4>2
    <3>2. ASSUME NEW i \in 1 .. n - 1, y = u[i]  PROVE y \in ToSet(s)
      <4>1. i + 1 \in 1 .. n /\ s[i + 1] = y
        BY <2>1, <2>2, <2>3, <3>2
      <4>2. QED  BY <2>1, <4>1, Zenon DEF ToSet
    <3>3. y = x => y \in ToSet(s)
      <4>1. 1 \in 1 .. n
        BY <2>1
      <4>2. QED  BY <2>1, <2>4, <4>1, Zenon DEF ToSet
    <3>4. QED  BY <2>1, <2>3, <3>1, <3>2, <3>3, Zenon DEF ToSet
  <2>6. ToSet(s) = {x} \cup ToSet(u)
    BY <2>5
  <2>7. QED  BY <2>3, <2>6
<1>4. /\ pc = "parsing" /\ todo' = [todo EXCEPT ![f] = Tail(s)]
      /\ params' = IF x.params = None THEN params ELSE Entry(params, x)
      /\ UNCHANGED <<text, pc, read, found, result>>
  BY <1>1, <1>2 DEF Fixture
<1>5. todo'[f] = Tail(s) /\ \A g \in Files : g # f => todo'[g] = todo[g]
  BY <1>4 DEF CollectInv, CollectTypeInv
<1>6. Tail(s) # None /\ s # None
  BY <1>3, CollectAssumption
<1>7. found[f] = None
  BY <1>1 DEF CollectInv, ThreadInv
<1>8. /\ x.params = None => params' = params
      /\ x.params # None =>
            /\ DOMAIN params' = DOMAIN params \cup {x.name}
            /\ params'[x.name] = x.params
            /\ \A n \in DOMAIN params : n # x.name => params'[n] = params[n]
  BY <1>4 DEF Entry
<1>9. ToSet(s) \subseteq FixturesOf(read[f]) /\ Entered(f)
  BY <1>1, <1>6 DEF CollectInv, ThreadInv
<1>10. CollectTypeInv'
  BY <1>3, <1>4 DEF CollectInv, CollectTypeInv
<1>11. MapInv'
  <2>1. IsFiniteSet(DOMAIN params')
    BY <1>8, FS_AddElement DEF CollectInv, MapInv
  <2>2. ASSUME NEW n \in DOMAIN params'
        PROVE  \E g \in Files : \E y \in FixturesOf(read'[g]) :
                  y.name = n /\ y.params = params'[n] /\ y.params # None
    <3>1. CASE x.params # None /\ n = x.name
      BY <1>3, <1>4, <1>8, <1>9, <3>1
    <3>2. CASE ~ (x.params # None /\ n = x.name)
      <4>1. n \in DOMAIN params /\ params'[n] = params[n]
        BY <1>8, <2>2, <3>2
      <4>2. QED  BY <1>4, <4>1 DEF CollectInv, MapInv
    <3>3. QED  BY <3>1, <3>2
  <2>3. QED  BY <2>1, <2>2 DEF MapInv
<1>12. ThreadInv'
  <2>1. DOMAIN params \subseteq DOMAIN params' /\ (x.params # None => x.name \in DOMAIN params')
    BY <1>8
  <2>2. ASSUME NEW g \in Files
        PROVE  /\ todo'[g] = None => read'[g] = None
               /\ todo'[g] # None => ToSet(todo'[g]) \subseteq FixturesOf(read'[g]) /\ Entered(g)'
               /\ found'[g] # None => todo'[g] = <<>> /\ found'[g] = TestsOf(read'[g])
    <3>1. CASE g = f
      <4>1. Entered(f)'
        BY <1>1, <1>3, <1>4, <1>5, <1>9, <2>1 DEF Entered
      <4>2. QED  BY <1>3, <1>4, <1>5, <1>6, <1>7, <1>9, <3>1, <4>1
    <3>2. CASE g # f
      <4>1. Entered(g) => Entered(g)'
        BY <1>4, <1>5, <2>1, <3>2 DEF Entered
      <4>2. QED  BY <1>4, <1>5, <3>2, <4>1 DEF CollectInv, ThreadInv
    <3>3. QED  BY <3>1, <3>2
  <2>3. QED  BY <2>2 DEF ThreadInv
<1>13. DoneInv'
  BY <1>4 DEF DoneInv
<1>14. QED  BY <1>10, <1>11, <1>12, <1>13 DEF CollectInv

LEMMA ExtractKeeps ==
    ASSUME CollectInv, NEW f \in Files, Extract(f)  PROVE CollectInv'
<1>1. /\ pc = "parsing" /\ todo[f] = <<>> /\ found' = [found EXCEPT ![f] = TestsOf(read[f])]
      /\ UNCHANGED <<text, pc, params, read, todo, result>>
  BY DEF Extract
<1>2. TestsOf(read[f]) \in Seq(Nodes)
  BY FixturesType DEF CollectInv, CollectTypeInv
<1>3. found'[f] = TestsOf(read[f]) /\ \A g \in Files : g # f => found'[g] = found[g]
  BY <1>1 DEF CollectInv, CollectTypeInv
<1>4. CollectTypeInv'
  BY <1>1, <1>2 DEF CollectInv, CollectTypeInv
<1>5. MapInv'
  BY <1>1 DEF CollectInv, MapInv
<1>6. ThreadInv'
  BY <1>1, <1>3 DEF CollectInv, ThreadInv, Entered
<1>7. DoneInv'
  BY <1>1 DEF DoneInv
<1>8. QED  BY <1>4, <1>5, <1>6, <1>7 DEF CollectInv

LEMMA ExpandKeeps ==
    ASSUME CollectInv, Expand  PROVE CollectInv'
<1>1. UNCHANGED <<text, params, read, todo, found>> /\ pc' = "done"
  BY DEF Expand
<1>2. CollectTypeInv' /\ MapInv' /\ ThreadInv'
  BY <1>1 DEF CollectInv, CollectTypeInv, MapInv, ThreadInv, Entered
<1>3. DoneInv'
  BY <1>1 DEF Expand, DoneInv
<1>4. QED  BY <1>2, <1>3 DEF CollectInv

LEMMA EditKeeps ==
    ASSUME CollectInv, NEW f \in Files, Edit(f)  PROVE CollectInv'
<1>1. PICK t \in Texts[f] : text' = [text EXCEPT ![f] = t]
  BY DEF Edit
<1>2. UNCHANGED <<pc, params, read, todo, found, result>>
  BY DEF Edit
<1>3. CollectTypeInv'
  BY <1>1, <1>2 DEF CollectInv, CollectTypeInv, AllTexts
<1>4. MapInv' /\ ThreadInv' /\ DoneInv'
  BY <1>2 DEF CollectInv, MapInv, ThreadInv, Entered, DoneInv
<1>5. QED  BY <1>3, <1>4 DEF CollectInv

LEMMA CollectStep == CollectInv /\ [CollectNext]_collectVars => CollectInv'
<1> SUFFICES ASSUME CollectInv, [CollectNext]_collectVars  PROVE CollectInv'
  OBVIOUS
<1>1. CASE Begin \/ WalkFails
  BY <1>1, BeginKeeps
<1>2. CASE Expand
  BY <1>2, ExpandKeeps
<1>3. ASSUME NEW f \in Files, Read(f) \/ Fixture(f) \/ Extract(f) \/ Edit(f)  PROVE CollectInv'
  BY <1>3, ReadKeeps, FixtureKeeps, ExtractKeeps, EditKeeps
<1>4. CASE UNCHANGED collectVars
  BY <1>4 DEF collectVars, CollectInv, CollectTypeInv, MapInv, ThreadInv, Entered, DoneInv
<1>5. QED  BY <1>1, <1>2, <1>3, <1>4 DEF CollectNext

(* The invariant of the threads and the map they share. *)
THEOREM CollectInvariance == CollectSpec => []CollectInv
  BY CollectStart, CollectStep, PTL DEF CollectSpec

-----------------------------------------------------------------------------
(* Combinations *)

LEMMA CrossedType ==
    ASSUME NEW T, NEW combos \in Seq(Seq(T)), NEW s \in Seq(T)
    PROVE  Crossed(combos, s) \in Seq(Seq(T))
<1> DEFINE Row(i) == [j \in DOMAIN s |-> Append(combos[i], s[j])]
           rows == [i \in DOMAIN combos |-> Row(i)]
<1>1. DOMAIN combos = 1 .. Len(combos) /\ DOMAIN s = 1 .. Len(s) /\ Len(combos) \in Nat /\ Len(s) \in Nat
  BY LenProperties
<1>2. ASSUME NEW i \in 1 .. Len(combos)  PROVE Row(i) \in Seq(Seq(T))
  <2>1. combos[i] \in Seq(T)
    BY ElementOfSeq
  <2>2. ASSUME NEW j \in 1 .. Len(s)  PROVE Append(combos[i], s[j]) \in Seq(T)
    <3>1. s[j] \in T
      BY ElementOfSeq
    <3>2. QED  BY <2>1, <3>1, AppendProperties
  <2>3. Row(i) \in [1 .. Len(s) -> Seq(T)]
    BY <1>1, <2>2
  <2> HIDE DEF Row
  <2>4. QED  BY <1>1, <2>3, FunctionSeq
<1> HIDE DEF Row
<1>3. rows \in [1 .. Len(combos) -> Seq(Seq(T))]
  BY <1>1, <1>2
<1>4. rows \in Seq(Seq(Seq(T)))
  <2> HIDE DEF rows
  <2>1. QED  BY <1>1, <1>3, FunctionSeq
<1>5. Crossed(combos, s) = FlattenSeq(rows)
  BY DEF Crossed, Row
<1> HIDE DEF rows
<1>6. FlattenSeq(rows) \in Seq(Seq(T))
  BY <1>4, FlattenType
<1>7. QED  BY <1>5, <1>6

\* The combinations of the first lists, one list after the other.
Combining(ss, n, f) ==
    f[0] = << <<>> >> /\ \A i \in 0 .. n - 1 : f[i + 1] = Crossed(f[i], ss[i + 1])

LEMMA Combined ==
    ASSUME NEW T, NEW ss \in Seq(Seq(T))
    PROVE  \E f \in [0 .. Len(ss) -> Seq(Seq(T))] :
              Combining(ss, Len(ss), f) /\ Product(ss) = f[Len(ss)]
<1>1. PICK n \in Nat : n = Len(ss) /\ \A i \in 1 .. n : ss[i] \in Seq(T)
  OBVIOUS
<1> DEFINE V == Seq(Seq(T))
           base == << <<>> >>
           step == [p \in (1 .. n) \X V |-> Crossed(p[2], ss[p[1]])]
           Rec(f) == [i \in 0 .. n |-> IF i = 0 THEN base ELSE Crossed(f[i - 1], ss[i])]
<1>2. \A i \in 1 .. n, x \in V : step[<<i, x>>] = Crossed(x, ss[i])
  OBVIOUS
<1>3. step \in Steps(n, V)
  <2>1. \A p \in (1 .. n) \X V : Crossed(p[2], ss[p[1]]) \in V
    BY <1>1, CrossedType
  <2>2. QED  BY <2>1 DEF Steps
<1>4. base \in V
  <2>1. <<>> \in Seq(T)
    OBVIOUS
  <2>2. QED  BY <2>1
<1> HIDE DEF step, base
<1>5. PICK g \in [0 .. n -> V] : Iterated(g, n, base, step)
  BY <1>3, <1>4, Iterates
<1>6. g = Rec(g)
  <2>1. ASSUME NEW i \in 1 .. n  PROVE g[i] = Crossed(g[i - 1], ss[i])
    <3>1. g[i] = step[<<i, g[i - 1]>>] /\ g[i - 1] \in V
      BY <1>5 DEF Iterated
    <3>2. QED  BY <1>2, <3>1
  <2>2. g[0] = base
    BY <1>5 DEF Iterated
  <2>3. \A i \in 0 .. n : g[i] = Rec(g)[i]
    BY <2>1, <2>2
  <2>4. g = [i \in 0 .. n |-> g[i]] /\ Rec(g) = [i \in 0 .. n |-> Rec(g)[i]]
    BY <1>5
  <2>5. QED  BY <2>3, <2>4
<1>7. PICK h : h = (CHOOSE k : k = Rec(k)) /\ h = Rec(h)
  <2> HIDE DEF Rec
  <2>1. QED  BY <1>6
<1>8. h[0] = base /\ \A i \in 1 .. n : h[i] = Crossed(h[i - 1], ss[i])
  <2>1. \A i \in 0 .. n : h[i] = IF i = 0 THEN base ELSE Crossed(h[i - 1], ss[i])
    BY <1>7, Zenon
  <2>2. 0 \in 0 .. n /\ \A i \in 1 .. n : i \in 0 .. n /\ i # 0
    BY <1>1
  <2>3. QED  BY <2>1, <2>2, Zenon
<1>9. ASSUME NEW i \in 0 .. n - 1  PROVE h[i + 1] = Crossed(h[i], ss[i + 1])
  <2>1. i + 1 \in 1 .. n /\ (i + 1) - 1 = i
    BY <1>1
  <2>2. QED  BY <1>8, <2>1, Zenon
<1> DEFINE S == {i \in 0 .. n : h[i] \in V}
<1>10. 0 .. n \subseteq S
  <2>1. 0 \in S
    BY <1>1, <1>4, <1>8
  <2>2. ASSUME NEW i \in 0 .. n - 1, i \in S  PROVE i + 1 \in S
    <3>1. h[i] \in V /\ i + 1 \in 1 .. n /\ i + 1 \in 0 .. n
      BY <1>1, <2>2
    <3>2. h[i + 1] \in V
      BY <1>1, <1>9, <3>1, CrossedType
    <3>3. QED  BY <3>1, <3>2
  <2> HIDE DEF S
  <2>3. QED  BY <2>1, <2>2, UpTo
<1>11. h \in [0 .. n -> V]
  <2>1. h = [i \in 0 .. n |-> IF i = 0 THEN base ELSE Crossed(h[i - 1], ss[i])]
    BY <1>7
  <2>2. DOMAIN h = 0 .. n /\ h = [i \in 0 .. n |-> h[i]]
    BY <2>1
  <2>3. QED  BY <1>10, <2>2
<1>12. Combining(ss, n, h)
  BY <1>8, <1>9 DEF Combining, base
<1>13. Product(ss) = h[n]
  BY <1>1, <1>7 DEF Product, base
<1>14. QED  BY <1>1, <1>11, <1>12, <1>13, Zenon

LEMMA ProductType ==
    ASSUME NEW T, NEW ss \in Seq(Seq(T))
    PROVE  Product(ss) \in Seq(Seq(T))
<1>1. PICK f \in [0 .. Len(ss) -> Seq(Seq(T))] : Product(ss) = f[Len(ss)]
  BY Combined
<1>2. Len(ss) \in 0 .. Len(ss)
  OBVIOUS
<1>3. QED  BY <1>1, <1>2

(* The combinations of one list are its members. *)
LEMMA ProductOfOne ==
    ASSUME NEW T, NEW s \in Seq(T), NEW ss \in Seq(Seq(T)), Len(ss) = 1, ss[1] = s
    PROVE  ToSet(Product(ss)) = {<<v>> : v \in ToSet(s)}
<1>1. PICK n \in Nat : n = Len(s) /\ DOMAIN s = 1 .. n
  BY LenProperties
<1> DEFINE first == << <<>> >>
           one == {<<v>> : v \in ToSet(s)}
           Row(e) == [j \in DOMAIN s |-> Append(e, s[j])]
           row == Row(<<>>)
           rows == [i \in DOMAIN first |-> Row(first[i])]
<1>2. Product(ss) = Crossed(first, s)
  <2>1. PICK f \in [0 .. 1 -> Seq(Seq(T))] : Combining(ss, 1, f) /\ Product(ss) = f[1]
    BY Combined
  <2>2. 0 \in 0 .. 1 - 1 /\ 0 + 1 = 1
    OBVIOUS
  <2>3. f[0 + 1] = Crossed(f[0], ss[0 + 1]) /\ f[0] = first
    BY <2>1, <2>2 DEF Combining
  <2> HIDE DEF first
  <2>4. QED  BY <2>1, <2>2, <2>3, Zenon
<1>3. Crossed(first, s) = FlattenSeq(rows)
  BY DEF Crossed
<1>4. rows \in [1 .. 1 -> {row}] /\ rows[1] = row
  <2>1. DOMAIN first = 1 .. 1 /\ first[1] = <<>> /\ \A i \in 1 .. 1 : i = 1
    OBVIOUS
  <2> HIDE DEF first, Row
  <2>2. QED  BY <2>1
<1>5. \A j \in 1 .. n : s[j] \in T /\ row[j] = <<s[j]>>
  <2>1. ASSUME NEW j \in 1 .. n  PROVE s[j] \in T /\ row[j] = <<s[j]>>
    <3>1. s[j] \in T
      BY <1>1, ElementOfSeq
    <3>2. Append(<<>>, s[j]) = <<s[j]>>
      BY <3>1
    <3>3. QED  BY <1>1, <3>1, <3>2
  <2> HIDE DEF row
  <2>2. QED  BY <2>1
<1>6. row \in Seq(one) /\ Len(row) = n
  <2>1. \A j \in 1 .. n : s[j] \in ToSet(s)
    BY <1>1 DEF ToSet
  <2>2. row \in [1 .. n -> one]
    <3>1. \A j \in 1 .. n : row[j] \in one
      BY <1>5, <2>1
    <3>2. row = [j \in 1 .. n |-> row[j]]
      BY <1>1
    <3> HIDE DEF row, one
    <3>3. QED  BY <3>1, <3>2
  <2> HIDE DEF row, one
  <2>3. QED  BY <2>2, FunctionSeq
<1>7. DOMAIN row = 1 .. n
  BY <1>1
<1> HIDE DEF row, rows
<1>8. rows \in Seq(Seq(one)) /\ Len(rows) = 1 /\ rows[1] = row
  <2> HIDE DEF one
  <2>1. rows \in [1 .. 1 -> Seq(one)]
    BY <1>4, <1>6
  <2>2. QED  BY <1>4, <2>1, FunctionSeq
<1>9. ToSet(Product(ss)) \subseteq one
  <2> HIDE DEF one
  <2>1. PICK p \in Seq(one) : p = Product(ss)
    BY <1>2, <1>3, <1>8, FlattenType
  <2>2. QED  BY <2>1, ElementOfSeq, LenProperties DEF ToSet
<1>10. one \subseteq ToSet(Product(ss))
  <2>1. ASSUME NEW v \in ToSet(s)  PROVE <<v>> \in ToSet(Product(ss))
    <3>1. PICK j \in 1 .. n : v = s[j]
      BY <1>1 DEF ToSet
    <3>2. <<v>> \in ToSet(row)
      BY <1>5, <1>7, <3>1, Zenon DEF ToSet
    <3>3. 1 \in 1 .. Len(rows) /\ rows[1] = row
      BY <1>8
    <3>4. <<v>> \in ToSet(FlattenSeq(rows))
      <4> HIDE DEF one
      <4>1. QED  BY <1>8, <3>2, <3>3, FlattenHas
    <3>5. QED  BY <1>2, <1>3, <3>4
  <2>2. QED  BY <2>1
<1>11. QED  BY <1>9, <1>10

-----------------------------------------------------------------------------
(* The parameters a test uses, in the order of the map *)

(* A walk over a finite set meets each of its elements once. *)
LEMMA WalkMeetsAll ==
    ASSUME NEW S, IsFiniteSet(S), NEW order \in SetToSeqs(S)
    PROVE  /\ order \in Seq(S) /\ ToSet(order) = S
           /\ \A i, j \in 1 .. Len(order) : order[i] = order[j] => i = j
<1>1. PICK n \in Nat : n = Cardinality(S)
  BY FS_CardinalityType
<1>2. order \in [1 .. n -> S] /\ \A i, j \in 1 .. n : i # j => order[i] # order[j]
  BY <1>1 DEF SetToSeqs
<1>3. order \in Seq(S) /\ Len(order) = n
  BY <1>2, FunctionSeq
<1>4. Cardinality(1 .. n) = n
  BY UpToN
<1>5. order \in Injection(1 .. n, S)
  BY <1>2 DEF Injection, IsInjective
<1>6. order \in Surjection(1 .. n, S)
  BY <1>1, <1>4, <1>5, FS_Injection
<1>7. ToSet(order) = S
  <2>1. \A x \in S : \E i \in 1 .. n : order[i] = x
    BY <1>6 DEF Surjection
  <2>2. QED  BY <1>2, <2>1 DEF ToSet
<1>8. QED  BY <1>2, <1>3, <1>7

(* What is left of the walk when only the elements of U count. *)
LEMMA WalkMeetsUsed ==
    ASSUME NEW S, IsFiniteSet(S), NEW order \in SetToSeqs(S), NEW U \in SUBSET S
    PROVE  LET w == Without(order, S \ U)
           IN  /\ w \in Seq(S) /\ ToSet(w) = U
               /\ \A i, j \in 1 .. Len(w) : w[i] = w[j] => i = j
<1> DEFINE w == Without(order, S \ U)
<1>1. /\ order \in Seq(S) /\ ToSet(order) = S
      /\ \A i, j \in 1 .. Len(order) : order[i] = order[j] => i = j
  BY WalkMeetsAll
<1>2. PICK n \in Nat : n = Len(order) /\ DOMAIN order = 1 .. n
  BY <1>1, LenProperties
<1>3. w \in Seq(S)
  BY <1>1, WithoutPlaces
<1>4. PICK m \in Nat : m = Len(w) /\ DOMAIN w = 1 .. m
  BY <1>3, LenProperties
<1>5. PICK q \in [1 .. m -> Nat] : Places(q, w, order, S \ U, n)
  BY <1>1, <1>2, <1>4, WithoutPlaces
<1> HIDE DEF w
<1>6. \A j \in 1 .. m : q[j] \in 1 .. n /\ w[j] = order[q[j]] /\ w[j] \in U
  <2>1. \A i \in 1 .. n : order[i] \in S
    BY <1>1, <1>2, ElementOfSeq
  <2>2. QED  BY <1>4, <1>5, <2>1 DEF Places
<1>7. ASSUME NEW x \in U  PROVE \E j \in 1 .. m : w[j] = x
  <2>1. PICK i \in 1 .. n : order[i] = x
    BY <1>1, <1>2 DEF ToSet
  <2>2. order[i] \notin S \ U
    BY <2>1
  <2>3. PICK j \in 1 .. m : q[j] = i
    BY <1>4, <1>5, <2>2 DEF Places
  <2>4. QED  BY <1>6, <2>1, <2>3
<1>8. ToSet(w) = U
  BY <1>4, <1>6, <1>7 DEF ToSet
<1>9. ASSUME NEW i \in 1 .. m, NEW j \in 1 .. m, i # j  PROVE w[i] # w[j]
  <2>1. q[i] # q[j]
    <3>1. i < j \/ j < i
      BY <1>9
    <3>2. QED  BY <1>4, <1>5, <3>1 DEF Places
  <2>2. QED  BY <1>1, <1>2, <1>6, <2>1
<1>10. QED  BY <1>3, <1>4, <1>8, <1>9 DEF w

-----------------------------------------------------------------------------
(* What a test is expanded to *)

WithId(node, v) == [node EXCEPT !.ids = Append(@, v)]

WithIds(node, vs) == {WithId(node, v) : v \in vs}

\* A map of a collection: finite, and with a list of parameters for each name.
IsMap(ps) == IsFiniteSet(DOMAIN ps) /\ \A n \in DOMAIN ps : ps[n] \in Seq(STRING)

\* What the variants of a test are, by the parametrized fixtures it uses.
AreVariants(vs, node, ps, U) ==
    /\ vs \in Seq(ToSet(vs))
    /\ U = {} => ToSet(vs) = {node}
    /\ \A x : U = {x} => ToSet(vs) = WithIds(node, ToSet(ps[x]))
    /\ \A m \in ToSet(vs) : m.class = node.class /\ m.name = node.name

LEMMA VariantsAre ==
    ASSUME NEW node \in Nodes, NEW ps, IsMap(ps), NEW order \in SetToSeqs(DOMAIN ps)
    PROVE  AreVariants(Variants(node, ps, order), node, ps, node.uses \cap DOMAIN ps)
<1> DEFINE U == node.uses \cap DOMAIN ps
           w == Without(order, DOMAIN ps \ node.uses)
           lists == [i \in DOMAIN w |-> ps[w[i]]]
           combos == Product(lists)
           Id(c) == IF Len(w) = 1 THEN c[1]
                    ELSE Join([i \in DOMAIN c |-> ToString(i) \o "=" \o c[i]])
           vs == [i \in DOMAIN combos |-> WithId(node, Id(combos[i]))]
<1>1. Variants(node, ps, order) = IF w = <<>> THEN <<node>> ELSE vs
  BY DEF Variants, WithId
<1>2. w \in Seq(DOMAIN ps) /\ ToSet(w) = U /\ \A i, j \in 1 .. Len(w) : w[i] = w[j] => i = j
  <2>1. IsFiniteSet(DOMAIN ps) /\ U \in SUBSET DOMAIN ps /\ DOMAIN ps \ node.uses = DOMAIN ps \ U
    BY DEF IsMap
  <2>2. PICK v : /\ v = Without(order, DOMAIN ps \ U)
                 /\ v \in Seq(DOMAIN ps) /\ ToSet(v) = U
                 /\ \A i, j \in 1 .. Len(v) : v[i] = v[j] => i = j
    <3> HIDE DEF U
    <3>1. QED  BY <2>1, WalkMeetsUsed
  <2>3. w = v
    <3> HIDE DEF U
    <3>1. QED  BY <2>1, <2>2
  <2> HIDE DEF w, U
  <2>4. QED  BY <2>2, <2>3
<1> HIDE DEF w, U
<1>3. PICK k \in Nat : k = Len(w) /\ DOMAIN w = 1 .. k
  BY <1>2, LenProperties
<1>4. lists \in Seq(Seq(STRING)) /\ Len(lists) = k /\ \A i \in 1 .. k : lists[i] = ps[w[i]]
  <2>1. \A i \in 1 .. k : w[i] \in DOMAIN ps
    BY <1>2, <1>3, ElementOfSeq
  <2>2. lists \in [1 .. k -> Seq(STRING)] /\ \A i \in 1 .. k : lists[i] = ps[w[i]]
    BY <1>3, <2>1 DEF IsMap
  <2> HIDE DEF lists
  <2>3. QED  BY <2>2, FunctionSeq
<1> HIDE DEF lists
<1>5. combos \in Seq(Seq(STRING))
  BY <1>4, ProductType
<1> HIDE DEF combos, Id
<1>6. PICK l \in Nat : l = Len(combos) /\ DOMAIN combos = 1 .. l
  BY <1>5, LenProperties
<1>7. DOMAIN vs = 1 .. l /\ \A i \in 1 .. l : vs[i] = WithId(node, Id(combos[i]))
  BY <1>6
<1> HIDE DEF vs
<1>8. vs \in Seq(ToSet(vs))
  <2>1. \A i \in 1 .. l : vs[i] \in ToSet(vs)
    BY <1>7, Zenon DEF ToSet
  <2>2. vs = [i \in 1 .. l |-> vs[i]]
    BY <1>7 DEF vs
  <2>3. vs \in [1 .. l -> ToSet(vs)]
    BY <2>1, <2>2
  <2>4. QED  BY <2>3, FunctionSeq
<1>9. \A v : WithId(node, v).class = node.class /\ WithId(node, v).name = node.name
  BY DEF WithId, Nodes
<1>10. CASE w = <<>>
  <2>1. ToSet(w) = {}
    BY <1>10 DEF ToSet
  <2>2. <<node>> \in Seq({node}) /\ ToSet(<<node>>) = {node}
    BY DEF ToSet
  <2>3. QED  BY <1>1, <1>2, <1>10, <2>1, <2>2 DEF AreVariants, U
<1>11. CASE w # <<>>
  <2>1. U # {}
    <3>1. k # 0
      BY <1>2, <1>3, <1>11, EmptySeq
    <3>2. 1 \in 1 .. k
      BY <3>1
    <3>3. w[1] \in U
      BY <1>2, <1>3, <3>2, Zenon DEF ToSet
    <3>4. QED  BY <3>3
  <2>2. ASSUME NEW x, U = {x}  PROVE ToSet(vs) = WithIds(node, ToSet(ps[x]))
    <3>1. k = 1 /\ w[1] = x
      <4>1. \A i \in 1 .. k : w[i] = x
        BY <1>2, <1>3, <2>2 DEF ToSet
      <4>2. k # 0
        BY <1>2, <1>3, <1>11, EmptySeq
      <4>3. 1 \in 1 .. k /\ (k # 1 => 2 \in 1 .. k)
        BY <4>2
      <4>4. QED  BY <1>2, <1>3, <4>1, <4>3
    <3>2. x \in DOMAIN ps /\ ps[x] \in Seq(STRING) /\ Len(lists) = 1 /\ lists[1] = ps[x]
      BY <1>4, <2>2, <3>1 DEF U, IsMap
    <3>3. ToSet(combos) = {<<v>> : v \in ToSet(ps[x])}
      BY <1>4, <3>2, ProductOfOne DEF combos
    <3>4. \A c : Id(c) = c[1]
      BY <1>3, <3>1 DEF Id
    <3>5. ASSUME NEW i \in 1 .. l  PROVE vs[i] \in WithIds(node, ToSet(ps[x]))
      <4>1. PICK v \in ToSet(ps[x]) : combos[i] = <<v>>
        <5>1. combos[i] \in ToSet(combos)
          BY <1>6 DEF ToSet
        <5>2. QED  BY <3>3, <5>1
      <4>2. Id(combos[i]) = v
        BY <3>4, <4>1
      <4>3. QED  BY <1>7, <4>2 DEF WithIds
    <3>6. ASSUME NEW v \in ToSet(ps[x])  PROVE WithId(node, v) \in ToSet(vs)
      <4>1. <<v>> \in ToSet(combos)
        BY <3>3
      <4>2. PICK i \in 1 .. l : combos[i] = <<v>>
        BY <1>6, <4>1 DEF ToSet
      <4>3. vs[i] = WithId(node, v)
        BY <1>7, <3>4, <4>2
      <4>4. QED  BY <1>7, <4>3, Zenon DEF ToSet
    <3>7. ToSet(vs) = {vs[i] : i \in 1 .. l}
      BY <1>7 DEF ToSet
    <3>8. QED  BY <3>5, <3>6, <3>7 DEF WithIds
  <2>3. ASSUME NEW m \in ToSet(vs)  PROVE m.class = node.class /\ m.name = node.name
    <3>1. PICK i \in 1 .. l : m = vs[i]
      BY <1>7 DEF ToSet
    <3>2. QED  BY <1>7, <1>9, <3>1, Zenon
  <2>4. AreVariants(vs, node, ps, U)
    BY <1>8, <2>1, <2>2, <2>3 DEF AreVariants
  <2>5. Variants(node, ps, order) = vs
    BY <1>1, <1>11
  <2>6. QED  BY <2>4, <2>5 DEF U
<1>12. QED  BY <1>10, <1>11

(* The expansion of a file holds the variants of its tests and nothing else. *)
LEMMA ExpandedHas ==
    ASSUME NEW nodes \in Seq(Nodes), NEW ps, IsMap(ps), NEW order \in SetToSeqs(DOMAIN ps)
    PROVE  /\ \A n \in ToSet(nodes) :
                 ToSet(Variants(n, ps, order)) \subseteq ToSet(Expanded(nodes, ps, order))
           /\ \A m \in ToSet(Expanded(nodes, ps, order)) :
                 \E n \in ToSet(nodes) : m \in ToSet(Variants(n, ps, order))
<1>1. PICK k \in Nat : k = Len(nodes) /\ DOMAIN nodes = 1 .. k /\ \A i \in 1 .. k : nodes[i] \in Nodes
  BY ElementOfSeq, LenProperties
<1> DEFINE all == [i \in DOMAIN nodes |-> Variants(nodes[i], ps, order)]
           T == UNION {ToSet(all[i]) : i \in 1 .. k}
<1>2. Expanded(nodes, ps, order) = FlattenSeq(all)
  BY DEF Expanded
<1>3. all = [i \in 1 .. k |-> all[i]] /\ \A i \in 1 .. k : all[i] = Variants(nodes[i], ps, order)
  BY <1>1
<1> HIDE DEF all
<1>4. ASSUME NEW i \in 1 .. k  PROVE all[i] \in Seq(T)
  <2>1. all[i] \in Seq(ToSet(all[i]))
    BY <1>1, <1>3, VariantsAre DEF AreVariants
  <2>2. ToSet(all[i]) \subseteq T
    OBVIOUS
  <2> HIDE DEF T
  <2>3. QED  BY <2>1, <2>2
<1> HIDE DEF T
<1>5. all \in Seq(Seq(T)) /\ Len(all) = k
  <2>1. all \in [1 .. k -> Seq(T)]
    BY <1>3, <1>4
  <2>2. QED  BY <2>1, FunctionSeq
<1>6. ASSUME NEW n \in ToSet(nodes), NEW m \in ToSet(Variants(n, ps, order))
      PROVE  m \in ToSet(Expanded(nodes, ps, order))
  <2>1. PICK i \in 1 .. k : n = nodes[i]
    BY <1>1 DEF ToSet
  <2>2. m \in ToSet(all[i])
    BY <1>3, <2>1
  <2>3. QED  BY <1>2, <1>5, <2>2, FlattenHas
<1>7. ASSUME NEW m \in ToSet(Expanded(nodes, ps, order))
      PROVE  \E n \in ToSet(nodes) : m \in ToSet(Variants(n, ps, order))
  <2>1. PICK s \in Seq(T) : s = Expanded(nodes, ps, order)
    BY <1>2, <1>5, FlattenType
  <2>2. m \in T
    BY <1>7, <2>1, ElementOfSeq, LenProperties DEF ToSet
  <2>3. PICK i \in 1 .. k : m \in ToSet(all[i])
    BY <2>2 DEF T
  <2>4. nodes[i] \in ToSet(nodes)
    BY <1>1 DEF ToSet
  <2>5. QED  BY <1>3, <2>3, <2>4
<1>8. QED  BY <1>6, <1>7

-----------------------------------------------------------------------------
(* A file's own parameters *)

LEMMA MapIsMap == CollectInv => IsMap(params)
<1> SUFFICES ASSUME CollectInv, NEW n \in DOMAIN params  PROVE params[n] \in Seq(STRING)
  BY DEF IsMap, CollectInv, MapInv
<1>1. PICK f \in Files : \E x \in FixturesOf(read[f]) : x.params = params[n] /\ x.params # None
  BY DEF CollectInv, MapInv
<1>2. PICK x \in FixturesOf(read[f]) : x.params = params[n] /\ x.params # None
  BY <1>1
<1>3. x \in FixtureDefs
  BY FixturesType DEF CollectInv, CollectTypeInv
<1>4. QED  BY <1>2, <1>3 DEF FixtureDefs

(* Of the fixtures of a file the map tells what the file itself does. *)
LEMMA MapTellsOwn ==
    ASSUME CollectInv, pc = "done", SameParams, NEW f \in Files
    PROVE  LET own == OwnParams(read[f])
           IN  /\ DOMAIN own = DOMAIN params \cap {x.name : x \in FixturesOf(read[f])}
               /\ \A n \in DOMAIN own : own[n] = params[n]
<1> DEFINE own == OwnParams(read[f])
           given == {x \in FixturesOf(read[f]) : x.params # None}
<1>1. /\ DOMAIN own = {x.name : x \in given}
      /\ \A n \in DOMAIN own : own[n] = (CHOOSE x \in given : x.name = n).params
  BY DEF OwnParams
<1>2. \A x \in FixturesOf(read[f]) : x.params = None \/ x.name \in DOMAIN params
  <2>1. todo[f] = <<>> /\ <<>> # None
    <3>1. <<>> \in Seq(FixtureDefs)
      OBVIOUS
    <3>2. QED  BY <3>1, CollectAssumption DEF CollectInv, DoneInv, ThreadInv
  <2>2. Entered(f) /\ ToSet(todo[f]) = {}
    BY <2>1 DEF CollectInv, ThreadInv, ToSet
  <2>3. QED  BY <2>2 DEF Entered
<1>3. ASSUME NEW n \in DOMAIN params, NEW x \in FixturesOf(read[f]), x.name = n
      PROVE  x.params = params[n] /\ x.params # None
  <2>1. PICK g \in Files : \E z \in FixturesOf(read[g]) :
            z.name = n /\ z.params = params[n] /\ z.params # None
    BY DEF CollectInv, MapInv
  <2>2. QED  BY <1>3, <2>1 DEF SameParams
<1> HIDE DEF own
<1>4. ASSUME NEW n \in DOMAIN own  PROVE n \in DOMAIN params /\ own[n] = params[n]
  <2>1. PICK y \in given : y = (CHOOSE x \in given : x.name = n) /\ y.name = n
    BY <1>1
  <2>2. QED  BY <1>1, <1>2, <1>3, <2>1
<1>5. ASSUME NEW n \in DOMAIN params, NEW x \in FixturesOf(read[f]), x.name = n
      PROVE  n \in DOMAIN own
  BY <1>1, <1>3, <1>5
<1>6. DOMAIN own = DOMAIN params \cap {x.name : x \in FixturesOf(read[f])}
  BY <1>1, <1>4, <1>5
<1>7. QED  BY <1>4, <1>6 DEF own

LEMMA ReproducibleHolds == CollectInv => Reproducible
<1> SUFFICES ASSUME CollectInv, pc = "done", SameParams, NEW f \in Files
    PROVE  LET own == OwnParams(read[f])
               Several(n) == \E x, y \in n.uses \cap DOMAIN own : x # y
           IN  /\ \A n \in ToSet(TestsOf(read[f])) :
                     ~ Several(n) => OwnVariants(n, own) \subseteq ToSet(result[f])
               /\ \A m \in ToSet(result[f]) : \E n \in ToSet(TestsOf(read[f])) :
                     IF Several(n) THEN m.class = n.class /\ m.name = n.name
                     ELSE m \in OwnVariants(n, own)
  BY DEF Reproducible
<1> DEFINE own == OwnParams(read[f])
           Several(n) == \E x, y \in n.uses \cap DOMAIN own : x # y
<1>1. PICK nodes \in Seq(Nodes) : /\ nodes = TestsOf(read[f])
                                  /\ \A n \in ToSet(nodes) : n \in Nodes
                                        /\ n.uses \subseteq {x.name : x \in FixturesOf(read[f])}
  <2>1. /\ TestsOf(read[f]) \in Seq(Nodes)
        /\ \A n \in ToSet(TestsOf(read[f])) : n.uses \subseteq {x.name : x \in FixturesOf(read[f])}
    BY FixturesType DEF CollectInv, CollectTypeInv
  <2>2. \A n \in ToSet(TestsOf(read[f])) : n \in Nodes
    BY <2>1, ElementOfSeq, LenProperties DEF ToSet
  <2>3. QED  BY <2>1, <2>2
<1>2. PICK order \in SetToSeqs(DOMAIN params) : result[f] = Expanded(nodes, params, order)
  <2>1. found[f] = nodes
    BY <1>1 DEF CollectInv, ThreadInv, DoneInv
  <2>2. QED  BY <2>1 DEF CollectInv, DoneInv
<1>3. IsMap(params)
  BY MapIsMap
<1>4. /\ DOMAIN own = DOMAIN params \cap {x.name : x \in FixturesOf(read[f])}
      /\ \A n \in DOMAIN own : own[n] = params[n]
  BY MapTellsOwn
<1> DEFINE variants(n) == ToSet(Variants(n, params, order))
<1> HIDE DEF own
<1>5. ASSUME NEW n \in ToSet(nodes)
      PROVE  /\ ~ Several(n) => variants(n) = OwnVariants(n, own)
             /\ \A m \in variants(n) : m.class = n.class /\ m.name = n.name
  <2>1. n.uses \cap DOMAIN params = n.uses \cap DOMAIN own
    BY <1>1, <1>4
  <2>2. PICK U : U = n.uses \cap DOMAIN own
    OBVIOUS
  <2>3. AreVariants(Variants(n, params, order), n, params, U)
    BY <1>1, <1>3, <2>1, <2>2, VariantsAre
  <2>4. ASSUME U = {}  PROVE variants(n) = OwnVariants(n, own)
    BY <2>2, <2>3, <2>4 DEF AreVariants, OwnVariants
  <2>5. ASSUME NEW x, U = {x}  PROVE variants(n) = OwnVariants(n, own)
    <3>1. x \in DOMAIN own /\ own[x] = params[x]
      BY <1>4, <2>2, <2>5
    <3>2. UNION {ToSet(own[y]) : y \in U} = ToSet(params[x])
      BY <2>5, <3>1
    <3>3. OwnVariants(n, own) = {[n EXCEPT !.ids = Append(@, v)] : v \in ToSet(params[x])}
      BY <2>2, <2>5, <3>2 DEF OwnVariants
    <3>4. OwnVariants(n, own) = WithIds(n, ToSet(params[x]))
      BY <3>3 DEF WithIds, WithId
    <3>5. QED  BY <2>3, <2>5, <3>4 DEF AreVariants
  <2>6. ASSUME U # {}, \A x : U # {x}  PROVE Several(n)
    <3>1. PICK x \in U : TRUE
      BY <2>6
    <3>2. PICK y \in U : y # x
      <4>1. SUFFICES ASSUME \A y \in U : y = x  PROVE FALSE
        OBVIOUS
      <4>2. U = {x}
        BY <3>1, <4>1
      <4>3. QED  BY <2>6, <4>2
    <3>3. QED  BY <2>2, <3>1, <3>2
  <2>7. \A m \in variants(n) : m.class = n.class /\ m.name = n.name
    BY <2>3 DEF AreVariants
  <2> HIDE DEF Several, variants
  <2>8. QED  BY <2>4, <2>5, <2>6, <2>7
<1> HIDE DEF Several, variants
<1>6. ASSUME NEW n \in ToSet(nodes), ~ Several(n)  PROVE OwnVariants(n, own) \subseteq ToSet(result[f])
  BY <1>2, <1>3, <1>5, <1>6, ExpandedHas DEF variants
<1>7. ASSUME NEW m \in ToSet(result[f])
      PROVE  \E n \in ToSet(nodes) : IF Several(n) THEN m.class = n.class /\ m.name = n.name
                                     ELSE m \in OwnVariants(n, own)
  <2>1. PICK n \in ToSet(nodes) : m \in variants(n)
    BY <1>2, <1>3, <1>7, ExpandedHas DEF variants
  <2>2. QED  BY <1>5, <2>1
<1>8. QED  BY <1>1, <1>6, <1>7 DEF own, Several

(***************************************************************************)
(* What a file contributes to a collection is told by its own text, in     *)
(* whatever order the threads enter their parameters into the map, whether *)
(* files are edited or not, and whatever was collected before: the map is  *)
(* emptied when a collection begins (collector.rs:143), so that all in it  *)
(* is of the texts that the threads of this one have read.                 *)
(***************************************************************************)
THEOREM ReproducibleInvariance == CollectSpec => []Reproducible
  BY CollectInvariance, ReproducibleHolds, PTL

-----------------------------------------------------------------------------
(***************************************************************************)
(* Which tests the collector finds. What it takes from a definition is     *)
(* never nothing, each class is walked together with all that it inherits  *)
(* from, and a method is passed over only if its class has the name        *)
(* already; and no expansion leaves nothing of a test.                     *)
(***************************************************************************)

(* A function on the first numbers is a list. *)
LEMMA IsListOf ==
    ASSUME NEW n \in Nat, NEW f, f = [i \in 1 .. n |-> f[i]]
    PROVE  IsList(f) /\ DOMAIN f = 1 .. n /\ Len(f) = n
<1>1. DOMAIN f = 1 .. n
  BY Zenon
<1>2. \A i \in 1 .. n : f[i] \in Range(f)
  BY <1>1, Zenon DEF Range
<1>3. f \in [1 .. n -> Range(f)]
  BY <1>2
<1>4. QED  BY <1>1, <1>3, FunctionSeq DEF IsList

(* And what a list is made of. *)
LEMMA ListProperties ==
    ASSUME NEW s, IsList(s)
    PROVE  /\ Len(s) \in Nat /\ DOMAIN s = 1 .. Len(s) /\ s = [i \in 1 .. Len(s) |-> s[i]]
           /\ \A x : x \in Range(s) <=> \E i \in 1 .. Len(s) : x = s[i]
           /\ s # <<>> <=> Len(s) > 0
<1>1. s \in Seq(Range(s))
  BY DEF IsList
<1>2. Len(s) \in Nat /\ DOMAIN s = 1 .. Len(s) /\ s = [i \in 1 .. Len(s) |-> s[i]]
  BY <1>1
<1>3. s # <<>> <=> Len(s) > 0
  BY <1>1
<1>4. QED  BY <1>2, <1>3, Zenon DEF Range

(* A list is one of all that has its elements. *)
LEMMA ListIn ==
    ASSUME NEW s, IsList(s), NEW T, Range(s) \subseteq T
    PROVE  s \in Seq(T)
<1>1. s \in [1 .. Len(s) -> T] /\ Len(s) \in Nat
  BY ListProperties
<1>2. QED  BY <1>1, FunctionSeq

LEMMA InList ==
    ASSUME NEW T, NEW s \in Seq(T)
    PROVE  IsList(s) /\ Range(s) \subseteq T /\ Range(s) = ToSet(s)
<1>1. PICK n \in Nat : n = Len(s) /\ DOMAIN s = 1 .. n /\ \A i \in 1 .. n : s[i] \in T
  BY ElementOfSeq, LenProperties
<1>2. s = [i \in 1 .. n |-> s[i]]
  BY <1>1
<1>3. IsList(s)
  BY <1>2, IsListOf
<1>4. Range(s) \subseteq T /\ Range(s) = ToSet(s)
  BY <1>1 DEF Range, ToSet
<1>5. QED  BY <1>3, <1>4

(* What lists in a row hold. *)
LEMMA FlattenedLists ==
    ASSUME NEW n \in Nat, NEW ss, ss = [i \in 1 .. n |-> ss[i]],
           \A i \in 1 .. n : IsList(ss[i])
    PROVE  /\ IsList(FlattenSeq(ss))
           /\ \A x : x \in Range(FlattenSeq(ss)) <=> \E i \in 1 .. n : x \in Range(ss[i])
<1> DEFINE T == UNION {Range(ss[i]) : i \in 1 .. n}
<1>1. ASSUME NEW i \in 1 .. n  PROVE ss[i] \in Seq(T) /\ Range(ss[i]) = ToSet(ss[i])
  <2>1. Range(ss[i]) \subseteq T
    OBVIOUS
  <2> HIDE DEF T
  <2>2. ss[i] \in Seq(T)
    BY <2>1, ListIn
  <2>3. QED  BY <2>2, InList
<1>2. \A x : x \in T <=> \E i \in 1 .. n : x \in Range(ss[i])
  OBVIOUS
<1> HIDE DEF T
<1>3. ss \in Seq(Seq(T)) /\ Len(ss) = n
  <2>1. ss \in [1 .. n -> Seq(T)]
    BY <1>1
  <2>2. QED  BY <2>1, FunctionSeq
<1>4. FlattenSeq(ss) \in Seq(T)
  BY <1>3, FlattenType
<1>5. IsList(FlattenSeq(ss)) /\ Range(FlattenSeq(ss)) \subseteq T
      /\ Range(FlattenSeq(ss)) = ToSet(FlattenSeq(ss))
  BY <1>4, InList
<1>6. ASSUME NEW i \in 1 .. n, NEW x \in Range(ss[i])  PROVE x \in Range(FlattenSeq(ss))
  <2>1. x \in ToSet(FlattenSeq(ss))
    BY <1>1, <1>3, FlattenHas
  <2>2. QED  BY <1>5, <2>1
<1>7. QED  BY <1>2, <1>5, <1>6

LEMMA TwoLists ==
    ASSUME NEW T, NEW s \in Seq(T), NEW t \in Seq(T)
    PROVE  s \o t \in Seq(T) /\ Range(s \o t) = Range(s) \cup Range(t)
<1>1. Range(s \o t) = Range(s) \cup Range(t)
  BY RangeConcatenation
<1>2. QED  BY <1>1

(* Without keeps what is not to be left out. *)
LEMMA WithoutIn ==
    ASSUME NEW s, IsList(s), NEW X
    PROVE  LET w == Without(s, X)
           IN  IsList(w) /\ \A x \in Range(w) : x \in Range(s) /\ x \notin X
<1>1. PICK w : w = Without(s, X)
  OBVIOUS
<1>2. s \in Seq(Range(s))
  BY DEF IsList
<1>3. w \in Seq(Range(s)) /\ \E q \in [1 .. Len(w) -> Nat] : Places(q, w, s, X, Len(s))
  BY <1>1, <1>2, WithoutPlaces
<1>4. IsList(w) /\ Range(w) \subseteq Range(s)
  BY <1>3, InList
<1>5. ASSUME NEW x \in Range(w)  PROVE x \notin X
  <2>1. PICK i \in 1 .. Len(w) : x = w[i]
    BY <1>4, ListProperties
  <2>2. PICK q \in [1 .. Len(w) -> Nat] : Places(q, w, s, X, Len(s))
    BY <1>3
  <2>3. QED  BY <2>1, <2>2 DEF Places
<1>6. QED  BY <1>1, <1>4, <1>5

(* Lists that are not empty have a combination. *)
LEMMA CrossedSome ==
    ASSUME NEW T, NEW combos \in Seq(Seq(T)), NEW s \in Seq(T), combos # <<>>, s # <<>>
    PROVE  Crossed(combos, s) # <<>>
<1> DEFINE Row(i) == [j \in DOMAIN s |-> Append(combos[i], s[j])]
           rows == [i \in DOMAIN combos |-> Row(i)]
<1>1. /\ DOMAIN combos = 1 .. Len(combos) /\ DOMAIN s = 1 .. Len(s)
      /\ Len(combos) \in Nat /\ Len(s) \in Nat /\ 1 \in 1 .. Len(combos) /\ 1 \in 1 .. Len(s)
  BY LenProperties, EmptySeq
<1>2. ASSUME NEW i \in 1 .. Len(combos)
      PROVE  IsList(Row(i)) /\ Append(combos[i], s[1]) \in Range(Row(i))
  <2>1. Row(i) = [j \in 1 .. Len(s) |-> Row(i)[j]] /\ Row(i)[1] = Append(combos[i], s[1])
    BY <1>1
  <2> HIDE DEF Row
  <2>2. IsList(Row(i)) /\ DOMAIN Row(i) = 1 .. Len(s)
    BY <1>1, <2>1, IsListOf
  <2>3. QED  BY <1>1, <2>1, <2>2, Zenon DEF Range
<1> HIDE DEF Row
<1>3. rows = [i \in 1 .. Len(combos) |-> rows[i]] /\ \A i \in 1 .. Len(combos) : rows[i] = Row(i)
  BY <1>1
<1>4. Crossed(combos, s) = FlattenSeq(rows)
  BY DEF Crossed, Row
<1> HIDE DEF rows
<1>5. \A i \in 1 .. Len(combos) : IsList(rows[i])
  BY <1>2, <1>3
<1>6. Append(combos[1], s[1]) \in Range(FlattenSeq(rows))
  <2>1. \A x : x \in Range(FlattenSeq(rows)) <=> \E i \in 1 .. Len(combos) : x \in Range(rows[i])
    <3>1. rows = [i \in 1 .. Len(combos) |-> rows[i]]
      BY <1>3
    <3>2. QED  BY <1>1, <1>5, <3>1, FlattenedLists
  <2>2. Append(combos[1], s[1]) \in Range(rows[1])
    BY <1>1, <1>2, <1>3
  <2>3. QED  BY <1>1, <2>1, <2>2, Zenon
<1>7. FlattenSeq(rows) # <<>>
  <2>1. Range(<<>>) = {}
    BY EmptyMap DEF Range
  <2>2. QED  BY <1>6, <2>1, Zenon
<1>8. QED  BY <1>4, <1>7

LEMMA ProductSome ==
    ASSUME NEW T, NEW ss \in Seq(Seq(T)), \A i \in 1 .. Len(ss) : ss[i] # <<>>
    PROVE  Product(ss) # <<>>
<1>1. PICK n \in Nat : n = Len(ss)
  OBVIOUS
<1>2. PICK f \in [0 .. n -> Seq(Seq(T))] : Combining(ss, n, f) /\ Product(ss) = f[n]
  BY <1>1, Combined
<1> DEFINE S == {k \in 0 .. n : f[k] # <<>>}
<1>3. 0 \in S
  <2>1. f[0] = << <<>> >> /\ << <<>> >> # <<>>
    BY <1>2 DEF Combining
  <2>2. f[0] # <<>> /\ 0 \in 0 .. n
    BY <1>1, <2>1
  <2>3. QED  BY <2>2
<1>4. ASSUME NEW k \in 0 .. n - 1, k \in S  PROVE k + 1 \in S
  <2>1. k \in 0 .. n /\ k + 1 \in 1 .. n /\ k + 1 \in 0 .. n
    BY <1>1
  <2>2. f[k] \in Seq(Seq(T)) /\ f[k] # <<>> /\ ss[k + 1] \in Seq(T) /\ ss[k + 1] # <<>>
    BY <1>1, <1>2, <1>4, <2>1, ElementOfSeq
  <2>3. f[k + 1] = Crossed(f[k], ss[k + 1])
    BY <1>2 DEF Combining
  <2>4. QED  BY <2>1, <2>2, <2>3, CrossedSome
<1>5. 0 .. n \subseteq S
  <2> HIDE DEF S
  <2>1. QED  BY <1>3, <1>4, UpTo
<1>6. n \in S
  BY <1>5
<1>7. QED  BY <1>2, <1>6

\* A definition that is not parametrized with no values at all.
IsFull(d) == <<>> \notin Range(d.sets)

\* The lists of elements that the decorators of d give.
AreSets(sets, k, d) ==
    /\ sets = [i \in 1 .. k |-> sets[i]]
    /\ \A i \in 1 .. k : IsList(sets[i]) /\ (IsFull(d) => sets[i] # <<>>)

LEMMA SetsAre ==
    ASSUME NEW d, IsDef(d)
    PROVE  \E k \in Nat : AreSets(SetsOf(d), k, d)
<1> DEFINE ignored == {set \in Range(d.sets) :
                          set = None \/ \E i \in DOMAIN set : Element(set[i]) = None}
           kept == Without(d.sets, ignored)
           Set(i) == [j \in DOMAIN kept[i] |-> Element(kept[i][j])]
           sets == [i \in DOMAIN kept |-> Set(i)]
<1>1. SetsOf(d) = sets
  BY DEF SetsOf
<1>2. IsList(d.sets) /\ \A i \in DOMAIN d.sets : d.sets[i] # None => IsList(d.sets[i])
  BY DEF IsDef
<1>3. \A set \in Range(d.sets) : set \notin ignored => set # None /\ IsList(set)
  BY <1>2, Zenon DEF Range
<1>4. IsList(kept) /\ \A set \in Range(kept) : set \in Range(d.sets) /\ set \notin ignored
  <2> HIDE DEF ignored
  <2>1. QED  BY <1>2, WithoutIn
<1> HIDE DEF ignored, kept
<1>5. PICK k \in Nat : k = Len(kept) /\ DOMAIN kept = 1 .. k /\ \A i \in 1 .. k : kept[i] \in Range(kept)
  BY <1>4, ListProperties
<1>6. ASSUME NEW i \in 1 .. k  PROVE IsList(Set(i)) /\ (IsFull(d) => Set(i) # <<>>)
  <2>1. PICK set : set = kept[i]
    OBVIOUS
  <2>2. IsList(set) /\ (IsFull(d) => set # <<>>)
    BY <1>3, <1>4, <1>5, <2>1 DEF IsFull
  <2>3. PICK m \in Nat : m = Len(set) /\ DOMAIN set = 1 .. m /\ (set # <<>> => m > 0)
    BY <2>2, ListProperties
  <2>4. Set(i) = [j \in 1 .. m |-> Set(i)[j]]
    BY <2>1, <2>3
  <2> HIDE DEF Set
  <2>5. IsList(Set(i)) /\ Len(Set(i)) = m
    BY <2>4, IsListOf
  <2>6. QED  BY <2>2, <2>3, <2>5, ListProperties
<1> HIDE DEF Set
<1>7. sets = [i \in 1 .. k |-> sets[i]] /\ \A i \in 1 .. k : sets[i] = Set(i)
  BY <1>5
<1> HIDE DEF sets
<1>8. AreSets(sets, k, d)
  BY <1>6, <1>7 DEF AreSets
<1>9. QED  BY <1>1, <1>8

(* A function has an id for each of its variants, and there is a variant. *)
LEMMA IdsAre ==
    ASSUME NEW d, IsDef(d)
    PROVE  \E n \in Nat : DOMAIN VariantIds(d) = 1 .. n /\ (IsFull(d) => n > 0)
<1>1. PICK sets : sets = SetsOf(d)
  OBVIOUS
<1>2. PICK k \in Nat : AreSets(sets, k, d)
  BY <1>1, SetsAre
<1>3. sets = [i \in 1 .. k |-> sets[i]] /\ Len(sets) = k
  BY <1>2, IsListOf DEF AreSets
<1> DEFINE ids == IF k = 1 THEN SingleIds(sets[1]) ELSE StackedIds(sets)
<1>4. VariantIds(d) = IF sets = <<>> THEN << <<>> >> ELSE [i \in DOMAIN ids |-> <<ids[i]>>]
  BY <1>1, <1>3, Zenon DEF VariantIds
<1>5. ASSUME sets = <<>>  PROVE DOMAIN VariantIds(d) = 1 .. 1
  BY <1>4, <1>5
<1>6. ASSUME sets # <<>>  PROVE DOMAIN VariantIds(d) = DOMAIN ids
  <2> HIDE DEF ids
  <2>1. QED  BY <1>4, <1>6
<1>7. ASSUME k = 1  PROVE \E n \in Nat : DOMAIN ids = 1 .. n /\ (IsFull(d) => n > 0)
  <2>1. DOMAIN ids = DOMAIN sets[1]
    BY <1>7 DEF SingleIds, Deduplicate
  <2>2. IsList(sets[1]) /\ (IsFull(d) => sets[1] # <<>>)
    BY <1>2, <1>7 DEF AreSets
  <2> HIDE DEF ids
  <2>3. QED  BY <2>1, <2>2, ListProperties
<1>8. ASSUME k > 1  PROVE \E n \in Nat : DOMAIN ids = 1 .. n /\ (IsFull(d) => n > 0)
  <2> DEFINE T == UNION {Range(sets[i]) : i \in 1 .. k}
  <2>1. \A i \in 1 .. k : sets[i] \in Seq(T) /\ (IsFull(d) => sets[i] # <<>>)
    <3>1. \A i \in 1 .. k : IsList(sets[i]) /\ Range(sets[i]) \subseteq T
      BY <1>2 DEF AreSets
    <3> HIDE DEF T
    <3>2. QED  BY <1>2, <3>1, ListIn DEF AreSets
  <2> HIDE DEF T
  <2>2. PICK r : r = Reverse(sets)
    OBVIOUS
  <2>3. /\ r \in Seq(Seq(T)) /\ Len(r) = k
        /\ \A i \in 1 .. k : IsFull(d) => r[i] # <<>>
    <3>1. r = [i \in 1 .. k |-> sets[(k - i) + 1]]
      BY <1>3, <2>2 DEF Reverse
    <3>2. \A i \in 1 .. k : (k - i) + 1 \in 1 .. k
      OBVIOUS
    <3>3. r \in [1 .. k -> Seq(T)] /\ \A i \in 1 .. k : IsFull(d) => r[i] # <<>>
      BY <2>1, <3>1, <3>2
    <3>4. QED  BY <3>3, FunctionSeq
  <2>4. Product(r) \in Seq(Seq(T)) /\ (IsFull(d) => Product(r) # <<>>)
    BY <2>3, ProductType, ProductSome
  <2>5. DOMAIN ids = DOMAIN Product(r)
    BY <1>8, <2>2 DEF StackedIds
  <2> HIDE DEF ids
  <2>6. IsList(Product(r))
    BY <2>4, InList
  <2>7. QED  BY <2>4, <2>5, <2>6, ListProperties
<1>9. ASSUME k = 0  PROVE sets = <<>>
  BY <1>3, <1>9
<1> HIDE DEF ids
<1>10. k = 0 \/ k = 1 \/ k > 1
  OBVIOUS
<1>11. QED  BY <1>5, <1>6, <1>7, <1>8, <1>9, <1>10

-----------------------------------------------------------------------------
(* From a definition to the nodes of a file *)

\* What is assumed of a text, its definitions, and all nodes they may become.
IsText(t) ==
    /\ IsList(t.body)
    /\ \A s \in Range(t.body) : (IsDef(s) /\ s.within = <<>>) \/ IsClass(s)

DefsOf(t) == {s \in Range(t.body) : s.is = "def"} \cup UNION {Range(c.body) : c \in Classes(t)}

NodesIn(t) == UNION {Range(NodesOf(d, c, t)) : d \in DefsOf(t), c \in STRING \cup {None}}

\* A method or function that Python takes for a test.
IsTest(d) == d.is = "def" /\ d.name \in TestNames /\ d.plain /\ d.within = <<>>

Has(nodes, c, x) == \E n \in Range(nodes) : n.class = c /\ n.name = x

\* All tests of a list of definitions are there, as those of class c.
Covers(nodes, c, ds) == \A d \in Range(ds) : IsTest(d) => Has(nodes, c, d.name)

LEMMA TextDefs ==
    ASSUME NEW t, IsText(t)
    PROVE  /\ \A d \in DefsOf(t) : IsDef(d)
           /\ \A c \in Classes(t) : /\ c.name \in STRING /\ c.bases \in Seq(STRING)
                                    /\ IsList(c.body) /\ Range(c.body) \subseteq DefsOf(t)
<1>1. ASSUME NEW s \in Range(t.body), s.is = "def"  PROVE IsDef(s)
  BY <1>1 DEF IsText, IsClass
<1>2. ASSUME NEW c \in Classes(t)  PROVE IsClass(c)
  BY DEF IsText, IsDef, Classes
<1>3. ASSUME NEW c \in Classes(t)
      PROVE  /\ c.name \in STRING /\ c.bases \in Seq(STRING)
             /\ IsList(c.body) /\ \A d \in Range(c.body) : IsDef(d)
  BY <1>2 DEF IsClass
<1>4. ASSUME NEW c \in Classes(t)  PROVE Range(c.body) \subseteq DefsOf(t)
  BY DEF DefsOf
<1>5. ASSUME NEW d \in DefsOf(t)  PROVE IsDef(d)
  <2>1. (d \in Range(t.body) /\ d.is = "def") \/ \E c \in Classes(t) : d \in Range(c.body)
    BY DEF DefsOf
  <2>2. QED  BY <1>1, <1>3, <2>1
<1>6. QED  BY <1>3, <1>4, <1>5

LEMMA NodesAre ==
    ASSUME NEW t, IsText(t), NEW d \in DefsOf(t), NEW c \in STRING \cup {None}
    PROVE  /\ NodesOf(d, c, t) \in Seq(NodesIn(t))
           /\ IsTest(d) /\ IsFull(d) => Has(NodesOf(d, c, t), c, d.name)
<1>1. IsDef(d)
  BY TextDefs
<1>2. PICK n \in Nat : DOMAIN VariantIds(d) = 1 .. n /\ (IsFull(d) => n > 0)
  BY <1>1, IdsAre
<1> DEFINE ids == VariantIds(d)
           nodes == [i \in DOMAIN ids |->
                        [class |-> c, name |-> d.name, ids |-> ids[i], uses |-> Uses(d, t)]]
<1>3. NodesOf(d, c, t) =
          IF d.name \in TestNames \cup TitledNames /\ d.plain THEN nodes ELSE <<>>
  BY DEF NodesOf
<1>4. nodes = [i \in 1 .. n |-> nodes[i]]
      /\ \A i \in 1 .. n : nodes[i].class = c /\ nodes[i].name = d.name
  BY <1>2
<1> HIDE DEF nodes
<1>5. IsList(nodes) /\ DOMAIN nodes = 1 .. n
  BY <1>4, IsListOf
<1>6. IsList(<<>>)
  BY DEF IsList
<1>7. IsList(NodesOf(d, c, t))
  BY <1>3, <1>5, <1>6
<1>8. Range(NodesOf(d, c, t)) \subseteq NodesIn(t)
  BY DEF NodesIn
<1>9. ASSUME IsTest(d), IsFull(d)  PROVE Has(NodesOf(d, c, t), c, d.name)
  <2>1. NodesOf(d, c, t) = nodes
    BY <1>3, <1>9 DEF IsTest
  <2>2. 1 \in 1 .. n
    BY <1>2, <1>9
  <2>3. nodes[1] \in Range(nodes) /\ nodes[1].class = c /\ nodes[1].name = d.name
    BY <1>4, <1>5, <2>2, Zenon DEF Range
  <2>4. QED  BY <2>1, <2>3 DEF Has
<1>10. QED  BY <1>7, <1>8, <1>9, ListIn

LEMMA HasMore ==
    ASSUME NEW s, NEW u, Range(s) \subseteq Range(u), NEW c, NEW x, Has(s, c, x)
    PROVE  Has(u, c, x)
  BY DEF Has

(* The body of a class gives a node to each of its tests. *)
LEMMA BodyHas ==
    ASSUME NEW t, IsText(t), \A d \in DefsOf(t) : IsFull(d), NEW c \in Classes(t)
    PROVE  /\ BodyNodes(c.body, c.name, t) \in Seq(NodesIn(t))
           /\ Covers(BodyNodes(c.body, c.name, t), c.name, c.body)
<1>1. PICK body : body = c.body
  OBVIOUS
<1>2. c.name \in STRING /\ IsList(body) /\ \A d \in Range(body) : d \in DefsOf(t) /\ IsDef(d)
  BY <1>1, TextDefs
<1>3. PICK n \in Nat : /\ DOMAIN body = 1 .. n /\ \A i \in 1 .. n : body[i] \in Range(body)
                       /\ \A d \in Range(body) : \E i \in 1 .. n : d = body[i]
  BY <1>2, ListProperties
<1> DEFINE Of(i) == IF Range(body[i].within) \subseteq TitledNames
                    THEN NodesOf(body[i], IF body[i].within = <<>> THEN c.name
                                          ELSE Last(body[i].within), t)
                    ELSE <<>>
           all == [i \in DOMAIN body |-> Of(i)]
<1>4. BodyNodes(body, c.name, t) = FlattenSeq(all)
  BY DEF BodyNodes
<1>5. ASSUME NEW i \in 1 .. n  PROVE Of(i) \in Seq(NodesIn(t))
  <2>1. PICK d \in DefsOf(t) : d = body[i] /\ d.within \in Seq(STRING)
    BY <1>2, <1>3 DEF IsDef
  <2>2. ASSUME d.within # <<>>  PROVE Last(d.within) \in STRING
    <3>1. Len(d.within) \in 1 .. Len(d.within)
      BY <2>1, <2>2, EmptySeq, LenProperties
    <3>2. QED  BY <2>1, <3>1, ElementOfSeq DEF Last
  <2>3. PICK x \in STRING \cup {None} :
            x = IF d.within = <<>> THEN c.name ELSE Last(d.within)
    BY <1>2, <2>2
  <2>4. NodesOf(d, x, t) \in Seq(NodesIn(t)) /\ <<>> \in Seq(NodesIn(t))
    BY NodesAre
  <2>5. QED  BY <2>1, <2>3, <2>4
<1>6. ASSUME NEW i \in 1 .. n, IsTest(body[i])  PROVE Has(Of(i), c.name, body[i].name)
  <2>1. body[i].within = <<>> /\ Range(<<>>) = {}
    BY <1>6, EmptyMap DEF IsTest, Range
  <2>2. Of(i) = NodesOf(body[i], c.name, t)
    BY <2>1
  <2>3. Has(NodesOf(body[i], c.name, t), c.name, body[i].name)
    BY <1>2, <1>3, <1>6, NodesAre
  <2> HIDE DEF Of
  <2>4. QED  BY <2>2, <2>3
<1> HIDE DEF Of
<1>7. all = [i \in 1 .. n |-> all[i]] /\ \A i \in 1 .. n : all[i] = Of(i)
  BY <1>3
<1> HIDE DEF all
<1>8. /\ FlattenSeq(all) \in Seq(NodesIn(t))
      /\ \A i \in 1 .. n : Range(all[i]) \subseteq Range(FlattenSeq(all))
  <2>1. all \in [1 .. n -> Seq(NodesIn(t))]
    BY <1>5, <1>7
  <2>2. FlattenSeq(all) \in Seq(NodesIn(t))
    BY <2>1, FunctionSeq, FlattenType
  <2>3. \A i \in 1 .. n : IsList(all[i])
    BY <2>1, InList
  <2>4. \A x : x \in Range(FlattenSeq(all)) <=> \E i \in 1 .. n : x \in Range(all[i])
    BY <1>7, <2>3, FlattenedLists
  <2>5. QED  BY <2>2, <2>4
<1>9. ASSUME NEW d \in Range(body), IsTest(d)  PROVE Has(FlattenSeq(all), c.name, d.name)
  <2>1. PICK i \in 1 .. n : d = body[i]
    BY <1>3
  <2>2. Has(all[i], c.name, d.name)
    BY <1>6, <1>7, <1>9, <2>1
  <2>3. QED  BY <1>8, <2>2, HasMore
<1>10. QED  BY <1>1, <1>4, <1>8, <1>9 DEF Covers

(* What a class inherits is added to the nodes there are. *)
Grows(nodes, more, t) == more \in Seq(NodesIn(t)) /\ Range(nodes) \subseteq Range(more)

LEMMA CoversMore ==
    ASSUME NEW t, NEW s, NEW u, Grows(s, u, t), NEW c, NEW ds, Covers(s, c, ds)
    PROVE  Covers(u, c, ds)
  BY HasMore DEF Covers, Grows

LEMMA MethodsAre ==
    ASSUME NEW t, IsText(t), \A d \in DefsOf(t) : IsFull(d), NEW base \in Classes(t),
           NEW c \in STRING, NEW nodes \in Seq(NodesIn(t))
    PROVE  /\ Grows(nodes, WithMethods(nodes, base, c, t), t)
           /\ Covers(WithMethods(nodes, base, c, t), c, base.body)
<1>1. PICK body : body = base.body
  OBVIOUS
<1>2. IsList(body) /\ \A d \in Range(body) : d \in DefsOf(t) /\ IsDef(d)
  BY <1>1, TextDefs
<1>3. PICK n \in Nat : /\ DOMAIN body = 1 .. n /\ \A i \in 1 .. n : body[i] \in Range(body)
                       /\ \A d \in Range(body) : \E i \in 1 .. n : d = body[i]
  BY <1>2, ListProperties
<1> DEFINE Of(i) == IF /\ body[i].within = <<>> /\ body[i].name \in TestNames
                       /\ body[i].name \notin Existing(nodes, c)
                    THEN NodesOf(body[i], c, t) ELSE <<>>
           all == [i \in DOMAIN body |-> Of(i)]
<1>4. WithMethods(nodes, base, c, t) = nodes \o FlattenSeq(all)
  BY <1>1 DEF WithMethods
<1>5. ASSUME NEW i \in 1 .. n  PROVE Of(i) \in Seq(NodesIn(t))
  <2>1. NodesOf(body[i], c, t) \in Seq(NodesIn(t)) /\ <<>> \in Seq(NodesIn(t))
    BY <1>2, <1>3, NodesAre
  <2>2. QED  BY <2>1
<1>6. ASSUME NEW i \in 1 .. n, IsTest(body[i]), body[i].name \notin Existing(nodes, c)
      PROVE  Has(Of(i), c, body[i].name)
  <2>1. Of(i) = NodesOf(body[i], c, t)
    BY <1>6 DEF IsTest
  <2>2. Has(NodesOf(body[i], c, t), c, body[i].name)
    BY <1>2, <1>3, <1>6, NodesAre
  <2> HIDE DEF Of
  <2>3. QED  BY <2>1, <2>2
<1> HIDE DEF Of
<1>7. all = [i \in 1 .. n |-> all[i]] /\ \A i \in 1 .. n : all[i] = Of(i)
  BY <1>3
<1> HIDE DEF all
<1>8. /\ FlattenSeq(all) \in Seq(NodesIn(t))
      /\ \A i \in 1 .. n : Range(all[i]) \subseteq Range(FlattenSeq(all))
  <2>1. all \in [1 .. n -> Seq(NodesIn(t))]
    BY <1>5, <1>7
  <2>2. FlattenSeq(all) \in Seq(NodesIn(t))
    BY <2>1, FunctionSeq, FlattenType
  <2>3. \A i \in 1 .. n : IsList(all[i])
    BY <2>1, InList
  <2>4. \A x : x \in Range(FlattenSeq(all)) <=> \E i \in 1 .. n : x \in Range(all[i])
    BY <1>7, <2>3, FlattenedLists
  <2>5. QED  BY <2>2, <2>4
<1>9. PICK more : more = WithMethods(nodes, base, c, t)
  OBVIOUS
<1>10. more \in Seq(NodesIn(t)) /\ Range(more) = Range(nodes) \cup Range(FlattenSeq(all))
  BY <1>4, <1>8, <1>9, TwoLists
<1>11. ASSUME NEW d \in Range(body), IsTest(d)  PROVE Has(more, c, d.name)
  <2>1. PICK i \in 1 .. n : d = body[i]
    BY <1>3
  <2>2. CASE d.name \in Existing(nodes, c)
    <3>1. Has(nodes, c, d.name)
      BY <2>2 DEF Existing, Has
    <3>2. QED  BY <1>10, <3>1, HasMore
  <2>3. CASE d.name \notin Existing(nodes, c)
    <3>1. Has(all[i], c, d.name)
      BY <1>6, <1>7, <1>11, <2>1, <2>3
    <3>2. Range(all[i]) \subseteq Range(more)
      BY <1>8, <1>10
    <3>3. QED  BY <3>1, <3>2, HasMore
  <2>4. QED  BY <2>2, <2>3
<1>12. QED  BY <1>1, <1>9, <1>10, <1>11 DEF Grows, Covers

(* A class gets the tests of all the classes of its line. *)
LEMMA InheritedAre ==
    ASSUME NEW t, IsText(t), \A d \in DefsOf(t) : IsFull(d), NEW c \in Classes(t),
           NEW nodes \in Seq(NodesIn(t)), Lineage(c, t) \in Seq(Classes(t))
    PROVE  /\ Grows(nodes, WithInherited(nodes, c, t), t)
           /\ \A a \in Range(Lineage(c, t)) : Covers(WithInherited(nodes, c, t), c.name, a.body)
<1>1. PICK line \in Seq(Classes(t)), n \in Nat : line = Lineage(c, t) /\ n = Len(line)
  OBVIOUS
<1>2. \A i \in 1 .. n : line[i] \in Classes(t)
  BY <1>1, ElementOfSeq
<1> DEFINE V == Seq(NodesIn(t))
           Next(x, i) == WithMethods(x, line[i], c.name, t)
           step == [p \in (1 .. n) \X V |-> Next(p[2], p[1])]
           Rec(f) == [i \in 0 .. n |-> IF i = 0 THEN nodes ELSE Next(f[i - 1], i)]
<1>3. ASSUME NEW i \in 1 .. n, NEW x \in V
      PROVE  Grows(x, Next(x, i), t) /\ Covers(Next(x, i), c.name, line[i].body)
  BY <1>2, TextDefs, MethodsAre
<1>4. \A i \in 1 .. n, x \in V : step[<<i, x>>] = Next(x, i)
  OBVIOUS
<1>5. step \in Steps(n, V)
  <2>1. \A i \in 1 .. n, x \in V : Next(x, i) \in V
    BY <1>3 DEF Grows
  <2> HIDE DEF Next, V
  <2>2. QED  BY <2>1 DEF Steps
<1>6. WithInherited(nodes, c, t) = (CHOOSE f : f = Rec(f))[n]
  BY <1>1 DEF WithInherited
<1> HIDE DEF step, Next, V
<1>7. nodes \in V
  BY DEF V
<1>8. PICK g \in [0 .. n -> V] : Iterated(g, n, nodes, step)
  BY <1>5, <1>7, Iterates
<1>9. g = Rec(g)
  <2>1. ASSUME NEW i \in 1 .. n  PROVE g[i] = Next(g[i - 1], i)
    <3>1. g[i] = step[<<i, g[i - 1]>>] /\ g[i - 1] \in V
      BY <1>8 DEF Iterated
    <3>2. QED  BY <1>4, <3>1
  <2>2. g[0] = nodes
    BY <1>8 DEF Iterated
  <2>3. \A i \in 0 .. n : g[i] = Rec(g)[i]
    BY <2>1, <2>2
  <2>4. g = [i \in 0 .. n |-> g[i]] /\ Rec(g) = [i \in 0 .. n |-> Rec(g)[i]]
    BY <1>8
  <2>5. QED  BY <2>3, <2>4
<1>10. PICK h : h = (CHOOSE f : f = Rec(f)) /\ h = Rec(h)
  <2> HIDE DEF Rec
  <2>1. QED  BY <1>9
<1>11. \A i \in 0 .. n : h[i] = IF i = 0 THEN nodes ELSE Next(h[i - 1], i)
  BY <1>10, Zenon
<1>12. h[0] = nodes
  BY <1>11
<1>13. ASSUME NEW i \in 0 .. n - 1  PROVE h[i + 1] = Next(h[i], i + 1)
  <2>1. i + 1 \in 0 .. n /\ i + 1 # 0 /\ (i + 1) - 1 = i
    BY <1>1
  <2>2. QED  BY <1>11, <2>1, Zenon
<1> DEFINE Good(k) == /\ h[k] \in V /\ Range(nodes) \subseteq Range(h[k])
                      /\ \A j \in 1 .. k : Covers(h[k], c.name, line[j].body)
           S == {k \in 0 .. n : Good(k)}
<1>14. 0 \in S
  BY <1>7, <1>12
<1>15. ASSUME NEW k \in 0 .. n - 1, k \in S  PROVE k + 1 \in S
  <2>1. k + 1 \in 1 .. n /\ k + 1 \in 0 .. n /\ \A j \in 1 .. k + 1 : j \in 1 .. k \/ j = k + 1
    BY <1>1
  <2>2. Good(k)
    BY <1>15
  <2>3. Grows(h[k], h[k + 1], t) /\ Covers(h[k + 1], c.name, line[k + 1].body)
    BY <1>3, <1>13, <2>1, <2>2
  <2>4. \A j \in 1 .. k : Covers(h[k + 1], c.name, line[j].body)
    BY <2>2, <2>3, CoversMore
  <2>5. h[k + 1] \in V /\ Range(nodes) \subseteq Range(h[k + 1])
    BY <2>2, <2>3 DEF Grows, V
  <2>6. Good(k + 1)
    BY <2>1, <2>3, <2>4, <2>5
  <2> HIDE DEF Good
  <2>7. QED  BY <2>1, <2>6
<1>16. 0 .. n \subseteq S
  <2> HIDE DEF S
  <2>1. QED  BY <1>14, <1>15, UpTo
<1>17. n \in 0 .. n /\ Good(n)
  BY <1>16
<1>18. \A a \in Range(line) : \E j \in 1 .. n : a = line[j]
  BY <1>1, InList, ListProperties
<1>19. QED  BY <1>1, <1>6, <1>10, <1>17, <1>18 DEF Grows, V

-----------------------------------------------------------------------------
(* What a class inherits from *)

LEMMA FindClassIs ==
    ASSUME NEW t, IsText(t), NEW name
    PROVE  /\ FindClass(name, t) = <<>> \/ \E b \in Classes(t) : FindClass(name, t) = <<b>> /\ b.name = name
           /\ \A b \in Classes(t) : b.name = name => FindClass(name, t) # <<>>
<1> DEFINE at == {i \in DOMAIN t.body : t.body[i].is = "class" /\ t.body[i].name = name}
<1>1. FindClass(name, t) = IF at = {} THEN <<>> ELSE <<t.body[Min(at)]>>
  BY DEF FindClass
<1>2. PICK n \in Nat : DOMAIN t.body = 1 .. n
  BY ListProperties DEF IsText
<1>3. ASSUME at # {}  PROVE Min(at) \in at
  <2>1. at \in SUBSET Nat
    BY <1>2
  <2> HIDE DEF at
  <2>2. PICK m \in at : \A i \in at : m <= i
    BY <1>3, <2>1, LeastNumber
  <2>3. QED  BY <2>2 DEF Min
<1>4. \A i \in at : t.body[i] \in Classes(t) /\ t.body[i].name = name
  BY DEF Classes, Range
<1>5. ASSUME NEW b \in Classes(t), b.name = name  PROVE at # {}
  BY <1>5 DEF Classes, Range
<1> HIDE DEF at
<1>6. ASSUME at # {}
      PROVE  \E b \in Classes(t) : FindClass(name, t) = <<b>> /\ b.name = name
  BY <1>1, <1>3, <1>4, <1>6
<1>7. ASSUME at = {}  PROVE FindClass(name, t) = <<>>
  BY <1>1, <1>7
<1>8. ASSUME at # {}  PROVE FindClass(name, t) # <<>>
  BY <1>1, <1>8
<1>9. QED  BY <1>5, <1>6, <1>7, <1>8

(* A base and what it inherits from, and nothing else. *)
LEMMA AboveIs ==
    ASSUME NEW t, IsText(t), NEW s \in Classes(t), NEW above \in [Classes(t) -> Seq(Classes(t))]
    PROVE  /\ Above(s, above, t) \in Seq(Classes(t))
           /\ \A x : x \in Range(Above(s, above, t)) <=>
                 \E i \in DOMAIN s.bases, b \in Classes(t) :
                     FindClass(s.bases[i], t) = <<b>> /\ (x = b \/ x \in Range(above[b]))
<1>1. PICK n \in Nat : DOMAIN s.bases = 1 .. n
  BY TextDefs, LenProperties
<1> DEFINE Found(i) == FindClass(s.bases[i], t)
           Part(i) == IF Found(i) = <<>> THEN <<>> ELSE Found(i) \o above[Found(i)[1]]
           parts == [i \in DOMAIN s.bases |-> Part(i)]
<1>2. Above(s, above, t) = FlattenSeq(parts)
  BY DEF Above
<1>3. \A i \in 1 .. n : Found(i) = <<>> \/ \E b \in Classes(t) : Found(i) = <<b>>
  BY FindClassIs
<1> HIDE DEF Found
<1>4. ASSUME NEW b \in Classes(t)
      PROVE  /\ <<b>> \o above[b] \in Seq(Classes(t))
             /\ Range(<<b>> \o above[b]) = {b} \cup Range(above[b])
  <2>1. <<b>> \in Seq(Classes(t)) /\ above[b] \in Seq(Classes(t))
    OBVIOUS
  <2>2. DOMAIN <<b>> = {1} /\ <<b>>[1] = b
    OBVIOUS
  <2>3. Range(<<b>>) = {b}
    BY <2>2, Zenon DEF Range
  <2>4. PICK u \in Seq(Classes(t)) : u = <<b>> /\ Range(u) = {b}
    BY <2>1, <2>3
  <2>5. PICK v \in Seq(Classes(t)) : v = above[b]
    BY <2>1
  <2>6. u \o v \in Seq(Classes(t)) /\ Range(u \o v) = Range(u) \cup Range(v)
    BY TwoLists
  <2>7. QED  BY <2>4, <2>5, <2>6, Zenon
<1>5. Range(<<>>) = {} /\ <<>> \in Seq(Classes(t))
  BY EmptyMap DEF Range
<1>6. ASSUME NEW i \in 1 .. n
      PROVE  /\ Part(i) \in Seq(Classes(t))
             /\ \A x : x \in Range(Part(i)) <=>
                   \E b \in Classes(t) : Found(i) = <<b>> /\ (x = b \/ x \in Range(above[b]))
  <2>1. CASE Found(i) = <<>>
    <3>1. \A b : Found(i) # <<b>>
      BY <2>1
    <3>2. Part(i) = <<>>
      BY <2>1
    <3> HIDE DEF Part
    <3>3. QED  BY <1>5, <3>1, <3>2
  <2>2. ASSUME NEW b \in Classes(t), Found(i) = <<b>>
        PROVE  /\ Part(i) \in Seq(Classes(t))
               /\ \A x : x \in Range(Part(i)) <=>
                     \E a \in Classes(t) : Found(i) = <<a>> /\ (x = a \/ x \in Range(above[a]))
    <3>1. <<b>> # <<>> /\ <<b>>[1] = b /\ \A a : <<a>> = <<b>> => a = b
      OBVIOUS
    <3>2. Part(i) = <<b>> \o above[b]
      BY <2>2, <3>1, Zenon
    <3> HIDE DEF Part
    <3>3. Part(i) \in Seq(Classes(t)) /\ Range(Part(i)) = {b} \cup Range(above[b])
      BY <1>4, <3>2
    <3>4. QED  BY <2>2, <3>1, <3>3
  <2> HIDE DEF Part
  <2>3. QED  BY <1>3, <2>1, <2>2
<1> HIDE DEF Part
<1>7. parts = [i \in 1 .. n |-> parts[i]] /\ \A i \in 1 .. n : parts[i] = Part(i)
  BY <1>1
<1> HIDE DEF parts
<1>8. parts \in [1 .. n -> Seq(Classes(t))]
  BY <1>6, <1>7
<1>9. FlattenSeq(parts) \in Seq(Classes(t))
  BY <1>8, FunctionSeq, FlattenType
<1>10. \A i \in 1 .. n : IsList(parts[i])
  BY <1>8, InList
<1>11. \A x : x \in Range(FlattenSeq(parts)) <=> \E i \in 1 .. n : x \in Range(parts[i])
  BY <1>7, <1>10, FlattenedLists
<1>12. ASSUME NEW x
       PROVE  x \in Range(FlattenSeq(parts)) <=>
                 \E i \in 1 .. n, b \in Classes(t) :
                     Found(i) = <<b>> /\ (x = b \/ x \in Range(above[b]))
  <2>1. \A i \in 1 .. n : x \in Range(parts[i]) <=>
            \E b \in Classes(t) : Found(i) = <<b>> /\ (x = b \/ x \in Range(above[b]))
    BY <1>6, <1>7
  <2>2. QED  BY <1>11, <2>1, Zenon
<1>13. QED  BY <1>1, <1>2, <1>9, <1>12 DEF Found

\* The walk up from all classes, by what it goes to at most.
Walks(w, n, t) ==
    /\ w \in [0 .. n -> [Classes(t) -> Seq(Classes(t))]]
    /\ \A i \in 0 .. n - 1 : \A s \in Classes(t) : w[i + 1][s] = Above(s, w[i], t)

LEMMA LineageWalks ==
    ASSUME NEW t, IsText(t)
    PROVE  \E w : Walks(w, Len(t.body), t) /\ \A c \in Classes(t) : Lineage(c, t) = w[Len(t.body)][c]
<1>1. PICK n \in Nat : n = Len(t.body)
  BY ListProperties DEF IsText
<1> DEFINE C == Classes(t)
           V == [C -> Seq(C)]
           base == [s \in C |-> <<>>]
           Up(x) == [s \in C |-> Above(s, x, t)]
           step == [p \in (1 .. n) \X V |-> Up(p[2])]
           Rec(f) == [i \in 0 .. n |-> [s \in C |-> IF i = 0 THEN <<>> ELSE Above(s, f[i - 1], t)]]
<1>2. \A c \in C : Lineage(c, t) = (CHOOSE f : f = Rec(f))[n][c]
  BY <1>1 DEF Lineage
<1>3. ASSUME NEW x \in V  PROVE Up(x) \in V
  <2>1. \A s \in C : Above(s, x, t) \in Seq(C)
    BY AboveIs
  <2> HIDE DEF C
  <2>2. QED  BY <2>1
<1>4. base \in V
  OBVIOUS
<1>5. ASSUME NEW f, NEW i \in 0 .. n
      PROVE  Rec(f)[i] = IF i = 0 THEN base ELSE Up(f[i - 1])
  OBVIOUS
<1>6. \A f : DOMAIN Rec(f) = 0 .. n /\ Rec(f) = [i \in 0 .. n |-> Rec(f)[i]]
  OBVIOUS
<1>7. \A i \in 1 .. n, x \in V : step[<<i, x>>] = Up(x)
  OBVIOUS
<1>8. step \in Steps(n, V)
  <2> HIDE DEF Up, V
  <2>1. QED  BY <1>3 DEF Steps
<1> HIDE DEF Rec, step, base
<1>9. PICK g \in [0 .. n -> V] : Iterated(g, n, base, step)
  <2> HIDE DEF V
  <2>1. QED  BY <1>4, <1>8, Iterates
<1>10. g = Rec(g)
  <2> HIDE DEF V
  <2>1. ASSUME NEW i \in 1 .. n  PROVE g[i] = Up(g[i - 1])
    <3>1. g[i] = step[<<i, g[i - 1]>>] /\ g[i - 1] \in V
      BY <1>9 DEF Iterated
    <3>2. QED  BY <1>7, <3>1
  <2> HIDE DEF Up
  <2>2. g[0] = base
    BY <1>9 DEF Iterated
  <2>3. \A i \in 0 .. n : g[i] = Rec(g)[i]
    BY <1>5, <2>1, <2>2
  <2>4. g = [i \in 0 .. n |-> g[i]]
    BY <1>9
  <2>5. QED  BY <1>6, <2>3, <2>4
<1>11. PICK h : h = (CHOOSE f : f = Rec(f)) /\ h = Rec(h)
  BY <1>10
<1> HIDE DEF V, Up
<1>12. DOMAIN h = 0 .. n /\ h = [i \in 0 .. n |-> h[i]]
  BY <1>6, <1>11, Zenon
<1>13. \A i \in 0 .. n : h[i] = IF i = 0 THEN base ELSE Up(h[i - 1])
  BY <1>5, <1>11, Zenon
<1>14. h[0] = base
  BY <1>13
<1>15. ASSUME NEW i \in 0 .. n - 1  PROVE h[i + 1] = Up(h[i])
  <2>1. i + 1 \in 0 .. n /\ i + 1 # 0 /\ (i + 1) - 1 = i
    BY <1>1
  <2>2. QED  BY <1>13, <2>1, Zenon
<1> DEFINE S == {i \in 0 .. n : h[i] \in V}
<1>16. 0 .. n \subseteq S
  <2>1. 0 \in S
    BY <1>4, <1>14
  <2>2. ASSUME NEW i \in 0 .. n - 1, i \in S  PROVE i + 1 \in S
    BY <1>3, <1>15, <2>2
  <2> HIDE DEF S
  <2>3. QED  BY <2>1, <2>2, UpTo
<1>17. h \in [0 .. n -> V]
  BY <1>12, <1>16
<1>18. ASSUME NEW i \in 0 .. n - 1, NEW s \in C  PROVE h[i + 1][s] = Above(s, h[i], t)
  BY <1>15 DEF Up
<1>19. Walks(h, n, t)
  BY <1>17, <1>18 DEF Walks, V
<1>20. QED  BY <1>1, <1>2, <1>11, <1>19

LEMMA FoundOnce ==
    ASSUME NEW t, IsText(t), Orderly(t), NEW b \in Classes(t)
    PROVE  FindClass(b.name, t) = <<b>>
<1>1. PICK a \in Classes(t) : FindClass(b.name, t) = <<a>> /\ a.name = b.name
  BY FindClassIs
<1>2. PICK i \in DOMAIN t.body : a = t.body[i] /\ t.body[i].is = "class"
  BY DEF Classes, Range
<1>3. PICK j \in DOMAIN t.body : b = t.body[j] /\ t.body[j].is = "class"
  BY DEF Classes, Range
<1>4. i = j
  BY <1>1, <1>2, <1>3 DEF Orderly
<1>5. QED  BY <1>1, <1>2, <1>3, <1>4

\* A class and what it has met of its line, with what all of that inherits from.
Line(s, above) == {s} \cup Range(above[s])
IsClosed(S, t) == \A s \in S, b \in Classes(t) : b.name \in Range(s.bases) => b \in S

(* The line of a class is all that it inherits from: its bases stand above *)
(* it, so that the walk has come to an end when it has gone as far up as   *)
(* the class stands down.                                                  *)
LEMMA LineageIs ==
    ASSUME NEW t, IsText(t), Orderly(t), NEW c \in Classes(t)
    PROVE  /\ Lineage(c, t) \in Seq(Classes(t))
           /\ Ancestry(c, t) \subseteq {c} \cup Range(Lineage(c, t))
<1>1. PICK n \in Nat : n = Len(t.body) /\ DOMAIN t.body = 1 .. n
  BY ListProperties DEF IsText
<1>2. PICK w : Walks(w, n, t) /\ Lineage(c, t) = w[n][c]
  BY <1>1, LineageWalks
<1>3. ASSUME NEW k \in 0 .. n  PROVE w[k] \in [Classes(t) -> Seq(Classes(t))]
  BY <1>2 DEF Walks
<1> DEFINE Good(k) == \A i \in 1 .. k : t.body[i].is = "class" => IsClosed(Line(t.body[i], w[k]), t)
           S == {k \in 0 .. n : Good(k)}
<1>4. 0 \in S
  OBVIOUS
<1>5. ASSUME NEW k \in 0 .. n - 1, k \in S  PROVE k + 1 \in S
  <2>1. k \in 0 .. n /\ k + 1 \in 0 .. n /\ Good(k)
    BY <1>1, <1>5
  <2>2. ASSUME NEW i \in 1 .. k + 1, t.body[i].is = "class"
        PROVE  IsClosed(Line(t.body[i], w[k + 1]), t)
    <3>1. i \in 1 .. n
      BY <1>1
    <3>2. PICK s \in Classes(t) : s = t.body[i]
      BY <1>1, <2>2, <3>1 DEF Classes, Range
    <3>3. w[k + 1][s] = Above(s, w[k], t)
      BY <1>2 DEF Walks
    <3>4. \A x : x \in Range(w[k + 1][s]) <=>
              \E m \in DOMAIN s.bases, b \in Classes(t) :
                  FindClass(s.bases[m], t) = <<b>> /\ x \in Line(b, w[k])
      <4>1. \A x : x \in Range(Above(s, w[k], t)) <=>
              \E m \in DOMAIN s.bases, b \in Classes(t) :
                  FindClass(s.bases[m], t) = <<b>> /\ (x = b \/ x \in Range(w[k][b]))
        BY <1>3, <2>1, AboveIs
      <4>2. \A x, b : x \in Line(b, w[k]) <=> (x = b \/ x \in Range(w[k][b]))
        BY DEF Line
      <4>3. QED  BY <3>3, <4>1, <4>2, Zenon
    <3>5. ASSUME NEW m \in DOMAIN s.bases, NEW a \in Classes(t), FindClass(s.bases[m], t) = <<a>>
          PROVE  IsClosed(Line(a, w[k]), t)
      <4>1. a.name = s.bases[m]
        BY <3>5, FindClassIs
      <4>2. PICK j \in 1 .. n : a = t.body[j] /\ t.body[j].is = "class"
        BY <1>1 DEF Classes, Range
      <4>3. t.body[j].name \in Range(t.body[i].bases)
        BY <3>2, <4>1, <4>2, Zenon DEF Range
      <4>4. j < i
        BY <1>1, <2>2, <3>1, <4>2, <4>3 DEF Orderly
      <4>5. j \in 1 .. k
        BY <4>4
      <4>6. QED  BY <2>1, <4>2, <4>5
    <3>6. ASSUME NEW q \in Line(s, w[k + 1]), NEW b \in Classes(t), b.name \in Range(q.bases)
          PROVE  b \in Line(s, w[k + 1])
      <4>1. q = s \/ q \in Range(w[k + 1][s])
        BY DEF Line
      <4>2. CASE q = s
        <5>1. PICK m \in DOMAIN s.bases : s.bases[m] = b.name
          BY <3>6, <4>2 DEF Range
        <5>2. FindClass(s.bases[m], t) = <<b>> /\ b \in Line(b, w[k])
          BY <5>1, FoundOnce DEF Line
        <5>3. b \in Range(w[k + 1][s])
          BY <3>4, <5>2
        <5>4. QED  BY <5>3 DEF Line
      <4>3. CASE q \in Range(w[k + 1][s])
        <5>1. PICK m \in DOMAIN s.bases, a \in Classes(t) :
                  FindClass(s.bases[m], t) = <<a>> /\ q \in Line(a, w[k])
          BY <3>4, <4>3
        <5>2. b \in Line(a, w[k])
          BY <3>5, <3>6, <5>1 DEF IsClosed
        <5>3. b \in Range(w[k + 1][s])
          BY <3>4, <5>1, <5>2
        <5>4. QED  BY <5>3 DEF Line
      <4>4. QED  BY <4>1, <4>2, <4>3
    <3>7. QED  BY <3>2, <3>6 DEF IsClosed
  <2>3. Good(k + 1)
    BY <2>2
  <2> HIDE DEF Good
  <2>4. QED  BY <2>1, <2>3
<1>6. 0 .. n \subseteq S
  <2> HIDE DEF S
  <2>1. QED  BY <1>4, <1>5, UpTo
<1>7. PICK i \in 1 .. n : c = t.body[i] /\ t.body[i].is = "class"
  BY <1>1 DEF Classes, Range
<1>8. IsClosed(Line(c, w[n]), t)
  <2>1. n \in 0 .. n /\ Good(n)
    BY <1>6
  <2>2. QED  BY <1>7, <2>1
<1>9. Lineage(c, t) \in Seq(Classes(t))
  <2>1. n \in 0 .. n
    OBVIOUS
  <2>2. QED  BY <1>2, <1>3, <2>1
<1>10. Line(c, w[n]) \in SUBSET Classes(t) /\ c \in Line(c, w[n])
  <2>1. Range(w[n][c]) \subseteq Classes(t)
    BY <1>2, <1>9, InList
  <2>2. QED  BY <2>1 DEF Line
<1>11. ASSUME NEW a \in Ancestry(c, t)  PROVE a \in Line(c, w[n])
  BY <1>8, <1>10 DEF Ancestry, IsClosed
<1>12. Line(c, w[n]) = {c} \cup Range(Lineage(c, t))
  BY <1>2 DEF Line
<1>13. QED  BY <1>9, <1>11, <1>12

-----------------------------------------------------------------------------
(* All the tests of a text *)

\* The tests of a statement are among the nodes.
IsDone(nodes, s, t) ==
    /\ IsTest(s) => Has(nodes, None, s.name)
    /\ s \in Classes(t) /\ s.name \in TitledNames =>
          \A a \in Ancestry(s, t) : Covers(nodes, s.name, a.body)

LEMMA DoneMore ==
    ASSUME NEW t, NEW s, NEW u, Grows(s, u, t), NEW x, IsDone(s, x, t)
    PROVE  IsDone(u, x, t)
  BY CoversMore, HasMore DEF IsDone, Grows

LEMMA StatementAre ==
    ASSUME NEW t, IsText(t), Orderly(t), \A d \in DefsOf(t) : IsFull(d),
           NEW s \in Range(t.body), NEW nodes \in Seq(NodesIn(t))
    PROVE  Grows(nodes, WithStatement(nodes, s, t), t) /\ IsDone(WithStatement(nodes, s, t), s, t)
<1>1. CASE s.is = "def"
  <2>1. s \in DefsOf(t)
    BY <1>1 DEF DefsOf
  <2>2. NodesOf(s, None, t) \in Seq(NodesIn(t)) /\ (IsTest(s) => Has(NodesOf(s, None, t), None, s.name))
    BY <2>1, NodesAre
  <2>3. PICK own \in Seq(NodesIn(t)) : own = NodesOf(s, None, t)
    BY <2>2
  <2>4. PICK more : more = WithStatement(nodes, s, t) /\ more = nodes \o own
    BY <1>1, <2>3 DEF WithStatement
  <2>5. more \in Seq(NodesIn(t)) /\ Range(more) = Range(nodes) \cup Range(own)
    BY <2>4, TwoLists
  <2>6. IsTest(s) => Has(more, None, s.name)
    BY <2>2, <2>3, <2>5, HasMore
  <2>7. s \notin Classes(t)
    BY <1>1 DEF Classes
  <2>8. Grows(nodes, more, t) /\ IsDone(more, s, t)
    BY <2>5, <2>6, <2>7 DEF Grows, IsDone
  <2>9. QED  BY <2>4, <2>8
<1>2. CASE s.is # "def" /\ s.name \in TitledNames
  <2>1. s \in Classes(t)
    BY <1>2 DEF IsText, IsDef, IsClass, Classes
  <2>2. PICK own \in Seq(NodesIn(t)) : own = BodyNodes(s.body, s.name, t) /\ Covers(own, s.name, s.body)
    BY <2>1, BodyHas
  <2>3. PICK both \in Seq(NodesIn(t)) : both = nodes \o own /\ Range(both) = Range(nodes) \cup Range(own)
    BY TwoLists
  <2>4. PICK more : more = WithInherited(both, s, t) /\ more = WithStatement(nodes, s, t)
    BY <1>2, <2>2, <2>3 DEF WithStatement
  <2>5. Lineage(s, t) \in Seq(Classes(t)) /\ Ancestry(s, t) \subseteq {s} \cup Range(Lineage(s, t))
    BY <2>1, LineageIs
  <2>6. Grows(both, more, t) /\ \A a \in Range(Lineage(s, t)) : Covers(more, s.name, a.body)
    BY <2>1, <2>4, <2>5, InheritedAre
  <2>7. Grows(nodes, more, t) /\ Grows(own, more, t)
    BY <2>3, <2>6 DEF Grows
  <2>8. Covers(more, s.name, s.body)
    BY <2>2, <2>7, CoversMore
  <2>9. \A a \in Ancestry(s, t) : Covers(more, s.name, a.body)
    BY <2>5, <2>6, <2>8
  <2>10. ~ IsTest(s)
    BY <1>2 DEF IsTest
  <2>11. QED  BY <2>4, <2>7, <2>9, <2>10 DEF IsDone
<1>3. CASE s.is # "def" /\ s.name \notin TitledNames
  <2>1. WithStatement(nodes, s, t) = nodes
    BY <1>3 DEF WithStatement
  <2>2. Grows(nodes, nodes, t) /\ IsDone(nodes, s, t)
    BY <1>3 DEF Grows, IsDone, IsTest
  <2>3. QED  BY <2>1, <2>2
<1>4. QED  BY <1>1, <1>2, <1>3

LEMMA ExtractAre ==
    ASSUME NEW t, t # None, IsText(t), Orderly(t), \A d \in DefsOf(t) : IsFull(d)
    PROVE  \A s \in Range(t.body) : IsDone(ExtractTests(t), s, t)
<1>1. PICK n \in Nat : /\ n = Len(t.body) /\ \A i \in 1 .. n : t.body[i] \in Range(t.body)
                       /\ \A s \in Range(t.body) : \E i \in 1 .. n : s = t.body[i]
  BY ListProperties DEF IsText
<1> DEFINE V == Seq(NodesIn(t))
           Next(x, i) == WithStatement(x, t.body[i], t)
           step == [p \in (1 .. n) \X V |-> Next(p[2], p[1])]
           Rec(f) == [i \in 0 .. n |-> IF i = 0 THEN <<>> ELSE Next(f[i - 1], i)]
<1>2. ASSUME NEW i \in 1 .. n, NEW x \in V
      PROVE  Grows(x, Next(x, i), t) /\ IsDone(Next(x, i), t.body[i], t)
  BY <1>1, StatementAre
<1>3. \A i \in 1 .. n, x \in V : step[<<i, x>>] = Next(x, i)
  OBVIOUS
<1>4. step \in Steps(n, V)
  <2>1. \A i \in 1 .. n, x \in V : Next(x, i) \in V
    BY <1>2 DEF Grows
  <2> HIDE DEF Next, V
  <2>2. QED  BY <2>1 DEF Steps
<1>5. ExtractTests(t) = (CHOOSE f : f = Rec(f))[n]
  BY <1>1 DEF ExtractTests
<1> HIDE DEF step, Next
<1>6. <<>> \in V
  OBVIOUS
<1> HIDE DEF V
<1>7. PICK g \in [0 .. n -> V] : Iterated(g, n, <<>>, step)
  BY <1>4, <1>6, Iterates
<1>8. g = Rec(g)
  <2>1. ASSUME NEW i \in 1 .. n  PROVE g[i] = Next(g[i - 1], i)
    <3>1. g[i] = step[<<i, g[i - 1]>>] /\ g[i - 1] \in V
      BY <1>7 DEF Iterated
    <3>2. QED  BY <1>3, <3>1
  <2>2. g[0] = <<>>
    BY <1>7 DEF Iterated
  <2>3. \A i \in 0 .. n : g[i] = Rec(g)[i]
    BY <2>1, <2>2
  <2>4. g = [i \in 0 .. n |-> g[i]] /\ Rec(g) = [i \in 0 .. n |-> Rec(g)[i]]
    BY <1>7
  <2>5. QED  BY <2>3, <2>4
<1>9. PICK h : h = (CHOOSE f : f = Rec(f)) /\ h = Rec(h)
  <2> HIDE DEF Rec
  <2>1. QED  BY <1>8
<1>10. \A i \in 0 .. n : h[i] = IF i = 0 THEN <<>> ELSE Next(h[i - 1], i)
  BY <1>9, Zenon
<1>11. h[0] = <<>>
  BY <1>10
<1>12. ASSUME NEW i \in 0 .. n - 1  PROVE h[i + 1] = Next(h[i], i + 1)
  <2>1. i + 1 \in 0 .. n /\ i + 1 # 0 /\ (i + 1) - 1 = i
    BY <1>1
  <2>2. QED  BY <1>10, <2>1, Zenon
<1> DEFINE Good(k) == h[k] \in V /\ \A j \in 1 .. k : IsDone(h[k], t.body[j], t)
           S == {k \in 0 .. n : Good(k)}
<1>13. 0 \in S
  BY <1>6, <1>11
<1>14. ASSUME NEW k \in 0 .. n - 1, k \in S  PROVE k + 1 \in S
  <2>1. k + 1 \in 1 .. n /\ k + 1 \in 0 .. n /\ \A j \in 1 .. k + 1 : j \in 1 .. k \/ j = k + 1
    BY <1>1
  <2>2. Good(k)
    BY <1>14
  <2>3. Grows(h[k], h[k + 1], t) /\ IsDone(h[k + 1], t.body[k + 1], t)
    BY <1>2, <1>12, <2>1, <2>2
  <2>4. \A j \in 1 .. k : IsDone(h[k + 1], t.body[j], t)
    BY <2>2, <2>3, DoneMore
  <2>5. h[k + 1] \in V
    BY <2>3 DEF Grows, V
  <2>6. Good(k + 1)
    BY <2>1, <2>3, <2>4, <2>5
  <2> HIDE DEF Good
  <2>7. QED  BY <2>1, <2>6
<1>15. 0 .. n \subseteq S
  <2> HIDE DEF S
  <2>1. QED  BY <1>13, <1>14, UpTo
<1>16. n \in 0 .. n /\ Good(n)
  BY <1>15
<1>17. QED  BY <1>1, <1>5, <1>9, <1>16

(* What Python takes for tests of a text has nodes. *)
LEMMA TestsFound ==
    ASSUME NEW f \in Files, NEW t \in Texts[f], t # None, Orderly(t), NEW p \in PythonTests(t)
    PROVE  Has(TestsOf(t), p[1], p[2].name)
<1>1. IsText(t)
  BY ExtractionAssumption DEF IsText
<1>2. \A d \in DefsOf(t) : IsFull(d)
  <2>1. ASSUME NEW d \in DefsOf(t)  PROVE IsFull(d)
    <3>1. d.is = "def"
      BY <1>1, TextDefs DEF IsDef
    <3>2. d \in Range(t.body) \cup UNION {Range(c.body) : c \in Classes(t)}
      BY DEF DefsOf
    <3>3. QED  BY <3>1, <3>2 DEF Orderly, IsFull
  <2>2. QED  BY <2>1
<1>3. TestsOf(t) = ExtractTests(t)
  BY TestsOfAssumption
<1>4. \A s \in Range(t.body) : IsDone(TestsOf(t), s, t)
  BY <1>1, <1>2, <1>3, ExtractAre
<1>5. ASSUME NEW d \in Range(t.body), d.is = "def", d.name \in TestNames, d.plain, p = <<None, d>>
      PROVE  Has(TestsOf(t), p[1], p[2].name)
  <2>1. d.within = <<>>
    BY <1>1, <1>5 DEF IsText, IsClass
  <2>2. IsTest(d)
    BY <1>5, <2>1 DEF IsTest
  <2>3. QED  BY <1>4, <1>5, <2>2 DEF IsDone
<1>6. ASSUME NEW c \in Classes(t), c.name \in TitledNames, NEW a \in Ancestry(c, t),
             NEW d \in Range(a.body), IsTest(d), p = <<c.name, d>>
      PROVE  Has(TestsOf(t), p[1], p[2].name)
  <2>1. c \in Range(t.body)
    BY DEF Classes
  <2>2. Covers(TestsOf(t), c.name, a.body)
    BY <1>4, <1>6, <2>1 DEF IsDone
  <2>3. QED  BY <1>6, <2>2 DEF Covers
<1>7. \/ \E d \in Range(t.body) : d.is = "def" /\ d.name \in TestNames /\ d.plain /\ p = <<None, d>>
      \/ \E c \in Classes(t) : c.name \in TitledNames /\ \E a \in Ancestry(c, t) :
            \E d \in Range(a.body) : IsTest(d) /\ p = <<c.name, d>>
  BY DEF PythonTests, IsTest
<1>8. QED  BY <1>5, <1>6, <1>7

(* A test has a variant if no list of parameters is empty. *)
LEMMA VariantsSome ==
    ASSUME NEW node, NEW ps, IsMap(ps), NEW order \in SetToSeqs(DOMAIN ps),
           \A n \in DOMAIN ps : ps[n] # <<>>
    PROVE  Variants(node, ps, order) # <<>>
<1> DEFINE w == Without(order, DOMAIN ps \ node.uses)
           lists == [i \in DOMAIN w |-> ps[w[i]]]
           combos == Product(lists)
           Id(c) == IF Len(w) = 1 THEN c[1]
                    ELSE Join([i \in DOMAIN c |-> ToString(i) \o "=" \o c[i]])
           vs == [i \in DOMAIN combos |-> WithId(node, Id(combos[i]))]
<1>1. Variants(node, ps, order) = IF w = <<>> THEN <<node>> ELSE vs
  BY DEF Variants, WithId
<1>2. order \in Seq(DOMAIN ps)
  BY WalkMeetsAll DEF IsMap
<1>3. w \in Seq(DOMAIN ps)
  BY <1>2, WithoutPlaces
<1> HIDE DEF w
<1>4. PICK k \in Nat : k = Len(w) /\ DOMAIN w = 1 .. k
  BY <1>3, LenProperties
<1>5. lists \in Seq(Seq(STRING)) /\ Len(lists) = k /\ \A i \in 1 .. k : lists[i] # <<>>
  <2>1. \A i \in 1 .. k : w[i] \in DOMAIN ps
    BY <1>3, <1>4, ElementOfSeq
  <2>2. lists \in [1 .. k -> Seq(STRING)] /\ \A i \in 1 .. k : lists[i] # <<>>
    BY <1>4, <2>1 DEF IsMap
  <2> HIDE DEF lists
  <2>3. QED  BY <2>2, FunctionSeq
<1> HIDE DEF lists
<1>6. combos \in Seq(Seq(STRING)) /\ combos # <<>>
  BY <1>5, ProductType, ProductSome
<1> HIDE DEF combos, Id
<1>7. PICK l \in Nat : DOMAIN combos = 1 .. l /\ l > 0
  BY <1>6, InList, ListProperties
<1>8. DOMAIN vs = 1 .. l
  BY <1>7
<1> HIDE DEF vs
<1>9. 1 \in DOMAIN vs
  BY <1>7, <1>8
<1>10. vs # <<>>
  BY <1>9, EmptyMap
<1>11. QED  BY <1>1, <1>10

LEMMA AllFoundHolds == CollectInv => AllFound
<1> SUFFICES ASSUME CollectInv, pc = "done", NoneEmpty, NEW f \in Files,
                    read[f] # None, Orderly(read[f]), NEW p \in PythonTests(read[f])
             PROVE  Has(result[f], p[1], p[2].name)
  BY DEF AllFound, Has
<1>1. read[f] \in Texts[f]
  BY DEF CollectInv, CollectTypeInv
<1>2. PICK nodes \in Seq(Nodes) : nodes = TestsOf(read[f])
  BY <1>1, FixturesType
<1>3. PICK n \in Range(nodes) : n.class = p[1] /\ n.name = p[2].name
  BY <1>1, <1>2, TestsFound DEF Has
<1>4. n \in Nodes /\ n \in ToSet(nodes)
  BY <1>3, InList
<1>5. PICK order \in SetToSeqs(DOMAIN params) : result[f] = Expanded(nodes, params, order)
  <2>1. found[f] = nodes
    BY <1>2 DEF CollectInv, ThreadInv, DoneInv
  <2>2. QED  BY <2>1 DEF CollectInv, DoneInv
<1>6. IsMap(params)
  BY MapIsMap
<1>7. \A x \in DOMAIN params : params[x] # <<>>
  BY DEF CollectInv, MapInv, NoneEmpty
<1>8. PICK vs : vs = Variants(n, params, order)
  OBVIOUS
<1>9. AreVariants(vs, n, params, n.uses \cap DOMAIN params)
  BY <1>4, <1>6, <1>8, VariantsAre
<1>10. vs # <<>>
  BY <1>6, <1>7, <1>8, VariantsSome
<1>11. PICK m \in ToSet(vs) : m.class = n.class /\ m.name = n.name
  <2>1. vs \in Seq(ToSet(vs))
    BY <1>9 DEF AreVariants
  <2>2. 1 \in DOMAIN vs
    BY <1>10, <2>1, EmptySeq, LenProperties
  <2>3. vs[1] \in ToSet(vs)
    BY <2>2, Zenon DEF ToSet
  <2>4. QED  BY <1>9, <2>3 DEF AreVariants
<1>12. m \in ToSet(result[f])
  BY <1>4, <1>5, <1>6, <1>8, <1>11, ExpandedHas
<1>13. m \in Range(result[f])
  BY <1>12, Zenon DEF ToSet, Range
<1>14. QED  BY <1>3, <1>11, <1>13 DEF Has

(***************************************************************************)
(* Whatever the files hold, a collection that ends has found every test of *)
(* every file it could read, in every class that inherits it, whichever    *)
(* files are broken or edited meanwhile and however the threads take turns *)
(* (collector.rs:1036-1116, 1643-1716): of a file that Python can import,  *)
(* if no list of parameters is empty.                                      *)
(***************************************************************************)
THEOREM AllFoundInvariance == CollectSpec => []AllFound
  BY CollectInvariance, AllFoundHolds, PTL

-----------------------------------------------------------------------------
(***************************************************************************)
(* The scheduler. The two histories of durations stay in step, and,        *)
(* whatever they hold, an estimate lies among the durations it is made of, *)
(* schedule loses no test and orders them, and the batches of              *)
(* split_balanced are an even partition of the request, for every number   *)
(* of tests and workers.                                                   *)
(***************************************************************************)

KeepsFew(h) == h \in [Tests -> Seq(Durations)] /\ \A t \in Tests : Len(h[t]) <= Keep

SchedTypeInv == KeepsFew(measured) /\ KeepsFew(history)

SchedInv == SchedTypeInv /\ LastAgrees

-----------------------------------------------------------------------------
(* The histories *)

LEMMA Updated ==
    ASSUME NEW s \in Seq(Durations), NEW d \in Durations
    PROVE  /\ UpdateDuration(s, d) \in Seq(Durations) /\ UpdateDuration(s, d) # <<>>
           /\ Len(UpdateDuration(s, d)) <= Keep /\ Last(UpdateDuration(s, d)) = d
<1>1. PICK a \in Seq(Durations), n \in Nat : a = Append(s, d) /\ n = Len(a) /\ n > 0 /\ a[n] = d
  <2>1. Append(s, d) \in Seq(Durations) /\ Len(Append(s, d)) = Len(s) + 1 /\ Append(s, d)[Len(s) + 1] = d
    BY AppendProperties
  <2>2. Len(s) \in Nat /\ Len(s) + 1 \in Nat /\ Len(s) + 1 > 0
    OBVIOUS
  <2>3. QED  BY <2>1, <2>2
<1>2. Keep \in Nat /\ Keep > 0
  BY SchedulerAssumption
<1>3. CASE n <= Keep
  <2>1. UpdateDuration(s, d) = a
    BY <1>1, <1>2, <1>3 DEF UpdateDuration, Recent
  <2>2. a # <<>>
    BY <1>1
  <2>3. QED  BY <1>1, <1>3, <2>1, <2>2 DEF Last
<1>4. CASE n > Keep
  <2>1. UpdateDuration(s, d) = SubSeq(a, n - Keep + 1, n)
    BY <1>1, <1>2, <1>4 DEF UpdateDuration, Recent
  <2>2. \A i \in n - Keep + 1 .. n : a[i] \in Durations
    BY <1>1, <1>2, <1>4
  <2>3. PICK u \in Seq(Durations) : u = SubSeq(a, n - Keep + 1, n) /\ Len(u) = Keep /\ u[Keep] = a[n]
    <3>1. n - Keep + 1 \in Int /\ n - Keep + 1 <= n /\ n - (n - Keep + 1) + 1 = Keep
      BY <1>2, <1>4
    <3>2. SubSeq(a, n - Keep + 1, n) \in Seq(Durations) /\ Len(SubSeq(a, n - Keep + 1, n)) = Keep
      BY <2>2, <3>1, SubSeqProperties
    <3>3. \A i \in 1 .. n - (n - Keep + 1) + 1 :
              SubSeq(a, n - Keep + 1, n)[i] = a[(n - Keep + 1) + i - 1]
      BY <2>2, <3>1, SubSeqProperties
    <3>4. Keep \in 1 .. n - (n - Keep + 1) + 1 /\ (n - Keep + 1) + Keep - 1 = n
      BY <1>2
    <3>5. QED  BY <3>2, <3>3, <3>4
  <2>4. u # <<>>
    <3>1. Len(<<>>) = 0 /\ Keep # 0
      BY <1>2
    <3>2. QED  BY <2>3, <3>1, Zenon
  <2>5. Last(u) = d
    BY <1>1, <2>3, Zenon DEF Last
  <2>6. UpdateDuration(s, d) = u /\ Len(u) <= Keep
    BY <1>2, <2>1, <2>3
  <2>7. QED  BY <2>3, <2>4, <2>5, <2>6, Zenon
<1>5. QED  BY <1>1, <1>2, <1>3, <1>4

\* A history to which durations of some tests are added.
LEMMA UpdatedHistory ==
    ASSUME NEW h, KeepsFew(h), NEW some \in SUBSET Tests, NEW d \in [some -> Durations],
           NEW g, g = [t \in Tests |-> IF t \in some THEN UpdateDuration(h[t], d[t]) ELSE h[t]]
    PROVE  /\ KeepsFew(g)
           /\ \A t \in some : g[t] # <<>> /\ Last(g[t]) = d[t]
           /\ \A t \in Tests \ some : g[t] = h[t]
<1>1. ASSUME NEW t \in Tests  PROVE /\ g[t] \in Seq(Durations) /\ Len(g[t]) <= Keep
                                    /\ t \in some => g[t] # <<>> /\ Last(g[t]) = d[t]
  <2>1. h[t] \in Seq(Durations) /\ Len(h[t]) <= Keep
    BY DEF KeepsFew
  <2>2. CASE t \in some
    <3>1. g[t] = UpdateDuration(h[t], d[t]) /\ d[t] \in Durations
      BY <2>2
    <3>2. QED  BY <2>1, <2>2, <3>1, Updated
  <2>3. CASE t \notin some
    BY <2>1, <2>3
  <2>4. QED  BY <2>2, <2>3
<1>2. g \in [Tests -> Seq(Durations)]
  BY <1>1
<1>3. QED  BY <1>1, <1>2 DEF KeepsFew

LEMMA LastType ==
    ASSUME NEW s \in Seq(Durations), s # <<>>
    PROVE  Last(s) \in Durations
<1>1. Len(s) \in 1 .. Len(s)
  BY EmptySeq
<1>2. QED  BY <1>1, ElementOfSeq DEF Last

LEMMA RunKeeps ==
    ASSUME SchedInv, NEW ran \in SUBSET Tests, NEW took \in [ran -> Durations], Run(took)
    PROVE  SchedInv'
<1>1. KeepsFew(measured) /\ KeepsFew(history)
  BY DEF SchedInv, SchedTypeInv
<1> DEFINE known == {t \in Tests : measured[t] # <<>>}
           last == [t \in known |-> Last(measured[t])]
           fed == [t \in Tests |-> IF t \in known THEN UpdateDuration(history[t], last[t]) ELSE history[t]]
<1>2. /\ measured' = [t \in Tests |-> IF t \in ran THEN UpdateDuration(measured[t], took[t]) ELSE measured[t]]
      /\ history' = [t \in Tests |-> IF t \in ran THEN UpdateDuration(fed[t], took[t]) ELSE fed[t]]
  <2>1. [t \in Tests |-> IF measured[t] = <<>> THEN history[t]
                         ELSE UpdateDuration(history[t], Last(measured[t]))] = fed
    OBVIOUS
  <2>2. DOMAIN took = ran
    OBVIOUS
  <2> HIDE DEF fed
  <2>3. QED  BY <2>1, <2>2 DEF Run
<1>3. last \in [known -> Durations]
  BY <1>1, LastType DEF KeepsFew
<1>4. /\ KeepsFew(fed)
      /\ \A t \in known : fed[t] # <<>> /\ Last(fed[t]) = last[t]
      /\ \A t \in Tests \ known : fed[t] = history[t]
  <2>1. known \in SUBSET Tests
    OBVIOUS
  <2> HIDE DEF known, last
  <2>2. QED  BY <1>1, <1>3, <2>1, UpdatedHistory
<1>5. \A t \in known : last[t] = Last(measured[t])
  OBVIOUS
<1>6. \A t \in Tests : t \in known <=> measured[t] # <<>>
  OBVIOUS
<1> HIDE DEF known, last, fed
<1>7. /\ KeepsFew(measured') /\ KeepsFew(history')
      /\ \A t \in ran : /\ measured'[t] # <<>> /\ Last(measured'[t]) = took[t]
                        /\ history'[t] # <<>> /\ Last(history'[t]) = took[t]
      /\ \A t \in Tests \ ran : measured'[t] = measured[t] /\ history'[t] = fed[t]
  <2>1. /\ KeepsFew(measured')
        /\ \A t \in ran : measured'[t] # <<>> /\ Last(measured'[t]) = took[t]
        /\ \A t \in Tests \ ran : measured'[t] = measured[t]
    BY <1>1, <1>2, UpdatedHistory
  <2>2. /\ KeepsFew(history')
        /\ \A t \in ran : history'[t] # <<>> /\ Last(history'[t]) = took[t]
        /\ \A t \in Tests \ ran : history'[t] = fed[t]
    BY <1>2, <1>4, UpdatedHistory
  <2>3. QED  BY <2>1, <2>2
<1>8. ASSUME NEW t \in Tests
      PROVE  /\ (history'[t] = <<>>) <=> (measured'[t] = <<>>)
             /\ measured'[t] # <<>> => Last(history'[t]) = Last(measured'[t])
  <2>1. CASE t \in ran
    BY <1>7, <2>1
  <2>2. CASE t \notin ran /\ t \in known
    BY <1>4, <1>5, <1>6, <1>7, <2>2
  <2>3. CASE t \notin ran /\ t \notin known
    BY <1>4, <1>6, <1>7, <2>3 DEF SchedInv, LastAgrees
  <2>4. QED  BY <2>1, <2>2, <2>3
<1>9. QED  BY <1>7, <1>8 DEF SchedInv, SchedTypeInv, LastAgrees

LEMMA SchedStep == SchedInv /\ [SchedNext]_schedVars => SchedInv'
<1> SUFFICES ASSUME SchedInv, [SchedNext]_schedVars  PROVE SchedInv'
  OBVIOUS
<1>1. CASE SchedNext
  BY <1>1, RunKeeps DEF SchedNext
<1>2. CASE UNCHANGED schedVars
  BY <1>2 DEF schedVars, SchedInv, SchedTypeInv, LastAgrees
<1>3. QED  BY <1>1, <1>2

LEMMA SchedStart == SchedInit => SchedInv
<1> SUFFICES ASSUME SchedInit  PROVE SchedInv
  OBVIOUS
<1>1. <<>> \in Seq(Durations) /\ Len(<<>>) = 0 /\ 0 <= Keep
  BY SchedulerAssumption
<1>2. QED  BY <1>1 DEF SchedInit, SchedInv, SchedTypeInv, KeepsFew, LastAgrees

(* The invariant of the histories. *)
THEOREM SchedInvariance == SchedSpec => []SchedInv
  BY SchedStart, SchedStep, PTL DEF SchedSpec

(* What the scheduler knows last of a test is what the context measured      *)
(* last, however often both were fed and cut to what they keep.              *)
THEOREM LastAgreesInvariance == SchedSpec => []LastAgrees
<1>1. SchedInv => LastAgrees
  BY DEF SchedInv
<1>2. QED  BY <1>1, SchedInvariance, PTL

-----------------------------------------------------------------------------
(* Estimates *)

Sums == [weighted : Nat, weight : Nat]

NoSum == [weighted |-> 0, weight |-> 0]

LEMMA WeighedType ==
    ASSUME NEW sum \in Sums, NEW d \in Nat
    PROVE  /\ Weighed(sum, d) \in Sums
           /\ Weighed(sum, d).weight = 2 * sum.weight + 1
           /\ Weighed(sum, d).weighted = sum.weighted + d * (sum.weight + 1)
  BY DEF Sums, Weighed

\* The sums of the first durations, one by one.
Summing(s, n, f) ==
    f[0] = NoSum /\ \A i \in 0 .. n - 1 : f[i + 1] = Weighed(f[i], s[i + 1])

LEMMA Summed ==
    ASSUME NEW t \in Tests, history[t] \in Seq(Nat)
    PROVE  \E f \in [0 .. Len(history[t]) -> Sums] :
              /\ Summing(history[t], Len(history[t]), f)
              /\ Estimate(t) = IF history[t] = <<>> THEN Default
                               ELSE f[Len(history[t])].weighted \div f[Len(history[t])].weight
<1>1. PICK s \in Seq(Nat) : s = history[t]
  OBVIOUS
<1>2. PICK n \in Nat : n = Len(s) /\ \A i \in 1 .. n : s[i] \in Nat
  OBVIOUS
<1> DEFINE step == [p \in (1 .. n) \X Sums |-> Weighed(p[2], s[p[1]])]
           Rec(f) == [i \in 0 .. n |-> IF i = 0 THEN NoSum ELSE Weighed(f[i - 1], s[i])]
<1>3. \A i \in 1 .. n, x \in Sums : step[<<i, x>>] = Weighed(x, s[i])
  OBVIOUS
<1>4. step \in Steps(n, Sums)
  <2>1. \A p \in (1 .. n) \X Sums : Weighed(p[2], s[p[1]]) \in Sums
    BY <1>2, WeighedType
  <2>2. QED  BY <2>1 DEF Steps
<1> HIDE DEF step
<1>5. PICK g \in [0 .. n -> Sums] : Iterated(g, n, NoSum, step)
  <2>1. NoSum \in Sums
    BY DEF NoSum, Sums
  <2>2. QED  BY <1>4, <2>1, Iterates
<1>6. g = Rec(g)
  <2>1. ASSUME NEW i \in 1 .. n  PROVE g[i] = Weighed(g[i - 1], s[i])
    <3>1. g[i] = step[<<i, g[i - 1]>>] /\ g[i - 1] \in Sums
      BY <1>5 DEF Iterated
    <3>2. QED  BY <1>3, <3>1
  <2>2. g[0] = NoSum
    BY <1>5 DEF Iterated
  <2>3. \A i \in 0 .. n : g[i] = Rec(g)[i]
    BY <2>1, <2>2
  <2>4. g = [i \in 0 .. n |-> g[i]] /\ Rec(g) = [i \in 0 .. n |-> Rec(g)[i]]
    BY <1>5
  <2>5. QED  BY <2>3, <2>4
<1>7. PICK h : h = (CHOOSE k : k = Rec(k)) /\ h = Rec(h)
  <2> HIDE DEF Rec
  <2>1. QED  BY <1>6
<1>8. h[0] = NoSum /\ \A i \in 1 .. n : h[i] = Weighed(h[i - 1], s[i])
  <2>1. \A i \in 0 .. n : h[i] = IF i = 0 THEN NoSum ELSE Weighed(h[i - 1], s[i])
    BY <1>7, Zenon
  <2>2. 0 \in 0 .. n /\ \A i \in 1 .. n : i \in 0 .. n /\ i # 0
    BY <1>2
  <2>3. QED  BY <2>1, <2>2, Zenon
<1>9. ASSUME NEW i \in 0 .. n - 1  PROVE h[i + 1] = Weighed(h[i], s[i + 1])
  <2>1. i + 1 \in 1 .. n /\ (i + 1) - 1 = i
    BY <1>2
  <2>2. QED  BY <1>8, <2>1, Zenon
<1>10. 0 .. n \subseteq {i \in 0 .. n : h[i] \in Sums}
  <2> DEFINE S == {i \in 0 .. n : h[i] \in Sums}
  <2>1. 0 \in S
    BY <1>2, <1>8 DEF NoSum, Sums
  <2>2. ASSUME NEW i \in 0 .. n - 1, i \in S  PROVE i + 1 \in S
    <3>1. h[i] \in Sums /\ s[i + 1] \in Nat /\ i + 1 \in 0 .. n
      BY <1>2, <2>2
    <3>2. h[i + 1] \in Sums
      BY <1>9, <3>1, WeighedType
    <3>3. QED  BY <3>1, <3>2
  <2> HIDE DEF S
  <2>3. 0 .. n \subseteq S
    BY <2>1, <2>2, UpTo
  <2>4. QED  BY <2>3 DEF S
<1>11. h \in [0 .. n -> Sums]
  <2>1. h = [i \in 0 .. n |-> IF i = 0 THEN NoSum ELSE Weighed(h[i - 1], s[i])]
    BY <1>7
  <2>2. DOMAIN h = 0 .. n /\ h = [i \in 0 .. n |-> h[i]]
    BY <2>1
  <2>3. QED  BY <1>10, <2>2
<1>12. Summing(s, n, h)
  BY <1>8, <1>9 DEF Summing
<1>13. Estimate(t) = IF s = <<>> THEN Default ELSE h[n].weighted \div h[n].weight
  BY <1>1, <1>2, <1>7 DEF Estimate, NoSum
<1>14. QED  BY <1>1, <1>2, <1>11, <1>12, <1>13, Zenon

(* A quotient of a weighted sum lies between the bounds of what is summed. *)
LEMMA QuotientBetween ==
    ASSUME NEW low \in Nat, NEW high \in Nat, NEW u \in Nat, NEW w \in Nat, w > 0,
           low * w <= u, u <= high * w
    PROVE  u \div w \in low .. high
<1>1. PICK q \in Int : q = u \div w /\ q * w <= u /\ u < q * w + w
  <2>1. u \div w \in Int /\ (u \div w) * w <= u /\ u < (u \div w) * w + w
    OBVIOUS
  <2>2. QED  BY <2>1
<1>2. q >= low
  <2>1. SUFFICES ASSUME q + 1 <= low  PROVE FALSE
    BY <1>1
  <2>2. (q + 1) * w <= low * w /\ (q + 1) * w = q * w + w
    BY <1>1, <2>1
  <2>3. QED  BY <1>1, <2>2
<1>3. q <= high
  <2>1. SUFFICES ASSUME high + 1 <= q  PROVE FALSE
    BY <1>1
  <2>2. (high + 1) * w <= q * w /\ (high + 1) * w = high * w + w
    BY <1>1, <2>1
  <2>3. QED  BY <1>1, <2>2
<1>4. QED  BY <1>1, <1>2, <1>3

LEMMA TimesMonotone ==
    ASSUME NEW a \in Nat, NEW b \in Nat, NEW c \in Nat, a <= b
    PROVE  a * c <= b * c
  OBVIOUS

LEMMA TimesType ==
    ASSUME NEW a \in Nat, NEW b \in Nat
    PROVE  a * b \in Nat
  OBVIOUS

(* An estimate lies among the durations it is made of (scheduler.rs:44-70). *)
LEMMA EstimateBetween ==
    ASSUME NEW t \in Tests, history[t] \in Seq(Nat), history[t] # <<>>,
           NEW low \in Nat, NEW high \in Nat,
           \A i \in 1 .. Len(history[t]) : history[t][i] \in low .. high
    PROVE  Estimate(t) \in low .. high
<1>1. PICK n \in Nat : n = Len(history[t]) /\ n > 0
  BY EmptySeq
<1>2. PICK f \in [0 .. n -> Sums] :
              Summing(history[t], n, f) /\ Estimate(t) = f[n].weighted \div f[n].weight
  BY <1>1, Summed
<1> DEFINE Good(sum) == /\ low * sum.weight <= sum.weighted /\ sum.weighted <= high * sum.weight
           S == {i \in 0 .. n : Good(f[i]) /\ (i = 0 \/ f[i].weight > 0)}
<1>3. 0 \in S
  BY <1>2 DEF Summing, NoSum
<1>4. ASSUME NEW i \in 0 .. n - 1, i \in S  PROVE i + 1 \in S
  <2>1. PICK d \in low .. high : d = history[t][i + 1]
    <3>1. i + 1 \in 1 .. Len(history[t])
      BY <1>1
    <3>2. history[t][i + 1] \in low .. high
      BY <3>1, Zenon
    <3>3. QED  BY <3>2, Zenon
  <2>2. f[i] \in Sums /\ f[i + 1] = Weighed(f[i], d)
    <3>1. f[i] \in Sums
      BY <1>2
    <3>2. f[i + 1] = Weighed(f[i], history[t][i + 1])
      BY <1>2 DEF Summing
    <3>3. QED  BY <2>1, <3>1, <3>2, Zenon
  <2>3. PICK u \in Nat : u = f[i].weighted
    BY <2>2 DEF Sums
  <2>4. PICK w \in Nat : w = f[i].weight
    BY <2>2 DEF Sums
  <2>5. d \in Nat
    OBVIOUS
  <2>6. f[i + 1].weight = 2 * w + 1 /\ f[i + 1].weighted = u + d * (w + 1)
    <3>1. /\ Weighed(f[i], d).weight = 2 * f[i].weight + 1
          /\ Weighed(f[i], d).weighted = f[i].weighted + d * (f[i].weight + 1)
      BY <2>2, <2>5, WeighedType, Zenon
    <3>2. QED  BY <2>2, <2>3, <2>4, <3>1, Zenon
  <2>7. low * w <= u /\ u <= high * w
    BY <1>4, <2>3, <2>4
  <2>8. Good(f[i + 1])
    <3>1. low * (w + 1) <= d * (w + 1)
      BY <2>5, TimesMonotone, SMTT(30)
    <3>2. d * (w + 1) <= high * (w + 1)
      <4>1. d <= high /\ w + 1 \in Nat
        BY <2>5
      <4>2. QED  BY <2>5, <4>1, TimesMonotone
    <3>3. PICK x \in Nat, y \in Nat, z \in Nat :
                 x = low * (w + 1) /\ y = d * (w + 1) /\ z = high * (w + 1)
      BY <2>5, TimesType
    <3>4. PICK p \in Nat, r \in Nat : p = low * w /\ r = high * w
      BY TimesType
    <3>5. low * (2 * w + 1) = p + x /\ high * (2 * w + 1) = r + z
      <4>1. low * (2 * w + 1) = low * w + low * (w + 1)
        OBVIOUS
      <4>2. high * (2 * w + 1) = high * w + high * (w + 1)
        OBVIOUS
      <4>3. QED  BY <3>3, <3>4, <4>1, <4>2
    <3>6. p + x <= u + y /\ u + y <= r + z
      BY <2>7, <3>1, <3>2, <3>3, <3>4
    <3>7. QED  BY <2>6, <3>3, <3>5, <3>6
  <2>9. f[i + 1].weight > 0 /\ i + 1 \in 0 .. n
    BY <2>6, SMTT(30)
  <2> HIDE DEF Good
  <2>10. QED  BY <2>8, <2>9
<1>5. n \in S
  <2> HIDE DEF S
  <2>1. 0 .. n \subseteq S
    BY <1>3, <1>4, UpTo
  <2>2. QED  BY <1>1, <2>1
<1>6. PICK u \in Nat, w \in Nat : u = f[n].weighted /\ w = f[n].weight
  <2>1. f[n] \in Sums
    BY <1>2
  <2>2. QED  BY <2>1 DEF Sums
<1>7. w > 0 /\ low * w <= u /\ u <= high * w
  BY <1>1, <1>5, <1>6
<1>8. u \div w \in low .. high
  BY <1>7, QuotientBetween
<1>9. QED  BY <1>2, <1>6, <1>8, Zenon

LEMMA SequenceBound ==
    ASSUME NEW s \in Seq(Nat)
    PROVE  \E m \in Nat : \A i \in 1 .. Len(s) : s[i] \in 0 .. m
<1>1. PICK n \in Nat : n = Len(s) /\ \A i \in 1 .. n : s[i] \in Nat
  OBVIOUS
<1> DEFINE Bounds(k, m) == \A i \in 1 .. k : s[i] <= m
           S == {k \in 0 .. n : \E m \in Nat : Bounds(k, m)}
<1>2. 0 \in S
  OBVIOUS
<1>3. ASSUME NEW k \in 0 .. n - 1, k \in S  PROVE k + 1 \in S
  <2>1. PICK m \in Nat : Bounds(k, m)
    BY <1>3
  <2>2. PICK d \in Nat : d = s[k + 1]
    BY <1>1
  <2>3. \A i \in 1 .. k + 1 : s[i] <= m + d
    BY <1>1, <2>1, <2>2, SMTT(30)
  <2>4. Bounds(k + 1, m + d) /\ m + d \in Nat
    BY <2>3
  <2> HIDE DEF Bounds
  <2>5. \E b \in Nat : Bounds(k + 1, b)
    BY <2>4
  <2>6. QED  BY <2>5
<1>4. 0 .. n \subseteq S
  <2> HIDE DEF S
  <2>1. QED  BY <1>2, <1>3, UpTo
<1>5. PICK m \in Nat : Bounds(n, m)
  <2>1. n \in 0 .. n
    OBVIOUS
  <2>2. n \in S
    BY <1>4, <2>1, Zenon
  <2>3. QED  BY <2>2, Zenon
<1>6. QED  BY <1>1, <1>5

LEMMA EstimateType ==
    ASSUME NEW t \in Tests, history[t] \in Seq(Nat)
    PROVE  Estimate(t) \in Nat
<1>1. CASE history[t] = <<>>
  BY <1>1, Summed, SchedulerAssumption
<1>2. CASE history[t] # <<>>
  <2>1. PICK m \in Nat : \A i \in 1 .. Len(history[t]) : history[t][i] \in 0 .. m
    BY SequenceBound
  <2>2. Estimate(t) \in 0 .. m
    BY <1>2, <2>1, EstimateBetween
  <2>3. QED  BY <2>2
<1>3. QED  BY <1>1, <1>2

LEMMA NumberSeq ==
    ASSUME NEW s \in Seq(Durations)
    PROVE  s \in Seq(Nat)
<1>1. PICK n \in Nat : n = Len(s) /\ s \in [1 .. n -> Durations]
  OBVIOUS
<1>2. s \in [1 .. n -> Nat]
  <2>1. Durations \subseteq Nat
    BY SchedulerAssumption
  <2>2. QED  BY <1>1, <2>1
<1>3. QED  BY <1>2, FunctionSeq

LEMMA EstimatesType == SchedTypeInv => \A t \in Tests : Estimate(t) \in Nat
<1> SUFFICES ASSUME SchedTypeInv, NEW t \in Tests  PROVE Estimate(t) \in Nat
  OBVIOUS
<1>1. history[t] \in Seq(Durations)
  BY DEF SchedTypeInv, KeepsFew
<1>2. history[t] \in Seq(Nat)
  BY <1>1, NumberSeq
<1>3. QED  BY <1>2, EstimateType

\* What an estimate promises: the default of what never ran, otherwise a value
\* among the durations that are kept.
EstimateIsFair ==
    \A t \in Tests :
        IF history[t] = <<>> THEN Estimate(t) = Default
        ELSE \A low, high \in Nat :
                (\A i \in DOMAIN history[t] : history[t][i] \in low .. high)
                    => Estimate(t) \in low .. high

(* Whatever was measured, a test is estimated within the shortest and the    *)
(* longest of its last durations: the weights of the moving average add up,  *)
(* and the cast that drops the fraction cannot leave the range.              *)
THEOREM EstimateIsFairInvariance == SchedSpec => []EstimateIsFair
<1>1. ASSUME SchedInv, NEW t \in Tests
      PROVE  IF history[t] = <<>> THEN Estimate(t) = Default
             ELSE \A low, high \in Nat :
                     (\A i \in DOMAIN history[t] : history[t][i] \in low .. high)
                         => Estimate(t) \in low .. high
  <2>1. history[t] \in Seq(Nat)
    <3>1. history[t] \in Seq(Durations)
      BY <1>1 DEF SchedInv, SchedTypeInv, KeepsFew
    <3>2. QED  BY <3>1, NumberSeq
  <2>2. CASE history[t] = <<>>
    BY <2>1, <2>2, Summed
  <2>3. ASSUME history[t] # <<>>, NEW low \in Nat, NEW high \in Nat,
               \A i \in DOMAIN history[t] : history[t][i] \in low .. high
        PROVE  Estimate(t) \in low .. high
    <3>1. DOMAIN history[t] = 1 .. Len(history[t])
      BY <2>1, LenProperties
    <3>2. \A i \in 1 .. Len(history[t]) : history[t][i] \in low .. high
      BY <2>3, <3>1
    <3>3. QED  BY <2>1, <2>3, <3>2, EstimateBetween
  <2>4. QED  BY <2>2, <2>3
<1>2. SchedInv => EstimateIsFair
  BY <1>1 DEF EstimateIsFair
<1>3. QED  BY <1>2, SchedInvariance, PTL

-----------------------------------------------------------------------------
(* Sorting *)

\* The order of a stable sort: of two elements the one that goes first.
Precedes(s, key, i, j) == key[s[i]] > key[s[j]] \/ (key[s[i]] = key[s[j]] /\ i < j)

LEMMA PrecedesOrder ==
    ASSUME NEW T, NEW s \in Seq(T), NEW key \in [T -> Int],
           NEW i \in 1 .. Len(s), NEW j \in 1 .. Len(s)
    PROVE  /\ ~ Precedes(s, key, i, i)
           /\ i # j => Precedes(s, key, i, j) \/ Precedes(s, key, j, i)
           /\ \A k \in 1 .. Len(s) :
                 Precedes(s, key, k, i) /\ Precedes(s, key, i, j) => Precedes(s, key, k, j)
<1>1. \A k \in 1 .. Len(s) : s[k] \in T /\ key[s[k]] \in Int
  BY ElementOfSeq
<1>2. QED  BY <1>1 DEF Precedes

LEMMA RankOrder ==
    ASSUME NEW T, NEW s \in Seq(T), NEW key \in [T -> Int],
           NEW i \in 1 .. Len(s), NEW j \in 1 .. Len(s), Precedes(s, key, i, j)
    PROVE  /\ Cardinality(Before(s, key, i)) \in Nat
           /\ Cardinality(Before(s, key, j)) \in Nat
           /\ Cardinality(Before(s, key, i)) < Cardinality(Before(s, key, j))
<1>1. PICK n \in Nat : n = Len(s) /\ DOMAIN s = 1 .. n
  BY LenProperties
<1>2. \A k \in 1 .. n : Before(s, key, k) = {m \in 1 .. n : Precedes(s, key, m, k)}
  BY <1>1 DEF Before, Precedes
<1>3. IsFiniteSet(1 .. n)
  BY FS_Interval
<1>4. IsFiniteSet(Before(s, key, j)) /\ Cardinality(Before(s, key, j)) \in Nat
  <2>1. Before(s, key, j) \in SUBSET (1 .. n)
    BY <1>1, <1>2
  <2>2. QED  BY <1>3, <2>1, FS_Subset, FS_CardinalityType
<1> DEFINE rest == Before(s, key, j) \ {i}
<1>5. i \in Before(s, key, j)
  BY <1>1, <1>2
<1>6. IsFiniteSet(rest) /\ Cardinality(rest) = Cardinality(Before(s, key, j)) - 1
  BY <1>4, <1>5, FS_RemoveElement
<1>7. Before(s, key, i) \in SUBSET rest
  <2>1. ASSUME NEW k \in Before(s, key, i)  PROVE k \in rest
    <3>1. k \in 1 .. n /\ Precedes(s, key, k, i)
      BY <1>1, <1>2, <2>1
    <3>2. k # i /\ Precedes(s, key, k, j)
      BY <1>1, <3>1, PrecedesOrder
    <3>3. QED  BY <1>1, <1>2, <3>1, <3>2
  <2>2. QED  BY <2>1
<1> HIDE DEF rest
<1>8. IsFiniteSet(Before(s, key, i)) /\ Cardinality(Before(s, key, i)) <= Cardinality(rest)
  BY <1>6, <1>7, FS_Subset
<1>9. Cardinality(Before(s, key, i)) \in Nat
  BY <1>8, FS_CardinalityType
<1>10. QED  BY <1>4, <1>6, <1>8, <1>9

LEMMA Ranks ==
    ASSUME NEW T, NEW s \in Seq(T), NEW key \in [T -> Int], Len(s) > 0
    PROVE  LET rank == [i \in 1 .. Len(s) |-> Cardinality(Before(s, key, i))]
           IN  /\ rank \in [1 .. Len(s) -> 0 .. Len(s) - 1]
               /\ \A i, j \in 1 .. Len(s) : rank[i] = rank[j] => i = j
               /\ \A k \in 0 .. Len(s) - 1 : \E i \in 1 .. Len(s) : rank[i] = k
<1>1. PICK n \in Nat : n = Len(s) /\ DOMAIN s = 1 .. n /\ n > 0
  BY LenProperties
<1> DEFINE rank == [i \in 1 .. n |-> Cardinality(Before(s, key, i))]
<1>2. ASSUME NEW i \in 1 .. n  PROVE Cardinality(Before(s, key, i)) \in 0 .. n - 1
  <2>1. IsFiniteSet(1 .. n) /\ Cardinality(1 .. n) = n
    BY UpToN
  <2>2. IsFiniteSet((1 .. n) \ {i}) /\ Cardinality((1 .. n) \ {i}) = n - 1
    BY <2>1, FS_RemoveElement
  <2>3. Before(s, key, i) \in SUBSET ((1 .. n) \ {i})
    <3>1. ~ Precedes(s, key, i, i)
      BY <1>1, PrecedesOrder
    <3>2. Before(s, key, i) = {m \in 1 .. n : Precedes(s, key, m, i)}
      BY <1>1 DEF Before, Precedes
    <3>3. QED  BY <3>1, <3>2
  <2>4. /\ IsFiniteSet(Before(s, key, i))
        /\ Cardinality(Before(s, key, i)) <= Cardinality((1 .. n) \ {i})
    BY <2>2, <2>3, FS_Subset
  <2>5. Cardinality(Before(s, key, i)) \in Nat
    BY <2>4, FS_CardinalityType
  <2>6. QED  BY <1>1, <2>2, <2>4, <2>5
<1>3. ASSUME NEW i \in 1 .. n, NEW j \in 1 .. n, i # j  PROVE rank[i] # rank[j]
  <2>1. Precedes(s, key, i, j) \/ Precedes(s, key, j, i)
    BY <1>1, <1>3, PrecedesOrder
  <2>2. CASE Precedes(s, key, i, j)
    <3>1. Cardinality(Before(s, key, i)) < Cardinality(Before(s, key, j))
      BY <1>1, <2>2, RankOrder
    <3>2. QED  BY <1>2, <3>1
  <2>3. CASE Precedes(s, key, j, i)
    <3>1. Cardinality(Before(s, key, j)) < Cardinality(Before(s, key, i))
      BY <1>1, <2>3, RankOrder
    <3>2. QED  BY <1>2, <3>1
  <2>4. QED  BY <2>1, <2>2, <2>3
<1>4. rank \in [1 .. n -> 0 .. n - 1]
  BY <1>2
<1> HIDE DEF rank
<1>5. rank \in Surjection(1 .. n, 0 .. n - 1)
  <2>1. rank \in Injection(1 .. n, 0 .. n - 1)
    BY <1>3, <1>4 DEF Injection, IsInjective
  <2>2. IsFiniteSet(0 .. n - 1) /\ Cardinality(1 .. n) = n /\ Cardinality(0 .. n - 1) = n
    <3>1. Cardinality(1 .. n) = n
      BY UpToN
    <3>2. 0 \in Int /\ n - 1 \in Int /\ ~(0 > n - 1) /\ n - 1 - 0 + 1 = n
      BY <1>1
    <3>3. QED  BY <3>1, <3>2, FS_Interval
  <2>3. QED  BY <2>1, <2>2, FS_Injection
<1>6. \A k \in 0 .. n - 1 : \E i \in 1 .. n : rank[i] = k
  BY <1>5 DEF Surjection
<1>7. QED  BY <1>1, <1>3, <1>4, <1>6 DEF rank

(* A stable sort is a permutation that respects the order.                   *)
LEMMA Sorts ==
    ASSUME NEW T, NEW s \in Seq(T), NEW key \in [T -> Int]
    PROVE  /\ Descending(s, key) \in Seq(T) /\ Len(Descending(s, key)) = Len(s)
           /\ \E pi : /\ Permutes(pi, Len(s))
                      /\ \A i \in 1 .. Len(s) : Descending(s, key)[i] = s[pi[i]]
                      /\ \A i, j \in 1 .. Len(s) : i < j => Precedes(s, key, pi[i], pi[j])
<1>1. PICK n \in Nat : n = Len(s) /\ DOMAIN s = 1 .. n
  BY LenProperties
<1> DEFINE rank == [i \in 1 .. n |-> Cardinality(Before(s, key, i))]
           pi == [k \in 1 .. n |-> CHOOSE i \in 1 .. n : Cardinality(Before(s, key, i)) = k - 1]
<1>2. /\ rank \in [1 .. n -> 0 .. n - 1]
      /\ \A i, j \in 1 .. n : rank[i] = rank[j] => i = j
      /\ \A k \in 0 .. n - 1 : \E i \in 1 .. n : rank[i] = k
  <2>1. CASE n = 0
    <3>1. 1 .. n = {} /\ 0 .. n - 1 = {}
      BY <2>1
    <3>2. QED  BY <3>1
  <2>2. CASE n > 0
    BY <1>1, <2>2, Ranks
  <2>3. QED  BY <2>1, <2>2
<1>3. ASSUME NEW k \in 1 .. n  PROVE pi[k] \in 1 .. n /\ rank[pi[k]] = k - 1
  <2>1. k - 1 \in 0 .. n - 1
    OBVIOUS
  <2>2. PICK i \in 1 .. n : rank[i] = k - 1
    BY <1>2, <2>1
  <2>3. Cardinality(Before(s, key, i)) = k - 1
    BY <2>2
  <2>4. pi[k] \in 1 .. n /\ Cardinality(Before(s, key, pi[k])) = k - 1
    BY <2>3
  <2>5. QED  BY <2>4
<1>4. Descending(s, key) = [k \in 1 .. n |-> s[pi[k]]]
  BY <1>1 DEF Descending
<1> HIDE DEF pi
<1>5. Permutes(pi, n)
  <2>1. pi \in [1 .. n -> 1 .. n]
    BY <1>3 DEF pi
  <2>2. ASSUME NEW i \in 1 .. n, NEW j \in 1 .. n, pi[i] = pi[j]  PROVE i = j
    <3>1. i - 1 = j - 1
      BY <1>3, <2>2, Zenon
    <3>2. QED  BY <3>1
  <2>3. ASSUME NEW k \in 1 .. n  PROVE \E i \in 1 .. n : pi[i] = k
    <3>1. PICK r \in 0 .. n - 1 : r = rank[k]
      BY <1>2
    <3>2. r + 1 \in 1 .. n /\ (r + 1) - 1 = r
      OBVIOUS
    <3>3. pi[r + 1] \in 1 .. n /\ rank[pi[r + 1]] = rank[k]
      BY <1>3, <3>1, <3>2, Zenon
    <3>4. QED  BY <1>2, <3>2, <3>3, Zenon
  <2>4. QED  BY <2>1, <2>2, <2>3 DEF Permutes
<1>6. ASSUME NEW i \in 1 .. n, NEW j \in 1 .. n, i < j  PROVE Precedes(s, key, pi[i], pi[j])
  <2>1. PICK a \in 1 .. n, b \in 1 .. n : a = pi[i] /\ b = pi[j]
    BY <1>3
  <2>2. rank[a] = i - 1 /\ rank[b] = j - 1
    BY <1>3, <2>1, Zenon
  <2>3. Cardinality(Before(s, key, a)) = i - 1 /\ Cardinality(Before(s, key, b)) = j - 1
    BY <2>2
  <2>4. a # b
    BY <1>6, <2>3
  <2>5. ~ Precedes(s, key, b, a)
    <3>1. SUFFICES ASSUME Precedes(s, key, b, a)  PROVE FALSE
      OBVIOUS
    <3>2. Cardinality(Before(s, key, b)) < Cardinality(Before(s, key, a))
      BY <1>1, <3>1, RankOrder
    <3>3. QED  BY <1>6, <2>3, <3>2
  <2>6. Precedes(s, key, a, b)
    BY <1>1, <2>4, <2>5, PrecedesOrder
  <2>7. QED  BY <2>1, <2>6
<1>7. Descending(s, key) \in [1 .. n -> T]
  <2>1. \A k \in 1 .. n : s[pi[k]] \in T
    BY <1>1, <1>3, ElementOfSeq
  <2>2. QED  BY <1>4, <2>1
<1>8. \A k \in 1 .. n : Descending(s, key)[k] = s[pi[k]]
  BY <1>4
<1>9. Descending(s, key) \in Seq(T) /\ Len(Descending(s, key)) = n
  BY <1>7, FunctionSeq
<1>10. QED  BY <1>1, <1>5, <1>6, <1>8, <1>9

(* So it loses nothing and adds nothing.                                     *)
LEMMA SortsAll ==
    ASSUME NEW T, NEW s \in Seq(T), NEW key \in [T -> Int]
    PROVE  ToSet(Descending(s, key)) = ToSet(s)
<1>1. PICK n \in Nat : n = Len(s) /\ DOMAIN s = 1 .. n
  BY LenProperties
<1>2. PICK d \in Seq(T) : d = Descending(s, key) /\ Len(d) = n
  BY <1>1, Sorts
<1>3. PICK pi : Permutes(pi, n) /\ \A i \in 1 .. n : d[i] = s[pi[i]]
  <2>1. PICK pi : /\ Permutes(pi, Len(s))
                  /\ \A i \in 1 .. Len(s) : Descending(s, key)[i] = s[pi[i]]
    BY Sorts
  <2>2. QED  BY <1>1, <1>2, <2>1
<1>4. DOMAIN d = 1 .. n
  BY <1>2, LenProperties
<1>5. ToSet(d) = {d[i] : i \in 1 .. n} /\ ToSet(s) = {s[i] : i \in 1 .. n}
  BY <1>1, <1>4 DEF ToSet
<1>6. \A i \in 1 .. n : pi[i] \in 1 .. n /\ \E k \in 1 .. n : pi[k] = i
  BY <1>3 DEF Permutes
<1>7. ASSUME NEW e  PROVE e \in ToSet(d) <=> e \in ToSet(s)
  <2>1. ASSUME NEW i \in 1 .. n, e = d[i]  PROVE \E k \in 1 .. n : e = s[k]
    BY <1>3, <1>6, <2>1, Zenon
  <2>2. ASSUME NEW k \in 1 .. n, e = s[k]  PROVE \E i \in 1 .. n : e = d[i]
    <3>1. PICK i \in 1 .. n : pi[i] = k
      BY <1>6
    <3>2. e = d[i]
      BY <1>3, <2>2, <3>1, Zenon
    <3>3. QED  BY <3>2
  <2>3. QED  BY <1>5, <2>1, <2>2, Zenon
<1>8. ToSet(d) = ToSet(s)
  BY <1>7
<1>9. QED  BY <1>2, <1>8

(* A failure counts as a Boost in a priority, so schedule drops no test,     *)
(* keeps every duplicate, and puts no test before a failure that is not at   *)
(* least a Boost longer: for every request, set of failures and history.     *)
THEOREM FailuresFirstInvariance == SchedSpec => []FailuresFirst
<1>1. ASSUME SchedInv, NEW r \in Requests, NEW failures \in SUBSET Tests
      PROVE  LET s == Schedule(r, failures)
             IN  /\ ToSet(s) = ToSet(r) /\ Len(s) = Len(r)
                 /\ \A i, j \in DOMAIN s : i < j =>
                       /\ s[j] \in failures /\ s[i] \notin failures
                             => Estimate(s[i]) >= Estimate(s[j]) + Boost
                       /\ (s[i] \in failures <=> s[j] \in failures)
                             => Estimate(s[i]) >= Estimate(s[j])
  <2>1. r \in Seq(Tests) /\ Boost \in Nat
    BY SchedulerAssumption
  <2>2. \A t \in Tests : Estimate(t) \in Nat
    BY <1>1, EstimatesType DEF SchedInv
  <2> DEFINE key == [t \in Tests |-> Priority(t, failures)]
             s == Schedule(r, failures)
  <2>3. key \in [Tests -> Int]
    BY <2>1, <2>2 DEF Priority
  <2>4. PICK n \in Nat : n = Len(r) /\ DOMAIN r = 1 .. n
    BY <2>1, LenProperties
  <2>5. s = Descending(r, key)
    BY DEF Schedule
  <2>6. \A t \in Tests : key[t] = Estimate(t) + IF t \in failures THEN Boost ELSE 0
    BY DEF Priority
  <2> HIDE DEF s, key
  <2>7. s \in Seq(Tests) /\ Len(s) = n
    BY <2>1, <2>3, <2>4, <2>5, Sorts
  <2>8. PICK pi : /\ Permutes(pi, n) /\ \A i \in 1 .. n : s[i] = r[pi[i]]
                  /\ \A i, j \in 1 .. n : i < j => Precedes(r, key, pi[i], pi[j])
    <3>1. \E pi : /\ Permutes(pi, Len(r))
                  /\ \A i \in 1 .. Len(r) : Descending(r, key)[i] = r[pi[i]]
                  /\ \A i, j \in 1 .. Len(r) : i < j => Precedes(r, key, pi[i], pi[j])
      BY <2>1, <2>3, Sorts, Zenon
    <3>2. n = Len(r)
      BY <2>4
    <3>3. QED  BY <2>5, <3>1, <3>2, Zenon
  <2>9. DOMAIN s = 1 .. n
    BY <2>7, LenProperties
  <2>10. ToSet(s) = ToSet(r)
    BY <2>1, <2>3, <2>5, SortsAll
  <2>11. ASSUME NEW i \in 1 .. n, NEW j \in 1 .. n, i < j
         PROVE  /\ s[j] \in failures /\ s[i] \notin failures
                      => Estimate(s[i]) >= Estimate(s[j]) + Boost
                /\ (s[i] \in failures <=> s[j] \in failures)
                      => Estimate(s[i]) >= Estimate(s[j])
    <3>1. s[i] \in Tests /\ s[j] \in Tests
      BY <2>7, ElementOfSeq
    <3>2. PICK x \in Nat, y \in Nat : x = Estimate(s[i]) /\ y = Estimate(s[j])
      BY <2>2, <3>1
    <3>3. key[s[i]] >= key[s[j]]
      <4>1. key[s[i]] > key[s[j]] \/ key[s[i]] = key[s[j]]
        BY <2>8, <2>11 DEF Precedes
      <4>2. key[s[i]] \in Int /\ key[s[j]] \in Int
        BY <2>3, <3>1
      <4>3. QED  BY <4>1, <4>2
    <3>4. /\ key[s[i]] = x + IF s[i] \in failures THEN Boost ELSE 0
          /\ key[s[j]] = y + IF s[j] \in failures THEN Boost ELSE 0
      BY <2>6, <3>1, <3>2
    <3>5. QED  BY <2>1, <3>2, <3>3, <3>4
  <2>12. QED  BY <2>4, <2>7, <2>9, <2>10, <2>11 DEF s
<1>2. SchedInv => FailuresFirst
  BY <1>1 DEF FailuresFirst
<1>3. QED  BY <1>2, SchedInvariance, PTL

-----------------------------------------------------------------------------
(* Batches *)

\* What split_balanced has assigned to w workers.
Splits(w) == [batches : [1 .. w -> Seq(Tests)], load : [1 .. w -> Nat]]

NoSplit(w) == [batches |-> [v \in 1 .. w |-> <<>>], load |-> [v \in 1 .. w |-> 0]]

(* There is always a first batch with the least to do.                       *)
LEMMA LightestIsOne ==
    ASSUME NEW w \in Nat, w > 0, NEW load \in [1 .. w -> Nat]
    PROVE  Lightest(load) \in 1 .. w /\ \A v \in 1 .. w : load[Lightest(load)] <= load[v]
<1> DEFINE loads == {load[v] : v \in 1 .. w}
<1>1. PICK m \in loads : \A x \in loads : m <= x
  <2>1. loads \in SUBSET Nat
    OBVIOUS
  <2>2. load[1] \in loads
    OBVIOUS
  <2> HIDE DEF loads
  <2>3. QED  BY <2>1, <2>2, LeastNumber
<1> DEFINE least == {v \in 1 .. w : load[v] = m}
<1>2. PICK l \in least : \A v \in least : l <= v
  <2>1. least \in SUBSET Nat /\ least # {}
    BY <1>1
  <2> HIDE DEF least
  <2>2. QED  BY <2>1, LeastNumber
<1>3. l \in 1 .. w /\ load[l] = m
  BY <1>2
<1>4. ASSUME NEW v \in 1 .. w  PROVE load[l] < load[v] \/ (load[l] = load[v] /\ l <= v)
  <2>1. load[v] \in Nat /\ m \in Nat /\ m <= load[v]
    BY <1>1
  <2>2. CASE load[v] = m
    BY <1>2, <1>3, <2>2
  <2>3. CASE load[v] # m
    BY <1>3, <2>1, <2>3
  <2>4. QED  BY <2>2, <2>3
<1>5. DOMAIN load = 1 .. w
  OBVIOUS
<1> HIDE DEF loads, least
<1>6. PICK c \in 1 .. w : /\ c = Lightest(load)
                          /\ \A v \in 1 .. w : load[c] < load[v] \/ (load[c] = load[v] /\ c <= v)
  BY <1>3, <1>4, <1>5 DEF Lightest
<1>7. \A v \in 1 .. w : load[c] <= load[v]
  BY <1>6
<1>8. QED  BY <1>6, <1>7

Longer(bs, l, t) == [bs EXCEPT ![l] = Append(@, t)]

OneLonger(bs, bs2, w, t) == \E l \in 1 .. w : bs2 = Longer(bs, l, t)

LEMMA AssignType ==
    ASSUME NEW w \in Nat, w > 0, NEW a \in Splits(w), NEW t \in Tests, Estimate(t) \in Nat
    PROVE  /\ Assign(a, t) \in Splits(w)
           /\ OneLonger(a.batches, Assign(a, t).batches, w, t)
<1>1. PICK bs \in [1 .. w -> Seq(Tests)] : bs = a.batches
  BY DEF Splits
<1>2. PICK load \in [1 .. w -> Nat] : load = a.load
  BY DEF Splits
<1>3. PICK l \in 1 .. w : l = Lightest(a.load)
  BY <1>2, LightestIsOne
<1> DEFINE bs2 == [bs EXCEPT ![l] = Append(@, t)]
           load2 == [load EXCEPT ![l] = @ + Estimate(t)]
<1>4. Assign(a, t) = [batches |-> bs2, load |-> load2]
  BY <1>1, <1>2, <1>3 DEF Assign
<1>5. bs2 \in [1 .. w -> Seq(Tests)]
  <2>1. bs[l] \in Seq(Tests)
    OBVIOUS
  <2>2. Append(bs[l], t) \in Seq(Tests)
    BY <2>1
  <2>3. QED  BY <2>2
<1>6. load2 \in [1 .. w -> Nat]
  <2>1. load[l] + Estimate(t) \in Nat
    OBVIOUS
  <2>2. QED  BY <2>1
<1>7. bs2 = Longer(a.batches, l, t)
  BY <1>1 DEF Longer
<1> HIDE DEF bs2, load2
<1>8. Assign(a, t) \in Splits(w) /\ Assign(a, t).batches = bs2
  BY <1>4, <1>5, <1>6 DEF Splits
<1>9. OneLonger(a.batches, Assign(a, t).batches, w, t)
  BY <1>7, <1>8 DEF OneLonger
<1>10. QED  BY <1>8, <1>9

\* The splits after the first tests, one by one.
Assigning(s, w, n, f) ==
    f[0] = NoSplit(w) /\ \A i \in 0 .. n - 1 : f[i + 1] = Assign(f[i], s[i + 1])

LEMMA AssignedSteps ==
    ASSUME NEW w \in Nat, w > 0, NEW s \in Seq(Tests), \A t \in Tests : Estimate(t) \in Nat
    PROVE  \E f \in [0 .. Len(s) -> Splits(w)] :
              Assigning(s, w, Len(s), f) /\ Assigned(s, w) = f[Len(s)]
<1>1. PICK n \in Nat : n = Len(s) /\ \A i \in 1 .. n : s[i] \in Tests
  OBVIOUS
<1> DEFINE step == [p \in (1 .. n) \X Splits(w) |-> Assign(p[2], s[p[1]])]
           Rec(f) == [i \in 0 .. n |-> IF i = 0 THEN NoSplit(w) ELSE Assign(f[i - 1], s[i])]
<1>2. \A i \in 1 .. n, x \in Splits(w) : step[<<i, x>>] = Assign(x, s[i])
  OBVIOUS
<1>3. step \in Steps(n, Splits(w))
  <2>1. \A p \in (1 .. n) \X Splits(w) : Assign(p[2], s[p[1]]) \in Splits(w)
    BY <1>1, AssignType
  <2>2. QED  BY <2>1 DEF Steps
<1> HIDE DEF step
<1>4. NoSplit(w) \in Splits(w)
  <2>1. [v \in 1 .. w |-> <<>>] \in [1 .. w -> Seq(Tests)]
    OBVIOUS
  <2>2. [v \in 1 .. w |-> 0] \in [1 .. w -> Nat]
    OBVIOUS
  <2>3. QED  BY <2>1, <2>2 DEF NoSplit, Splits
<1>5. PICK g \in [0 .. n -> Splits(w)] : Iterated(g, n, NoSplit(w), step)
  BY <1>3, <1>4, Iterates
<1>6. g = Rec(g)
  <2>1. ASSUME NEW i \in 1 .. n  PROVE g[i] = Assign(g[i - 1], s[i])
    <3>1. g[i] = step[<<i, g[i - 1]>>] /\ g[i - 1] \in Splits(w)
      BY <1>5 DEF Iterated
    <3>2. QED  BY <1>2, <3>1
  <2>2. g[0] = NoSplit(w)
    BY <1>5 DEF Iterated
  <2>3. \A i \in 0 .. n : g[i] = Rec(g)[i]
    BY <2>1, <2>2
  <2>4. g = [i \in 0 .. n |-> g[i]] /\ Rec(g) = [i \in 0 .. n |-> Rec(g)[i]]
    BY <1>5
  <2>5. QED  BY <2>3, <2>4
<1>7. PICK h : h = (CHOOSE k : k = Rec(k)) /\ h = Rec(h)
  <2> HIDE DEF Rec
  <2>1. QED  BY <1>6
<1>8. h[0] = NoSplit(w) /\ \A i \in 1 .. n : h[i] = Assign(h[i - 1], s[i])
  <2>1. \A i \in 0 .. n : h[i] = IF i = 0 THEN NoSplit(w) ELSE Assign(h[i - 1], s[i])
    BY <1>7, Zenon
  <2>2. 0 \in 0 .. n /\ \A i \in 1 .. n : i \in 0 .. n /\ i # 0
    BY <1>1
  <2>3. QED  BY <2>1, <2>2, Zenon
<1>9. ASSUME NEW i \in 0 .. n - 1  PROVE h[i + 1] = Assign(h[i], s[i + 1])
  <2>1. i + 1 \in 1 .. n /\ (i + 1) - 1 = i
    BY <1>1
  <2>2. QED  BY <1>8, <2>1, Zenon
<1> DEFINE S == {i \in 0 .. n : h[i] \in Splits(w)}
<1>10. 0 .. n \subseteq S
  <2>1. 0 \in S
    BY <1>1, <1>4, <1>8
  <2>2. ASSUME NEW i \in 0 .. n - 1, i \in S  PROVE i + 1 \in S
    <3>1. h[i] \in Splits(w) /\ s[i + 1] \in Tests /\ i + 1 \in 0 .. n
      BY <1>1, <2>2
    <3>2. h[i + 1] \in Splits(w)
      BY <1>9, <3>1, AssignType
    <3>3. QED  BY <3>1, <3>2
  <2> HIDE DEF S
  <2>3. QED  BY <2>1, <2>2, UpTo
<1>11. h \in [0 .. n -> Splits(w)]
  <2>1. h = [i \in 0 .. n |-> IF i = 0 THEN NoSplit(w) ELSE Assign(h[i - 1], s[i])]
    BY <1>7
  <2>2. DOMAIN h = 0 .. n /\ h = [i \in 0 .. n |-> h[i]]
    BY <2>1
  <2>3. QED  BY <1>10, <2>2
<1>12. Assigning(s, w, n, h)
  BY <1>8, <1>9 DEF Assigning
<1>13. Assigned(s, w) = h[n]
  BY <1>1, <1>7 DEF Assigned, NoSplit
<1>14. QED  BY <1>1, <1>11, <1>12, <1>13, Zenon

\* The places in w batches, and that p deals the elements of s out to them:
\* each to a place of its own, and to every place one.
PlacesIn(bs, w) == {q \in (1 .. w) \X (Nat \ {0}) : q[2] <= Len(bs[q[1]])}

Deals(p, bs, w, s, n) ==
    /\ p \in [1 .. n -> PlacesIn(bs, w)]
    /\ \A i, j \in 1 .. n : p[i] = p[j] => i = j
    /\ \A q \in PlacesIn(bs, w) : \E i \in 1 .. n : p[i] = q
    /\ \A i \in 1 .. n : bs[p[i][1]][p[i][2]] = s[i]

Dealt(bs, w, s, n) ==
    /\ \A b \in 1 .. w : Len(bs[b]) <= n
    /\ \E p : Deals(p, bs, w, s, n)

(* A test that is appended to one of the batches is dealt out too.           *)
LEMMA DealOne ==
    ASSUME NEW w \in Nat, NEW bs \in [1 .. w -> Seq(Tests)], NEW s \in Seq(Tests),
           NEW n \in 0 .. Len(s) - 1, Dealt(bs, w, s, n), NEW l \in 1 .. w
    PROVE  Dealt(Longer(bs, l, s[n + 1]), w, s, n + 1)
<1>1. PICK t \in Tests : t = s[n + 1]
  OBVIOUS
<1>2. PICK p : Deals(p, bs, w, s, n)
  BY DEF Dealt
<1>3. PICK c \in Nat : c = Len(bs[l])
  OBVIOUS
<1>4. PICK bs2 \in [1 .. w -> Seq(Tests)] :
              /\ bs2 = [bs EXCEPT ![l] = Append(@, t)]
              /\ bs2[l] = Append(bs[l], t) /\ \A b \in 1 .. w : b # l => bs2[b] = bs[b]
  <2> DEFINE e == [bs EXCEPT ![l] = Append(@, t)]
  <2>1. Append(bs[l], t) \in Seq(Tests)
    OBVIOUS
  <2>2. e \in [1 .. w -> Seq(Tests)]
    BY <2>1
  <2>3. e[l] = Append(bs[l], t) /\ \A b \in 1 .. w : b # l => e[b] = bs[b]
    OBVIOUS
  <2>4. e = [bs EXCEPT ![l] = Append(@, t)]
    OBVIOUS
  <2> HIDE DEF e
  <2>5. QED  BY <2>2, <2>3, <2>4
<1>5. /\ Len(bs2[l]) = c + 1 /\ bs2[l][c + 1] = t
      /\ \A i \in 1 .. c : bs2[l][i] = bs[l][i]
  BY <1>3, <1>4, AppendProperties
<1> DEFINE p2 == [i \in 1 .. n + 1 |-> IF i = n + 1 THEN <<l, c + 1>> ELSE p[i]]
<1>6. /\ p \in [1 .. n -> PlacesIn(bs, w)]
      /\ \A i, j \in 1 .. n : p[i] = p[j] => i = j
      /\ \A q \in PlacesIn(bs, w) : \E i \in 1 .. n : p[i] = q
      /\ \A i \in 1 .. n : bs[p[i][1]][p[i][2]] = s[i]
  BY <1>2 DEF Deals
<1>7. PlacesIn(bs2, w) = PlacesIn(bs, w) \cup {<<l, c + 1>>} /\ <<l, c + 1>> \notin PlacesIn(bs, w)
  <2>1. ASSUME NEW b \in 1 .. w, NEW i \in Nat \ {0}
        PROVE  i <= Len(bs2[b]) <=> (i <= Len(bs[b]) \/ (b = l /\ i = c + 1))
    <3>1. CASE b = l
      BY <1>3, <1>5, <3>1
    <3>2. CASE b # l
      BY <1>4, <3>2
    <3>3. QED  BY <3>1, <3>2
  <2>2. <<l, c + 1>> \in (1 .. w) \X (Nat \ {0}) /\ ~(c + 1 <= Len(bs[l]))
    BY <1>3
  <2>3. QED  BY <2>1, <2>2, SMTT(30) DEF PlacesIn
<1>8. p2[n + 1] = <<l, c + 1>> /\ \A i \in 1 .. n : p2[i] = p[i]
  OBVIOUS
<1>9. \A i \in 1 .. n + 1 : i \in 1 .. n \/ i = n + 1
  OBVIOUS
<1>10. p2 \in [1 .. n + 1 -> PlacesIn(bs2, w)]
  <2>1. \A i \in 1 .. n + 1 : p2[i] \in PlacesIn(bs2, w)
    BY <1>6, <1>7, <1>8, <1>9
  <2>2. QED  BY <2>1
<1> HIDE DEF p2
<1>11. ASSUME NEW i \in 1 .. n + 1, NEW j \in 1 .. n + 1, p2[i] = p2[j]  PROVE i = j
  <2> HIDE DEF PlacesIn
  <2>1. \A k \in 1 .. n : p2[k] \in PlacesIn(bs, w)
    BY <1>6, <1>8
  <2>2. p2[n + 1] \notin PlacesIn(bs, w)
    BY <1>7, <1>8, Zenon
  <2>3. CASE i \in 1 .. n /\ j \in 1 .. n
    BY <1>6, <1>8, <1>11, <2>3
  <2>4. CASE i = n + 1 /\ j \in 1 .. n
    BY <1>11, <2>1, <2>2, <2>4, Zenon
  <2>5. CASE j = n + 1 /\ i \in 1 .. n
    BY <1>11, <2>1, <2>2, <2>5, Zenon
  <2>6. QED  BY <1>9, <2>3, <2>4, <2>5
<1>12. ASSUME NEW q \in PlacesIn(bs2, w)  PROVE \E i \in 1 .. n + 1 : p2[i] = q
  <2>1. CASE q = <<l, c + 1>>
    BY <1>8, <2>1
  <2>2. CASE q \in PlacesIn(bs, w)
    <3>1. PICK i \in 1 .. n : p[i] = q
      BY <1>6, <2>2
    <3>2. i \in 1 .. n + 1 /\ p2[i] = q
      BY <1>8, <3>1
    <3>3. QED  BY <3>2, Zenon
  <2>3. QED  BY <1>7, <2>1, <2>2
<1>13. ASSUME NEW i \in 1 .. n + 1  PROVE bs2[p2[i][1]][p2[i][2]] = s[i]
  <2>1. CASE i = n + 1
    BY <1>1, <1>5, <1>8, <2>1
  <2>2. CASE i \in 1 .. n
    <3>1. p[i] \in PlacesIn(bs, w) /\ bs[p[i][1]][p[i][2]] = s[i] /\ p2[i] = p[i]
      BY <1>6, <1>8, <2>2
    <3>2. PICK b \in 1 .. w : b = p[i][1]
      BY <3>1 DEF PlacesIn
    <3>3. PICK k \in Nat \ {0} : k = p[i][2] /\ k <= Len(bs[b])
      BY <3>1, <3>2 DEF PlacesIn
    <3>4. bs2[b][k] = bs[b][k]
      <4>1. CASE b = l
        BY <1>3, <1>5, <3>3, <4>1, SMTT(30)
      <4>2. CASE b # l
        BY <1>4, <4>2
      <4>3. QED  BY <4>1, <4>2
    <3>5. QED  BY <3>1, <3>2, <3>3, <3>4, Zenon
  <2>3. QED  BY <1>9, <2>1, <2>2
<1>14. ASSUME NEW b \in 1 .. w  PROVE Len(bs2[b]) <= n + 1
  <2>1. Len(bs[b]) <= n /\ Len(bs[b]) \in Nat
    BY DEF Dealt
  <2>2. QED  BY <1>3, <1>4, <1>5, <2>1
<1>15. Deals(p2, bs2, w, s, n + 1)
  BY <1>10, <1>11, <1>12, <1>13 DEF Deals
<1>16. Dealt(bs2, w, s, n + 1)
  BY <1>14, <1>15 DEF Dealt
<1>17. QED  BY <1>1, <1>4, <1>16 DEF Longer

(* All of the sorted tests are dealt out to the batches.                     *)
LEMMA AssignedDeals ==
    ASSUME NEW w \in Nat, w > 0, NEW s \in Seq(Tests), \A t \in Tests : Estimate(t) \in Nat
    PROVE  /\ Assigned(s, w).batches \in [1 .. w -> Seq(Tests)]
           /\ Dealt(Assigned(s, w).batches, w, s, Len(s))
<1>1. PICK n \in Nat : n = Len(s) /\ \A i \in 1 .. n : s[i] \in Tests
  OBVIOUS
<1>2. PICK f \in [0 .. n -> Splits(w)] : Assigning(s, w, n, f) /\ Assigned(s, w) = f[n]
  BY <1>1, AssignedSteps
<1>3. \A i \in 0 .. n : f[i].batches \in [1 .. w -> Seq(Tests)]
  BY <1>2 DEF Splits
<1> DEFINE S == {i \in 0 .. n : Dealt(f[i].batches, w, s, i)}
<1>4. 0 \in S
  <2>1. f[0].batches = [v \in 1 .. w |-> <<>>]
    BY <1>2 DEF Assigning, NoSplit
  <2>2. \A b \in 1 .. w : f[0].batches[b] = <<>>
    BY <2>1
  <2>3. PlacesIn(f[0].batches, w) = {}
    BY <2>2 DEF PlacesIn
  <2>4. Deals(<<>>, f[0].batches, w, s, 0)
    BY <2>3 DEF Deals
  <2>5. Dealt(f[0].batches, w, s, 0)
    BY <2>2, <2>4 DEF Dealt
  <2>6. QED  BY <2>5
<1>5. ASSUME NEW i \in 0 .. n - 1, i \in S  PROVE i + 1 \in S
  <2>1. f[i + 1] = Assign(f[i], s[i + 1]) /\ f[i] \in Splits(w) /\ s[i + 1] \in Tests
    BY <1>1, <1>2 DEF Assigning
  <2>2. PICK l \in 1 .. w : f[i + 1].batches = Longer(f[i].batches, l, s[i + 1])
    <3>1. OneLonger(f[i].batches, Assign(f[i], s[i + 1]).batches, w, s[i + 1])
      BY <2>1, AssignType
    <3>2. QED  BY <2>1, <3>1, Zenon DEF OneLonger
  <2>3. /\ f[i].batches \in [1 .. w -> Seq(Tests)] /\ i \in 0 .. Len(s) - 1
        /\ Dealt(f[i].batches, w, s, i)
    BY <1>1, <1>3, <1>5
  <2>4. Dealt(f[i + 1].batches, w, s, i + 1)
    <3>1. PICK bs \in [1 .. w -> Seq(Tests)] : bs = f[i].batches
      BY <2>3
    <3>2. Dealt(Longer(bs, l, s[i + 1]), w, s, i + 1)
      BY <2>3, <3>1, DealOne
    <3>3. QED  BY <2>2, <3>1, <3>2, Zenon
  <2>5. QED  BY <2>4
<1>6. n \in S
  <2> HIDE DEF S
  <2>1. 0 .. n \subseteq S
    BY <1>4, <1>5, UpTo
  <2>2. n \in 0 .. n
    OBVIOUS
  <2>3. QED  BY <2>1, <2>2, Zenon
<1>7. n \in 0 .. n /\ Dealt(f[n].batches, w, s, n)
  BY <1>6
<1>8. QED  BY <1>1, <1>2, <1>3, <1>7, Zenon

(* Without its empty batches a split deals the same tests out.               *)
LEMMA DealtWithout ==
    ASSUME NEW w \in Nat, NEW bs \in [1 .. w -> Seq(Tests)], NEW s, NEW n \in Nat,
           Dealt(bs, w, s, n)
    PROVE  LET cut == Without(bs, {<<>>})
           IN  /\ cut \in Seq(Seq(Tests)) /\ Len(cut) <= w
               /\ \A b \in 1 .. Len(cut) : cut[b] # <<>>
               /\ Dealt(cut, Len(cut), s, n)
<1>1. bs \in Seq(Seq(Tests)) /\ Len(bs) = w
  BY FunctionSeq
<1>2. PICK cut \in Seq(Seq(Tests)) : cut = Without(bs, {<<>>})
  BY <1>1, WithoutPlaces
<1>3. PICK c \in Nat : c = Len(cut) /\ \A j \in 1 .. c : cut[j] \in Seq(Tests)
  OBVIOUS
<1>4. PICK q \in [1 .. c -> Nat] : Places(q, cut, bs, {<<>>}, w)
  BY <1>1, <1>2, <1>3, WithoutPlaces
<1>5. PICK p : Deals(p, bs, w, s, n)
  BY DEF Dealt
<1>6. /\ \A j \in 1 .. c : q[j] \in 1 .. w /\ bs[q[j]] # <<>> /\ cut[j] = bs[q[j]]
      /\ \A j, k \in 1 .. c : j < k => q[j] < q[k]
      /\ \A b \in 1 .. w : bs[b] # <<>> => \E j \in 1 .. c : q[j] = b
  BY <1>3, <1>4 DEF Places
<1>7. ASSUME NEW j \in 1 .. c, NEW k \in 1 .. c, q[j] = q[k]  PROVE j = k
  <2>1. q[j] \in Nat /\ q[k] \in Nat /\ ~(q[j] < q[k]) /\ ~(q[k] < q[j])
    BY <1>7
  <2>2. ~(j < k) /\ ~(k < j)
    BY <1>6, <2>1
  <2>3. QED  BY <2>2
<1>8. c <= w
  <2>1. q \in Injection(1 .. c, 1 .. w)
    BY <1>6, <1>7 DEF Injection, IsInjective
  <2>2. IsFiniteSet(1 .. w) /\ Cardinality(1 .. w) = w /\ Cardinality(1 .. c) = c
    BY UpToN
  <2>3. Cardinality(1 .. c) <= Cardinality(1 .. w)
    BY <2>1, <2>2, FS_Injection
  <2>4. QED  BY <2>2, <2>3
<1>9. \A j \in 1 .. c : cut[j] # <<>> /\ Len(cut[j]) <= n
  BY <1>6 DEF Dealt
<1>10. /\ p \in [1 .. n -> PlacesIn(bs, w)]
       /\ \A i, j \in 1 .. n : p[i] = p[j] => i = j
       /\ \A x \in PlacesIn(bs, w) : \E i \in 1 .. n : p[i] = x
       /\ \A i \in 1 .. n : bs[p[i][1]][p[i][2]] = s[i]
  BY <1>5 DEF Deals
<1> DEFINE at == [b \in 1 .. w |-> CHOOSE j \in 1 .. c : q[j] = b]
           p2 == [i \in 1 .. n |-> <<at[p[i][1]], p[i][2]>>]
<1>11. \A b \in 1 .. w : bs[b] # <<>> => at[b] \in 1 .. c /\ q[at[b]] = b
  BY <1>6
<1> HIDE DEF at
<1>12. ASSUME NEW i \in 1 .. n
       PROVE  /\ p[i] = <<p[i][1], p[i][2]>> /\ p[i][1] \in 1 .. w /\ p[i][2] \in Nat \ {0}
              /\ p[i][2] <= Len(bs[p[i][1]]) /\ bs[p[i][1]] # <<>>
  <2>1. p[i] \in PlacesIn(bs, w)
    BY <1>10
  <2>2. /\ p[i] = <<p[i][1], p[i][2]>> /\ p[i][1] \in 1 .. w /\ p[i][2] \in Nat \ {0}
        /\ p[i][2] <= Len(bs[p[i][1]])
    BY <2>1 DEF PlacesIn
  <2>3. CASE bs[p[i][1]] = <<>>
    <3>1. Len(bs[p[i][1]]) = 0
      BY <2>3
    <3>2. QED  BY <2>2, <3>1
  <2>4. QED  BY <2>2, <2>3
<1>13. \A i \in 1 .. n : p2[i] = <<at[p[i][1]], p[i][2]>>
  OBVIOUS
<1>14. ASSUME NEW i \in 1 .. n
       PROVE  /\ at[p[i][1]] \in 1 .. c /\ q[at[p[i][1]]] = p[i][1]
              /\ cut[at[p[i][1]]] = bs[p[i][1]]
  <2>1. p[i][1] \in 1 .. w /\ bs[p[i][1]] # <<>>
    BY <1>12
  <2>2. at[p[i][1]] \in 1 .. c /\ q[at[p[i][1]]] = p[i][1]
    BY <1>11, <2>1, Zenon
  <2>3. cut[at[p[i][1]]] = bs[q[at[p[i][1]]]]
    BY <1>6, <2>2, Zenon
  <2>4. QED  BY <2>2, <2>3, Zenon
<1>15. p2 \in [1 .. n -> PlacesIn(cut, c)]
  <2>1. ASSUME NEW i \in 1 .. n  PROVE <<at[p[i][1]], p[i][2]>> \in PlacesIn(cut, c)
    BY <1>12, <1>14 DEF PlacesIn
  <2>2. QED  BY <2>1
<1> HIDE DEF p2
<1>16. ASSUME NEW i \in 1 .. n, NEW j \in 1 .. n, p2[i] = p2[j]  PROVE i = j
  <2>1. at[p[i][1]] = at[p[j][1]] /\ p[i][2] = p[j][2]
    BY <1>13, <1>16
  <2>2. p[i][1] = p[j][1]
    BY <1>14, <2>1, SMTT(30)
  <2>3. p[i] = p[j]
    BY <1>12, <2>1, <2>2, Zenon
  <2>4. QED  BY <1>10, <2>3
<1>17. ASSUME NEW x \in PlacesIn(cut, c)  PROVE \E i \in 1 .. n : p2[i] = x
  <2>1. PICK j \in 1 .. c : j = x[1]
    BY DEF PlacesIn
  <2>2. PICK m \in Nat \ {0} : m = x[2] /\ m <= Len(cut[j]) /\ x = <<j, m>>
    BY <2>1 DEF PlacesIn
  <2>3. <<q[j], m>> \in PlacesIn(bs, w)
    <3>1. q[j] \in 1 .. w /\ cut[j] = bs[q[j]]
      BY <1>6
    <3>2. QED  BY <2>2, <3>1 DEF PlacesIn
  <2>4. PICK i \in 1 .. n : p[i] = <<q[j], m>>
    BY <1>10, <2>3
  <2>5. p[i][1] = q[j] /\ p[i][2] = m
    BY <2>4
  <2>6. at[p[i][1]] = j
    BY <1>7, <1>14, <2>5
  <2>7. p2[i] = x
    BY <1>13, <2>2, <2>5, <2>6
  <2>8. QED  BY <2>7
<1>18. ASSUME NEW i \in 1 .. n  PROVE cut[p2[i][1]][p2[i][2]] = s[i]
  <2>1. p2[i][1] = at[p[i][1]] /\ p2[i][2] = p[i][2]
    BY <1>13
  <2>2. cut[p2[i][1]][p2[i][2]] = cut[at[p[i][1]]][p[i][2]]
    BY <2>1, Zenon
  <2>3. cut[at[p[i][1]]][p[i][2]] = bs[p[i][1]][p[i][2]]
    BY <1>14, Zenon
  <2>4. bs[p[i][1]][p[i][2]] = s[i]
    BY <1>10, Zenon
  <2>5. QED  BY <2>2, <2>3, <2>4, Zenon
<1>19. Deals(p2, cut, c, s, n)
  BY <1>15, <1>16, <1>17, <1>18 DEF Deals
<1>20. Dealt(cut, c, s, n)
  BY <1>9, <1>19 DEF Dealt
<1>21. QED  BY <1>2, <1>3, <1>8, <1>9, <1>20

\* The places of the tests in the batches of a request of n tests.
Filled(bs, n) == {p \in (1 .. Len(bs)) \X (1 .. n) : p[2] <= Len(bs[p[1]])}

FilledWith(bs, n) == {bs[x[1]][x[2]] : x \in Filled(bs, n)}

LEMMA DealtOut ==
    ASSUME NEW bs \in Seq(Seq(Tests)), NEW s, NEW n \in Nat, Dealt(bs, Len(bs), s, n)
    PROVE  /\ Cardinality(Filled(bs, n)) = n
           /\ FilledWith(bs, n) = {s[i] : i \in 1 .. n}
<1>1. PICK w \in Nat : w = Len(bs) /\ \A b \in 1 .. w : bs[b] \in Seq(Tests)
  OBVIOUS
<1>2. PICK p : Deals(p, bs, w, s, n)
  BY <1>1 DEF Dealt
<1>3. Filled(bs, n) = PlacesIn(bs, w)
  <2>1. ASSUME NEW b \in 1 .. w, NEW i \in Nat \ {0}, i <= Len(bs[b])  PROVE i \in 1 .. n
    <3>1. Len(bs[b]) \in Nat /\ Len(bs[b]) <= n
      BY <1>1 DEF Dealt
    <3>2. QED  BY <2>1, <3>1
  <2>2. QED  BY <1>1, <2>1 DEF Filled, PlacesIn
<1>4. /\ p \in [1 .. n -> PlacesIn(bs, w)]
      /\ \A i, j \in 1 .. n : p[i] = p[j] => i = j
      /\ \A x \in PlacesIn(bs, w) : \E i \in 1 .. n : p[i] = x
      /\ \A i \in 1 .. n : bs[p[i][1]][p[i][2]] = s[i]
  BY <1>2 DEF Deals
<1>5. Cardinality(PlacesIn(bs, w)) = n
  <2>1. p \in Bijection(1 .. n, PlacesIn(bs, w))
    BY <1>4 DEF Bijection, Injection, Surjection, IsInjective
  <2>2. ExistsBijection(1 .. n, PlacesIn(bs, w))
    BY <2>1 DEF ExistsBijection
  <2>3. IsFiniteSet(1 .. n) /\ Cardinality(1 .. n) = n
    BY UpToN
  <2>4. QED  BY <2>2, <2>3, FS_Bijection
<1>6. {bs[x[1]][x[2]] : x \in PlacesIn(bs, w)} = {s[i] : i \in 1 .. n}
  <2> HIDE DEF PlacesIn
  <2>1. ASSUME NEW x \in PlacesIn(bs, w)  PROVE \E i \in 1 .. n : bs[x[1]][x[2]] = s[i]
    <3>1. PICK i \in 1 .. n : p[i] = x
      BY <1>4
    <3>2. bs[x[1]][x[2]] = s[i]
      BY <1>4, <3>1
    <3>3. QED  BY <3>2
  <2>2. ASSUME NEW i \in 1 .. n  PROVE \E x \in PlacesIn(bs, w) : bs[x[1]][x[2]] = s[i]
    <3>1. p[i] \in PlacesIn(bs, w) /\ bs[p[i][1]][p[i][2]] = s[i]
      BY <1>4
    <3>2. QED  BY <3>1
  <2> DEFINE all == {bs[x[1]][x[2]] : x \in PlacesIn(bs, w)}
             want == {s[i] : i \in 1 .. n}
  <2>3. ASSUME NEW e \in all  PROVE e \in want
    BY <2>1
  <2>4. ASSUME NEW e \in want  PROVE e \in all
    <3>1. PICK i \in 1 .. n : e = s[i]
      OBVIOUS
    <3>2. PICK x \in PlacesIn(bs, w) : bs[x[1]][x[2]] = e
      BY <2>2, <3>1
    <3>3. QED  BY <3>2
  <2> HIDE DEF all, want
  <2>5. all = want
    BY <2>3, <2>4
  <2>6. QED  BY <2>5 DEF all, want
<1>7. FilledWith(bs, n) = {s[i] : i \in 1 .. n}
  BY <1>3, <1>6, Zenon DEF FilledWith
<1>8. QED  BY <1>3, <1>5, <1>7, Zenon

(* The pooled executor never asks for more batches than it has workers.      *)
LEMMA WorkersBound ==
    ASSUME NEW r \in Seq(Tests), NEW n \in Nat
    PROVE  /\ ActualWorkers(r, n) \in Int
           /\ ActualWorkers(r, n) <= Max({1, n}) /\ 1 <= Max({1, n})
<1>1. PICK l \in Nat : l = Len(r)
  OBVIOUS
<1>2. MinBatch \in Nat /\ MinBatch > 0
  BY SchedulerAssumption
<1>3. Max({1, n}) \in {1, n} /\ \A m \in {1, n} : Max({1, n}) >= m
  <2> DEFINE m == IF n >= 1 THEN n ELSE 1
  <2>1. m \in {1, n} /\ \A k \in {1, n} : m >= k
    OBVIOUS
  <2> HIDE DEF m
  <2>2. QED  BY <2>1 DEF Max
<1>4. CASE l <= MinBatch
  BY <1>1, <1>3, <1>4 DEF ActualWorkers
<1>5. CASE ~(l <= MinBatch)
  <2>1. PICK d \in Int : d = (l + MinBatch - 1) \div MinBatch
    BY <1>2
  <2>2. Min({n, d}) \in {n, d} /\ \A m \in {n, d} : Min({n, d}) <= m
    <3> DEFINE m == IF n <= d THEN n ELSE d
    <3>1. m \in {n, d} /\ \A k \in {n, d} : m <= k
      OBVIOUS
    <3> HIDE DEF m
    <3>2. QED  BY <3>1 DEF Min
  <2>3. ActualWorkers(r, n) = Min({n, d})
    BY <1>1, <1>5, <2>1 DEF ActualWorkers
  <2>4. Min({n, d}) \in Int /\ Min({n, d}) <= n
    BY <2>2
  <2>5. n <= Max({1, n}) /\ 1 <= Max({1, n}) /\ Max({1, n}) \in Int
    BY <1>3
  <2>6. QED  BY <2>3, <2>4, <2>5
<1>6. QED  BY <1>4, <1>5

LEMMA SplitDeals ==
    ASSUME NEW r \in Seq(Tests), NEW w \in Int, \A t \in Tests : Estimate(t) \in Nat
    PROVE  /\ SplitBalanced(r, w) \in Seq(Seq(Tests))
           /\ Len(SplitBalanced(r, w)) <= IF w <= 1 THEN 1 ELSE w
           /\ r # <<>> => \A b \in 1 .. Len(SplitBalanced(r, w)) : SplitBalanced(r, w)[b] # <<>>
           /\ \E s \in Seq(Tests) :
                 /\ Len(s) = Len(r) /\ ToSet(s) = ToSet(r)
                 /\ Dealt(SplitBalanced(r, w), Len(SplitBalanced(r, w)), s, Len(r))
<1>1. PICK n \in Nat : n = Len(r) /\ DOMAIN r = 1 .. n /\ \A i \in 1 .. n : r[i] \in Tests
  BY LenProperties, ElementOfSeq
<1>2. CASE w <= 1 \/ r = <<>>
  <2> DEFINE bs == <<r>>
             p == [i \in 1 .. n |-> <<1, i>>]
  <2>1. bs = SplitBalanced(r, w)
    BY <1>2 DEF SplitBalanced
  <2>2. bs \in Seq(Seq(Tests)) /\ Len(bs) = 1 /\ bs[1] = r
    OBVIOUS
  <2>3. \A i \in 1 .. n : p[i] = <<1, i>>
    OBVIOUS
  <2> HIDE DEF bs
  <2>4. \A x : x \in PlacesIn(bs, 1) <=> \E i \in 1 .. n : x = <<1, i>>
    BY <1>1, <2>2 DEF PlacesIn
  <2>5. p \in [1 .. n -> PlacesIn(bs, 1)]
    <3> HIDE DEF PlacesIn
    <3>1. \A i \in 1 .. n : <<1, i>> \in PlacesIn(bs, 1)
      BY <2>4
    <3>2. QED  BY <3>1
  <2> HIDE DEF p
  <2>6. \A i, j \in 1 .. n : p[i] = p[j] => i = j
    BY <2>3
  <2>7. \A x \in PlacesIn(bs, 1) : \E i \in 1 .. n : p[i] = x
    BY <2>3, <2>4
  <2>8. \A i \in 1 .. n : bs[p[i][1]][p[i][2]] = r[i]
    BY <2>2, <2>3
  <2>9. Deals(p, bs, 1, r, n)
    BY <2>5, <2>6, <2>7, <2>8 DEF Deals
  <2>10. Dealt(bs, 1, r, n)
    BY <1>1, <2>2, <2>9 DEF Dealt
  <2>11. Len(bs) <= IF w <= 1 THEN 1 ELSE w
    BY <2>2
  <2>12. r # <<>> => \A b \in 1 .. Len(bs) : bs[b] # <<>>
    BY <2>2
  <2>13. \E s \in Seq(Tests) : Len(s) = Len(r) /\ ToSet(s) = ToSet(r) /\ Dealt(bs, Len(bs), s, Len(r))
    BY <1>1, <2>2, <2>10
  <2>14. QED  BY <2>1, <2>2, <2>11, <2>12, <2>13, Zenon
<1>3. CASE ~(w <= 1 \/ r = <<>>)
  <2> DEFINE key == [t \in Tests |-> Estimate(t)]
             s == Descending(r, key)
             all == Assigned(s, w).batches
             bs == Without(all, {<<>>})
  <2>1. bs = SplitBalanced(r, w)
    BY <1>3 DEF SplitBalanced
  <2>2. key \in [Tests -> Int] /\ w \in Nat /\ w > 0
    BY <1>3
  <2> HIDE DEF key
  <2>3. s \in Seq(Tests) /\ Len(s) = n /\ ToSet(s) = ToSet(r)
    <3>1. s \in Seq(Tests) /\ Len(s) = n
      BY <1>1, <2>2, Sorts
    <3>2. ToSet(s) = ToSet(r)
      BY <2>2, SortsAll
    <3>3. QED  BY <3>1, <3>2
  <2> HIDE DEF s
  <2>4. all \in [1 .. w -> Seq(Tests)] /\ Dealt(all, w, s, n)
    BY <2>2, <2>3, AssignedDeals
  <2> HIDE DEF all
  <2>5. /\ bs \in Seq(Seq(Tests)) /\ Len(bs) <= w
        /\ \A b \in 1 .. Len(bs) : bs[b] # <<>>
        /\ Dealt(bs, Len(bs), s, n)
    BY <2>2, <2>4, DealtWithout
  <2> HIDE DEF bs
  <2>6. Len(bs) <= IF w <= 1 THEN 1 ELSE w
    BY <1>3, <2>5
  <2>7. QED  BY <1>1, <2>1, <2>3, <2>5, <2>6
<1>4. QED  BY <1>2, <1>3

(* Whatever the estimates are, the batches of a request of any length, for   *)
(* any number of workers, are a partition of it: sorting, assigning each     *)
(* test to the lightest batch and dropping the empty batches loses no test   *)
(* and runs none twice.                                                      *)
THEOREM SplitPartitionsInvariance == SchedSpec => []SplitPartitions
<1>1. ASSUME SchedInv, NEW r \in Requests, NEW n \in 0 .. MaxWorkers
      PROVE  LET batches == SplitBalanced(r, ActualWorkers(r, n))
             IN  /\ Len(batches) <= Max({1, n})
                 /\ r # <<>> => \A b \in DOMAIN batches : batches[b] # <<>>
                 /\ Cardinality(Filled(batches, Len(r))) = Len(r)
                 /\ FilledWith(batches, Len(r)) = ToSet(r)
  <2>1. r \in Seq(Tests) /\ n \in Nat
    BY SchedulerAssumption
  <2>2. \A t \in Tests : Estimate(t) \in Nat
    BY <1>1, EstimatesType DEF SchedInv
  <2>3. PICK w \in Int : w = ActualWorkers(r, n) /\ w <= Max({1, n}) /\ 1 <= Max({1, n})
    BY <2>1, WorkersBound
  <2> DEFINE bs == SplitBalanced(r, w)
  <2>4. /\ bs \in Seq(Seq(Tests))
        /\ Len(bs) <= IF w <= 1 THEN 1 ELSE w
        /\ r # <<>> => \A b \in 1 .. Len(bs) : bs[b] # <<>>
    BY <2>1, <2>2, SplitDeals
  <2>5. PICK s \in Seq(Tests) : /\ Len(s) = Len(r) /\ ToSet(s) = ToSet(r)
                                /\ Dealt(bs, Len(bs), s, Len(r))
    BY <2>1, <2>2, SplitDeals
  <2> HIDE DEF bs
  <2>6. PICK l \in Nat : l = Len(r)
    BY <2>1
  <2>7. /\ Cardinality(Filled(bs, l)) = l
        /\ FilledWith(bs, l) = {s[i] : i \in 1 .. l}
    <3>1. Dealt(bs, Len(bs), s, l)
      BY <2>5, <2>6
    <3>2. QED  BY <2>4, <3>1, DealtOut
  <2>8. ToSet(r) = {s[i] : i \in 1 .. l}
    <3>1. DOMAIN s = 1 .. l
      BY <2>5, <2>6, LenProperties
    <3>2. QED  BY <2>5, <3>1 DEF ToSet
  <2>9. DOMAIN bs = 1 .. Len(bs)
    BY <2>4, LenProperties
  <2>10. Len(bs) <= Max({1, n})
    <3>1. Max({1, n}) \in {1, n}
      <4> DEFINE m == IF n >= 1 THEN n ELSE 1
      <4>1. m \in {1, n} /\ \A k \in {1, n} : m >= k
        BY <2>1
      <4> HIDE DEF m
      <4>2. QED  BY <4>1 DEF Max
    <3>2. PICK m \in Int : m = Max({1, n})
      BY <2>1, <3>1
    <3>3. Len(bs) \in Int /\ Len(bs) <= m
      BY <2>3, <2>4, <3>2
    <3>4. QED  BY <3>2, <3>3
  <2>11. FilledWith(bs, l) = ToSet(r)
    BY <2>7, <2>8
  <2>12. /\ Len(bs) <= Max({1, n})
         /\ r # <<>> => \A b \in DOMAIN bs : bs[b] # <<>>
         /\ Cardinality(Filled(bs, l)) = l
         /\ FilledWith(bs, l) = ToSet(r)
    BY <2>4, <2>7, <2>9, <2>10, <2>11
  <2>13. QED  BY <2>3, <2>6, <2>12, Zenon DEF bs
<1>2. SchedInv => SplitPartitions
  <2>1. SUFFICES ASSUME SchedInv, NEW r \in Requests, NEW n \in 0 .. MaxWorkers
                 PROVE  LET batches == SplitBalanced(r, ActualWorkers(r, n))
                        IN  /\ Len(batches) <= Max({1, n})
                            /\ r # <<>> => \A b \in DOMAIN batches : batches[b] # <<>>
                            /\ Cardinality(Filled(batches, Len(r))) = Len(r)
                            /\ FilledWith(batches, Len(r)) = ToSet(r)
    BY Zenon DEF SplitPartitions, Filled, FilledWith
  <2>2. QED  BY <1>1, <2>1
<1>3. QED  BY <1>2, SchedInvariance, PTL


-----------------------------------------------------------------------------
(* The balance of the batches *)

\* What the tests of a batch take together.
Takes(batch, total) ==
    \E g \in [0 .. Len(batch) -> Nat] :
        /\ g[0] = 0 /\ g[Len(batch)] = total
        /\ \A i \in 1 .. Len(batch) : g[i] = g[i - 1] + Estimate(batch[i])

\* No batch takes longer than another by more than high.
Even(batches, load, w, high) ==
    \A u \in 1 .. w : /\ Takes(batches[u], load[u])
                      /\ \A v \in 1 .. w : load[u] <= load[v] + high

LEMMA TakesNothing == Takes(<<>>, 0)
<1> DEFINE g == [i \in 0 .. 0 |-> 0]
<1>1. g \in [0 .. Len(<<>>) -> Nat] /\ g[0] = 0 /\ Len(<<>>) = 0
  OBVIOUS
<1> HIDE DEF g
<1>2. QED  BY <1>1 DEF Takes

LEMMA TakesOneMore ==
    ASSUME NEW batch \in Seq(Tests), NEW total \in Nat, Takes(batch, total),
           NEW t \in Tests, Estimate(t) \in Nat
    PROVE  Takes(Append(batch, t), total + Estimate(t))
<1>1. PICK n \in Nat : n = Len(batch)
  OBVIOUS
<1>2. PICK g \in [0 .. n -> Nat] :
              /\ g[0] = 0 /\ g[n] = total
              /\ \A i \in 1 .. n : g[i] = g[i - 1] + Estimate(batch[i])
  BY <1>1 DEF Takes
<1> DEFINE longer == Append(batch, t)
           sum == total + Estimate(t)
           h == [i \in 0 .. n + 1 |-> IF i = n + 1 THEN sum ELSE g[i]]
<1>3. Len(longer) = n + 1 /\ longer[n + 1] = t /\ \A i \in 1 .. n : longer[i] = batch[i]
  BY <1>1, AppendProperties
<1>4. sum \in Nat
  OBVIOUS
<1>5. h \in [0 .. n + 1 -> Nat] /\ h[n + 1] = sum /\ \A i \in 0 .. n : h[i] = g[i]
  BY <1>2, <1>4
<1> HIDE DEF h, longer
<1>6. ASSUME NEW i \in 1 .. n + 1  PROVE h[i] = h[i - 1] + Estimate(longer[i])
  <2>1. CASE i = n + 1
    <3>1. i - 1 = n /\ n \in 0 .. n
      BY <2>1
    <3>2. h[i] = sum /\ h[i - 1] = total /\ longer[i] = t
      BY <1>2, <1>3, <1>5, <2>1, <3>1, Zenon
    <3>3. QED  BY <3>2
  <2>2. CASE i # n + 1
    <3>1. i \in 1 .. n /\ i \in 0 .. n /\ i - 1 \in 0 .. n
      BY <2>2
    <3>2. h[i] = g[i] /\ h[i - 1] = g[i - 1] /\ longer[i] = batch[i]
      BY <1>3, <1>5, <3>1, Zenon
    <3>3. QED  BY <1>2, <3>1, <3>2, Zenon
  <2>3. QED  BY <2>1, <2>2
<1> HIDE DEF sum
<1>7. h[0] = 0
  <2>1. 0 \in 0 .. n
    BY <1>1
  <2>2. QED  BY <1>2, <1>5, <2>1, Zenon
<1>8. Takes(longer, sum)
  BY <1>3, <1>5, <1>6, <1>7, Zenon DEF Takes
<1>9. QED  BY <1>8, Zenon DEF longer, sum

(* The lightest batch cannot get ahead by more than the test it is given.    *)
LEMMA AssignEven ==
    ASSUME NEW w \in Nat, w > 0, NEW a \in Splits(w), NEW t \in Tests,
           NEW high \in Nat, Estimate(t) \in Nat, Estimate(t) <= high,
           Even(a.batches, a.load, w, high)
    PROVE  Even(Assign(a, t).batches, Assign(a, t).load, w, high)
<1>1. PICK bs \in [1 .. w -> Seq(Tests)], load \in [1 .. w -> Nat] : bs = a.batches /\ load = a.load
  BY DEF Splits
<1>2. PICK l \in 1 .. w : l = Lightest(load) /\ \A v \in 1 .. w : load[l] <= load[v]
  BY <1>1, LightestIsOne
<1>3. PICK e \in Nat : e = Estimate(t) /\ e <= high
  OBVIOUS
<1> DEFINE bs2 == [bs EXCEPT ![l] = Append(@, t)]
           load2 == [load EXCEPT ![l] = @ + e]
<1>4. Assign(a, t).batches = bs2 /\ Assign(a, t).load = load2
  BY <1>1, <1>2, <1>3 DEF Assign
<1>5. /\ bs2[l] = Append(bs[l], t) /\ load2[l] = load[l] + e
      /\ \A u \in 1 .. w : u # l => bs2[u] = bs[u] /\ load2[u] = load[u]
  OBVIOUS
<1> HIDE DEF bs2, load2
<1>6. \A u \in 1 .. w : Takes(bs[u], load[u]) /\ \A v \in 1 .. w : load[u] <= load[v] + high
  BY <1>1, Zenon DEF Even
<1>7. \A u \in 1 .. w : load[u] \in Nat /\ bs[u] \in Seq(Tests)
  BY <1>1
<1>8. ASSUME NEW u \in 1 .. w  PROVE Takes(bs2[u], load2[u])
  <2>1. CASE u = l
    <3>1. Takes(Append(bs[l], t), load[l] + Estimate(t))
      BY <1>6, <1>7, TakesOneMore
    <3>2. QED  BY <1>3, <1>5, <2>1, <3>1, Zenon
  <2>2. CASE u # l
    BY <1>5, <1>6, <2>2, Zenon
  <2>3. QED  BY <2>1, <2>2
<1>9. ASSUME NEW u \in 1 .. w, NEW v \in 1 .. w  PROVE load2[u] <= load2[v] + high
  <2>1. load[u] \in Nat /\ load[v] \in Nat /\ load[l] \in Nat /\ load[l] <= load[v]
        /\ load[u] <= load[v] + high
    BY <1>2, <1>6, <1>7
  <2>2. (u = l => load2[u] = load[l] + e) /\ (u # l => load2[u] = load[u])
    BY <1>5
  <2>3. load2[v] >= load[v] /\ load2[v] \in Nat
    <3>1. CASE v = l
      <4>1. load2[v] = load[l] + e /\ load[v] = load[l]
        BY <1>5, <3>1, Zenon
      <4>2. QED  BY <2>1, <4>1, SMTT(30)
    <3>2. CASE v # l
      BY <1>5, <2>1, <3>2, SMTT(30)
    <3>3. QED  BY <3>1, <3>2
  <2>4. CASE u = v
    BY <2>3, <2>4
  <2>5. CASE u # v
    BY <1>3, <2>1, <2>2, <2>3, <2>5, SMTT(30)
  <2>6. QED  BY <2>4, <2>5
<1>10. QED  BY <1>4, <1>8, <1>9 DEF Even

LEMMA AssignedEven ==
    ASSUME NEW w \in Nat, w > 0, NEW s \in Seq(Tests), \A t \in Tests : Estimate(t) \in Nat,
           NEW high \in Nat, \A i \in 1 .. Len(s) : Estimate(s[i]) <= high
    PROVE  /\ Assigned(s, w) \in Splits(w)
           /\ Even(Assigned(s, w).batches, Assigned(s, w).load, w, high)
<1>1. PICK n \in Nat : n = Len(s) /\ \A i \in 1 .. n : s[i] \in Tests
  OBVIOUS
<1>2. PICK f \in [0 .. n -> Splits(w)] : Assigning(s, w, n, f) /\ Assigned(s, w) = f[n]
  BY <1>1, AssignedSteps
<1> DEFINE S == {i \in 0 .. n : Even(f[i].batches, f[i].load, w, high)}
<1>3. 0 \in S
  <2>1. /\ f[0].batches = [v \in 1 .. w |-> <<>>]
        /\ f[0].load = [v \in 1 .. w |-> 0]
    BY <1>2 DEF Assigning, NoSplit
  <2>2. \A v \in 1 .. w : f[0].batches[v] = <<>> /\ f[0].load[v] = 0
    BY <2>1
  <2>3. Even(f[0].batches, f[0].load, w, high)
    BY <2>2, TakesNothing DEF Even
  <2>4. QED  BY <2>3
<1>4. ASSUME NEW i \in 0 .. n - 1, i \in S  PROVE i + 1 \in S
  <2>1. f[i + 1] = Assign(f[i], s[i + 1]) /\ f[i] \in Splits(w) /\ s[i + 1] \in Tests
    BY <1>1, <1>2 DEF Assigning
  <2>2. Estimate(s[i + 1]) \in Nat /\ Estimate(s[i + 1]) <= high
    <3>1. i + 1 \in 1 .. Len(s)
      BY <1>1
    <3>2. QED  BY <2>1, <3>1, Zenon
  <2>3. Even(f[i].batches, f[i].load, w, high)
    BY <1>4
  <2>4. Even(f[i + 1].batches, f[i + 1].load, w, high)
    BY <2>1, <2>2, <2>3, AssignEven
  <2>5. QED  BY <2>4
<1>5. n \in S
  <2> HIDE DEF S
  <2>1. 0 .. n \subseteq S
    BY <1>3, <1>4, UpTo
  <2>2. n \in 0 .. n
    OBVIOUS
  <2>3. QED  BY <2>1, <2>2, Zenon
<1>6. n \in 0 .. n /\ Even(f[n].batches, f[n].load, w, high)
  BY <1>5
<1>7. QED  BY <1>2, <1>6

\* What split_balanced promises of the loads: the batches it returns may differ
\* by as much as one test is estimated to take, whatever is in the others.
LoadsBalanced ==
    \A r \in Requests, w \in Nat, high \in Nat :
        (w >= 2 /\ r # <<>> /\ \A i \in DOMAIN r : Estimate(r[i]) <= high) =>
            \E total \in [1 .. Len(SplitBalanced(r, w)) -> Nat] :
                Even(SplitBalanced(r, w), total, Len(SplitBalanced(r, w)), high)

LEMMA SplitEven ==
    ASSUME NEW r \in Seq(Tests), r # <<>>, NEW w \in Nat, w >= 2,
           \A t \in Tests : Estimate(t) \in Nat,
           NEW high \in Nat, \A i \in DOMAIN r : Estimate(r[i]) <= high
    PROVE  \E total \in [1 .. Len(SplitBalanced(r, w)) -> Nat] :
               Even(SplitBalanced(r, w), total, Len(SplitBalanced(r, w)), high)
<1> DEFINE key == [t \in Tests |-> Estimate(t)]
           s == Descending(r, key)
           all == Assigned(s, w).batches
           load == Assigned(s, w).load
           bs == Without(all, {<<>>})
<1>1. bs = SplitBalanced(r, w)
  <2>1. ~ (w <= 1 \/ r = <<>>)
    OBVIOUS
  <2>2. QED  BY <2>1 DEF SplitBalanced
<1>2. key \in [Tests -> Int] /\ w > 0
  OBVIOUS
<1> HIDE DEF key
<1>3. s \in Seq(Tests) /\ ToSet(s) = ToSet(r)
  <2>1. s \in Seq(Tests)
    BY <1>2, Sorts
  <2>2. ToSet(s) = ToSet(r)
    BY <1>2, SortsAll
  <2>3. QED  BY <2>1, <2>2
<1>4. ASSUME NEW i \in 1 .. Len(s)  PROVE Estimate(s[i]) <= high
  <2>1. s[i] \in ToSet(s)
    <3>1. DOMAIN s = 1 .. Len(s)
      BY <1>3, LenProperties
    <3>2. QED  BY <3>1, Zenon DEF ToSet
  <2>2. PICK k \in DOMAIN r : s[i] = r[k]
    BY <1>3, <2>1, Zenon DEF ToSet
  <2>3. QED  BY <2>2, Zenon
<1> HIDE DEF s
<1>5. Assigned(s, w) \in Splits(w) /\ Even(all, load, w, high)
  BY <1>2, <1>3, <1>4, AssignedEven
<1>6. all \in [1 .. w -> Seq(Tests)] /\ load \in [1 .. w -> Nat]
  BY <1>5 DEF Splits
<1> HIDE DEF all, load
<1>7. all \in Seq(Seq(Tests)) /\ Len(all) = w
  BY <1>6, FunctionSeq
<1>8. PICK c \in Nat : c = Len(bs)
  <2>1. bs \in Seq(Seq(Tests))
    BY <1>7, WithoutPlaces
  <2> HIDE DEF bs
  <2>2. QED  BY <2>1
<1>9. PICK q \in [1 .. c -> Nat] : \A j \in 1 .. c : q[j] \in 1 .. w /\ bs[j] = all[q[j]]
  <2>1. \E q \in [1 .. Len(bs) -> Nat] : Places(q, bs, all, {<<>>}, w)
    BY <1>7, WithoutPlaces
  <2> HIDE DEF bs
  <2>2. QED  BY <1>8, <2>1 DEF Places
<1> HIDE DEF bs
<1> DEFINE total == [j \in 1 .. c |-> load[q[j]]]
<1>10. total \in [1 .. c -> Nat] /\ \A j \in 1 .. c : total[j] = load[q[j]]
  <2>1. \A j \in 1 .. c : load[q[j]] \in Nat
    BY <1>6, <1>9
  <2>2. QED  BY <2>1
<1> HIDE DEF total
<1>11. Even(bs, total, c, high)
  <2>1. ASSUME NEW u \in 1 .. c  PROVE Takes(bs[u], total[u])
    <3>1. q[u] \in 1 .. w /\ bs[u] = all[q[u]] /\ total[u] = load[q[u]]
      BY <1>9, <1>10
    <3>2. QED  BY <1>5, <3>1, Zenon DEF Even
  <2>2. ASSUME NEW u \in 1 .. c, NEW v \in 1 .. c  PROVE total[u] <= total[v] + high
    <3>1. q[u] \in 1 .. w /\ total[u] = load[q[u]] /\ q[v] \in 1 .. w /\ total[v] = load[q[v]]
      BY <1>9, <1>10
    <3>2. load[q[u]] <= load[q[v]] + high
      BY <1>5, <3>1, Zenon DEF Even
    <3>3. QED  BY <3>1, <3>2, Zenon
  <2>3. QED  BY <2>1, <2>2, Zenon DEF Even
<1>12. QED  BY <1>1, <1>8, <1>10, <1>11, Zenon

(* The next test goes to the batch that has the least to do, so that no two  *)
(* batches are further apart than the longest estimate, for every request,   *)
(* number of workers and history; the empty batches that are dropped would   *)
(* only be the shortest (scheduler.rs:128-159). It does not depend on the    *)
(* order of the tests, as GreedyBound does.                                  *)
THEOREM LoadsBalancedInvariance == SchedSpec => []LoadsBalanced
<1>1. ASSUME SchedInv  PROVE LoadsBalanced
  <2>1. \A t \in Tests : Estimate(t) \in Nat
    BY <1>1, EstimatesType DEF SchedInv
  <2>2. ASSUME NEW r \in Requests, NEW w \in Nat, NEW high \in Nat,
               w >= 2, r # <<>>, \A i \in DOMAIN r : Estimate(r[i]) <= high
        PROVE  \E total \in [1 .. Len(SplitBalanced(r, w)) -> Nat] :
                   Even(SplitBalanced(r, w), total, Len(SplitBalanced(r, w)), high)
    <3>1. r \in Seq(Tests)
      BY SchedulerAssumption
    <3>2. QED  BY <2>1, <2>2, <3>1, SplitEven
  <2>3. QED  BY <2>2, Zenon DEF LoadsBalanced
<1>2. QED  BY <1>1, SchedInvariance, PTL

-----------------------------------------------------------------------------
(***************************************************************************)
(* How good the batches are. This is Graham's argument on numbers that do  *)
(* not grow and are dealt out one by one, each to one of those that have   *)
(* the least: whoever gets number k had at most an average before, and if  *)
(* k is larger than a third of what the best split needs, the numbers so   *)
(* far are so large that no split could do better.                         *)
(***************************************************************************)

Falling(e, n) ==
    e \in [1 .. n -> Nat] /\ \A i, j \in 1 .. n : i <= j => e[j] <= e[i]

ToLeast(e, to, m, n) ==
    /\ to \in [1 .. n -> 1 .. m]
    /\ \A k \in 1 .. n, w \in 1 .. m :
          Loads(e, to, m, n, k - 1)[to[k]] <= Loads(e, to, m, n, k - 1)[w]

\* No one of m has more than M.
Fits(e, to, m, n, M) ==
    to \in [1 .. n -> 1 .. m] /\ \A w \in 1 .. m : Loads(e, to, m, n, n)[w] <= M

\* Of what w has, d[i] came after the first i - 1 numbers.
LEMMA ShareGrows ==
    ASSUME NEW n \in Nat, NEW m \in Nat, NEW d \in [1 .. n -> Nat], NEW to \in [1 .. n -> 1 .. m],
           NEW w \in 1 .. m, NEW k \in 0 .. n, NEW i \in 1 .. k, to[i] = w
    PROVE  /\ Loads(d, to, m, n, i - 1)[w] \in Nat
           /\ Loads(d, to, m, n, k)[w] \in Nat
           /\ Loads(d, to, m, n, i - 1)[w] + d[i] <= Loads(d, to, m, n, k)[w]
<1>1. PICK h : h = Share(d, to, w, n) /\ h \in [1 .. n -> Nat]
  BY ShareSums
<1>2. PICK g : g = Partial(h, n) /\ Adds(g, h, n)
  BY <1>1, PartialSums
<1>3. i \in 1 .. n /\ i \in 0 .. n /\ i - 1 \in 0 .. n /\ i \in 0 .. k
  OBVIOUS
<1>4. h[i] = d[i]
  BY <1>1, <1>3 DEF Share
<1>5. g[i] = g[i - 1] + h[i] /\ g[i - 1] \in Nat /\ g[k] \in Nat
  BY <1>2, <1>3 DEF Adds
<1>6. g[i] <= g[k]
  BY <1>1, <1>2, <1>3, SumsGrow
<1>7. Loads(d, to, m, n, i - 1)[w] = g[i - 1] /\ Loads(d, to, m, n, k)[w] = g[k]
  BY <1>1, <1>2 DEF Loads
<1>8. QED  BY <1>4, <1>5, <1>6, <1>7

\* The last number that w has of the first k.
Latest(d, to, m, n, k, w, i) ==
    to[i] = w /\ Loads(d, to, m, n, k)[w] = Loads(d, to, m, n, i - 1)[w] + d[i]

LEMMA ShareEnds ==
    ASSUME NEW n \in Nat, NEW m \in Nat, NEW d \in [1 .. n -> Nat], NEW to \in [1 .. n -> 1 .. m],
           NEW w \in 1 .. m, NEW k \in 0 .. n
    PROVE  /\ Loads(d, to, m, n, k)[w] \in Nat
           /\ Loads(d, to, m, n, k)[w] > 0 => \E i \in 1 .. k : Latest(d, to, m, n, k, w, i)
<1>1. PICK h : h = Share(d, to, w, n) /\ h \in [1 .. n -> Nat]
  BY ShareSums
<1>2. PICK g : g = Partial(h, n) /\ Adds(g, h, n)
  BY <1>1, PartialSums
<1>3. \A i \in 0 .. n : Loads(d, to, m, n, i)[w] = g[i]
  BY <1>1, <1>2 DEF Loads
<1>4. g[k] \in Nat
  BY <1>2 DEF Adds
<1>5. ASSUME g[k] > 0  PROVE \E i \in 1 .. k : Latest(d, to, m, n, k, w, i)
  <2>1. PICK i \in 1 .. k : h[i] > 0 /\ g[k] = g[i - 1] + h[i]
    <3>1. Adds(g, h, n)
      BY <1>2
    <3>2. QED  BY <1>5, <3>1, SumsLast
  <2>2. i \in 1 .. n /\ i - 1 \in 0 .. n
    OBVIOUS
  <2>3. h[i] = (IF to[i] = w THEN d[i] ELSE 0)
    BY <1>1, <2>2 DEF Share
  <2>4. to[i] = w /\ h[i] = d[i]
    BY <2>1, <2>3
  <2>5. Latest(d, to, m, n, k, w, i)
    BY <1>3, <2>1, <2>2, <2>4 DEF Latest
  <2>6. QED  BY <2>5
<1>6. QED  BY <1>3, <1>4, <1>5

(* Numbers that one has add up to no more than all it has.                   *)
LEMMA TwoFit ==
    ASSUME NEW n \in Nat, NEW m \in Nat, NEW d \in [1 .. n -> Nat], NEW to \in [1 .. n -> 1 .. m],
           NEW k \in 0 .. n, NEW j \in 1 .. k, NEW i \in 1 .. j - 1, to[i] = to[j]
    PROVE  d[i] + d[j] <= Loads(d, to, m, n, k)[to[j]]
<1>1. PICK w \in 1 .. m : w = to[i] /\ w = to[j]
  OBVIOUS
<1>2. /\ Loads(d, to, m, n, j - 1)[w] \in Nat /\ Loads(d, to, m, n, k)[w] \in Nat
      /\ Loads(d, to, m, n, j - 1)[w] + d[j] <= Loads(d, to, m, n, k)[w]
  BY <1>1, ShareGrows
<1>3. j - 1 \in 0 .. n /\ i \in 1 .. n /\ j \in 1 .. n
  OBVIOUS
<1>4. /\ Loads(d, to, m, n, i - 1)[w] \in Nat
      /\ Loads(d, to, m, n, i - 1)[w] + d[i] <= Loads(d, to, m, n, j - 1)[w]
  BY <1>1, <1>3, ShareGrows
<1>5. d[i] \in Nat /\ d[j] \in Nat
  BY <1>3
<1>6. PICK x, y, z : /\ x = Loads(d, to, m, n, i - 1)[w] /\ y = Loads(d, to, m, n, j - 1)[w]
                     /\ z = Loads(d, to, m, n, k)[w]
  OBVIOUS
<1>7. x \in Nat /\ y \in Nat /\ z \in Nat /\ x + d[i] <= y /\ y + d[j] <= z
  BY <1>2, <1>4, <1>6, Zenon
<1>8. d[i] + d[j] <= z
  BY <1>5, <1>7
<1>9. QED  BY <1>1, <1>6, <1>8, Zenon

LEMMA ThreeFit ==
    ASSUME NEW n \in Nat, NEW m \in Nat, NEW d \in [1 .. n -> Nat], NEW to \in [1 .. n -> 1 .. m],
           NEW k \in 0 .. n, NEW l \in 1 .. k, NEW j \in 1 .. l - 1, NEW i \in 1 .. j - 1,
           to[i] = to[l], to[j] = to[l]
    PROVE  d[i] + d[j] + d[l] <= Loads(d, to, m, n, k)[to[l]]
<1>1. PICK w \in 1 .. m : w = to[i] /\ w = to[j] /\ w = to[l]
  OBVIOUS
<1>2. /\ Loads(d, to, m, n, l - 1)[w] \in Nat /\ Loads(d, to, m, n, k)[w] \in Nat
      /\ Loads(d, to, m, n, l - 1)[w] + d[l] <= Loads(d, to, m, n, k)[w]
  BY <1>1, ShareGrows
<1>3. l - 1 \in 0 .. n /\ i \in 1 .. n /\ j \in 1 .. n /\ l \in 1 .. n
  OBVIOUS
<1>4. d[i] + d[j] <= Loads(d, to, m, n, l - 1)[to[j]]
  BY <1>1, <1>3, TwoFit
<1>5. d[i] \in Nat /\ d[j] \in Nat /\ d[l] \in Nat
  BY <1>3
<1>6. PICK x, y : x = Loads(d, to, m, n, l - 1)[w] /\ y = Loads(d, to, m, n, k)[w]
  OBVIOUS
<1>7. x \in Nat /\ y \in Nat /\ x + d[l] <= y /\ d[i] + d[j] <= x
  BY <1>1, <1>2, <1>4, <1>6, Zenon
<1>8. d[i] + d[j] + d[l] <= y
  BY <1>5, <1>7, SMTT(30)
<1>9. QED  BY <1>1, <1>6, <1>8, Zenon

\* A number counts twice if it leaves no room for the k-th.
Weights(e, n, k, M) == [i \in 1 .. n |-> IF e[i] + e[k] > M THEN 2 ELSE 1]

LEMMA WeightsType ==
    ASSUME NEW n \in Nat, NEW e, NEW k, NEW M
    PROVE  /\ Weights(e, n, k, M) \in [1 .. n -> Nat]
           /\ \A i \in 1 .. n : /\ Weights(e, n, k, M)[i] \in {1, 2}
                                /\ Weights(e, n, k, M)[i] = 1 <=> ~ (e[i] + e[k] > M)
  BY DEF Weights

(* Where all have too much for the k-th number, all have one that leaves no  *)
(* room for it, or two numbers.                                              *)
LEMMA Crowded ==
    ASSUME NEW n \in Nat, NEW m \in Nat, NEW e, Falling(e, n), NEW a, ToLeast(e, a, m, n),
           NEW M \in Nat, NEW k \in 1 .. n, e[k] <= M,
           Loads(e, a, m, n, k - 1)[a[k]] + e[k] > M,
           NEW w \in 1 .. m
    PROVE  Loads(Weights(e, n, k, M), a, m, n, k - 1)[w] >= 2
<1>1. PICK c \in [1 .. n -> Nat] : /\ c = Weights(e, n, k, M)
                                   /\ \A i \in 1 .. n : /\ c[i] \in {1, 2}
                                                        /\ c[i] = 1 => ~ (e[i] + e[k] > M)
  BY WeightsType
<1>2. e \in [1 .. n -> Nat] /\ a \in [1 .. n -> 1 .. m]
  BY DEF Falling, ToLeast
<1>3. k - 1 \in 0 .. n /\ a[k] \in 1 .. m /\ e[k] \in Nat
  BY <1>2
<1>4. PICK l : l = Loads(e, a, m, n, k - 1)[a[k]] /\ l \in Nat /\ l + e[k] > M
  BY <1>2, <1>3, ShareEnds
<1>5. PICK x : x = Loads(e, a, m, n, k - 1)[w] /\ x \in Nat /\ l <= x
  <2>1. Loads(e, a, m, n, k - 1)[w] \in Nat
    BY <1>2, <1>3, ShareEnds
  <2>2. l <= Loads(e, a, m, n, k - 1)[w]
    BY <1>4 DEF ToLeast
  <2>3. QED  BY <2>1, <2>2
<1>6. x > 0
  BY <1>3, <1>4, <1>5
<1>7. PICK i \in 1 .. k - 1 : Latest(e, a, m, n, k - 1, w, i)
  BY <1>2, <1>3, <1>5, <1>6, ShareEnds
<1>8. i \in 1 .. n /\ i - 1 \in 0 .. n /\ a[i] = w /\ e[i] \in Nat /\ c[i] \in {1, 2}
  BY <1>1, <1>2, <1>7 DEF Latest
<1>9. PICK y : y = Loads(e, a, m, n, i - 1)[w] /\ y \in Nat /\ x = y + e[i]
  <2>1. Loads(e, a, m, n, i - 1)[w] \in Nat
    BY <1>2, <1>8, ShareEnds
  <2>2. x = Loads(e, a, m, n, i - 1)[w] + e[i]
    BY <1>5, <1>7 DEF Latest
  <2>3. QED  BY <2>1, <2>2
<1>10. PICK s, t : /\ t = Loads(c, a, m, n, i - 1)[w] /\ t \in Nat
                   /\ s = Loads(c, a, m, n, k - 1)[w] /\ s \in Nat
                   /\ t + c[i] <= s
  <2>1. c \in [1 .. n -> Nat] /\ k - 1 \in 0 .. n /\ a[i] = w
    BY <1>3, <1>8
  <2>2. /\ Loads(c, a, m, n, i - 1)[w] \in Nat
        /\ Loads(c, a, m, n, k - 1)[w] \in Nat
        /\ Loads(c, a, m, n, i - 1)[w] + c[i] <= Loads(c, a, m, n, k - 1)[w]
    BY <1>2, <2>1, ShareGrows
  <2>3. QED  BY <2>2, Zenon
<1>11. s >= 2
  <2>1. CASE y = 0
    <3>1. l \in Nat /\ x \in Nat /\ l <= x /\ l + e[k] > M /\ x = y + e[i]
      BY <1>4, <1>5, <1>9, Zenon
    <3>2. e[i] + e[k] > M
      BY <1>3, <1>8, <2>1, <3>1, SMTT(30)
    <3>3. c[i] = 2
      BY <1>1, <1>8, <3>2
    <3>4. t \in Nat /\ s \in Nat /\ t + 2 <= s
      BY <1>10, <3>3, Zenon
    <3>5. QED  BY <3>4
  <2>2. CASE y > 0
    <3>1. PICK j \in 1 .. i - 1 : Latest(e, a, m, n, i - 1, w, j)
      BY <1>2, <1>8, <1>9, <2>2, ShareEnds
    <3>2. j \in 1 .. n /\ a[j] = w
      BY <1>8, <3>1 DEF Latest
    <3>3. c[j] \in {1, 2} /\ a[j] = a[i]
      BY <1>1, <1>8, <3>2
    <3>4. c[j] + c[i] <= Loads(c, a, m, n, k - 1)[a[i]]
      BY <1>2, <1>3, <3>3, TwoFit
    <3>5. Loads(c, a, m, n, k - 1)[a[i]] = s
      BY <1>8, <1>10
    <3>6. s \in Nat /\ c[j] + c[i] <= s
      BY <1>10, <3>4, <3>5, Zenon
    <3>7. QED  BY <1>8, <3>3, <3>6
  <2>3. QED  BY <1>9, <2>1, <2>2
<1>12. QED  BY <1>1, <1>10, <1>11

(* And where all numbers up to the k-th fit nobody has more than two of      *)
(* these, or more than one that leaves no room.                              *)
LEMMA Roomy ==
    ASSUME NEW n \in Nat, NEW m \in Nat, NEW e, Falling(e, n), NEW M \in Nat,
           NEW b, Fits(e, b, m, n, M), NEW k \in 1 .. n, 3 * e[k] > M, NEW w \in 1 .. m
    PROVE  Loads(Weights(e, n, k, M), b, m, n, k)[w] <= 2
<1>1. PICK c \in [1 .. n -> Nat] : /\ c = Weights(e, n, k, M)
                                   /\ \A i \in 1 .. n : /\ c[i] \in {1, 2}
                                                        /\ c[i] = 2 => e[i] + e[k] > M
  BY WeightsType
<1>2. e \in [1 .. n -> Nat] /\ b \in [1 .. n -> 1 .. m] /\ k \in 0 .. n
  BY DEF Falling, Fits
<1>3. ASSUME NEW i \in 1 .. k  PROVE i \in 1 .. n /\ e[i] \in Nat /\ e[i] >= e[k] /\ c[i] \in {1, 2}
  BY <1>1, <1>2 DEF Falling
<1>4. \A v \in 1 .. m : Loads(e, b, m, n, n)[v] <= M
  BY DEF Fits
<1>5. e[k] \in Nat
  BY <1>2
<1>6. ASSUME NEW j \in 1 .. k, NEW i \in 1 .. j - 1, b[i] = b[j]
      PROVE  /\ i \in 1 .. k
             /\ c[i] = 1 /\ c[j] = 1
  <2>1. i \in 1 .. k /\ j \in 1 .. n /\ i \in 1 .. n /\ n \in 0 .. n
    OBVIOUS
  <2>2. e[i] + e[j] <= Loads(e, b, m, n, n)[b[j]]
    BY <1>2, <1>6, <2>1, TwoFit
  <2>3. b[j] \in 1 .. m
    BY <1>2, <2>1
  <2>4. e[i] \in Nat /\ e[j] \in Nat /\ e[i] >= e[k] /\ e[j] >= e[k]
    BY <1>3, <2>1
  <2>5. PICK x : x = Loads(e, b, m, n, n)[b[j]] /\ x \in Nat
    BY <1>2, <2>1, <2>3, ShareEnds
  <2>6. x <= M /\ e[i] + e[j] <= x
    BY <1>4, <2>2, <2>3, <2>5
  <2>7. ~ (e[i] + e[k] > M) /\ ~ (e[j] + e[k] > M)
    <3>1. x \in Nat /\ x <= M /\ e[i] + e[j] <= x
      BY <2>5, <2>6, Zenon
    <3>2. PICK p \in Nat, q \in Nat, r \in Nat :
                  p = e[i] /\ q = e[j] /\ r = e[k] /\ p >= r /\ q >= r
      BY <1>5, <2>4, Zenon
    <3>3. p + q <= x /\ x <= M /\ p >= r /\ q >= r /\ x \in Nat
      BY <3>1, <3>2, Zenon
    <3>4. ~ (p + r > M) /\ ~ (q + r > M)
      BY <3>3
    <3>5. QED  BY <3>2, <3>4, Zenon
  <2>8. QED  BY <1>1, <2>1, <2>7
<1>7. PICK s : s = Loads(c, b, m, n, k)[w] /\ s \in Nat
  BY <1>2, ShareEnds
<1>8. SUFFICES ASSUME s > 2  PROVE FALSE
  BY <1>1, <1>7
<1>9. PICK l \in 1 .. k : Latest(c, b, m, n, k, w, l)
  <2>1. c \in [1 .. n -> Nat] /\ Loads(c, b, m, n, k)[w] > 0
    BY <1>7, <1>8
  <2>2. QED  BY <1>2, <2>1, ShareEnds
<1>10. l \in 1 .. n /\ l - 1 \in 0 .. n /\ b[l] = w /\ c[l] \in {1, 2}
  BY <1>3, <1>9 DEF Latest
<1>11. PICK t : t = Loads(c, b, m, n, l - 1)[w] /\ t \in Nat /\ s = t + c[l]
  <2>1. Loads(c, b, m, n, l - 1)[w] \in Nat
    BY <1>2, <1>10, ShareEnds
  <2>2. s = Loads(c, b, m, n, l - 1)[w] + c[l]
    BY <1>7, <1>9 DEF Latest
  <2>3. QED  BY <2>1, <2>2
<1>12. t > 0
  BY <1>8, <1>10, <1>11
<1>13. PICK j \in 1 .. l - 1 : Latest(c, b, m, n, l - 1, w, j)
  BY <1>2, <1>10, <1>11, <1>12, ShareEnds
<1>14. j \in 1 .. k /\ j \in 1 .. n /\ j - 1 \in 0 .. n /\ b[j] = w
  BY <1>10, <1>13 DEF Latest
<1>15. c[j] = 1 /\ c[l] = 1
  BY <1>6, <1>10, <1>14
<1>16. PICK r : r = Loads(c, b, m, n, j - 1)[w] /\ r \in Nat /\ t = r + c[j]
  <2>1. Loads(c, b, m, n, j - 1)[w] \in Nat
    BY <1>2, <1>14, ShareEnds
  <2>2. t = Loads(c, b, m, n, j - 1)[w] + c[j]
    BY <1>11, <1>13 DEF Latest
  <2>3. QED  BY <2>1, <2>2
<1>17. r > 0
  BY <1>8, <1>11, <1>15, <1>16
<1>18. PICK i \in 1 .. j - 1 : Latest(c, b, m, n, j - 1, w, i)
  BY <1>2, <1>14, <1>16, <1>17, ShareEnds
<1>19. i \in 1 .. k /\ i \in 1 .. n /\ b[i] = w
  BY <1>14, <1>18 DEF Latest
<1>20. e[i] + e[j] + e[l] <= Loads(e, b, m, n, n)[b[l]]
  <2>1. n \in 0 .. n /\ l \in 1 .. n /\ j \in 1 .. l - 1 /\ i \in 1 .. j - 1
    BY <1>10
  <2>2. b[i] = b[l] /\ b[j] = b[l]
    BY <1>10, <1>14, <1>19
  <2>3. QED  BY <1>2, <2>1, <2>2, ThreeFit
<1>21. PICK x : x = Loads(e, b, m, n, n)[b[l]] /\ x \in Nat
  BY <1>2, <1>10, n \in 0 .. n, ShareEnds
<1>22. x <= M /\ e[i] + e[j] + e[l] <= x
  BY <1>4, <1>10, <1>20, <1>21
<1>23. /\ e[i] \in Nat /\ e[j] \in Nat /\ e[l] \in Nat
       /\ e[i] >= e[k] /\ e[j] >= e[k] /\ e[l] >= e[k]
  BY <1>3, <1>14, <1>19
<1>24. PICK p \in Nat, q \in Nat, o \in Nat, u \in Nat :
            /\ p = e[i] /\ q = e[j] /\ o = e[l] /\ u = e[k]
            /\ p >= u /\ q >= u /\ o >= u
  BY <1>5, <1>23, Zenon
<1>25. p + q + o <= x /\ x <= M /\ x \in Nat /\ 3 * u > M /\ p >= u /\ q >= u /\ o >= u
  BY <1>21, <1>22, <1>24, Zenon
<1>26. QED  BY <1>25

(* So a number that is larger than a third of M still fits where it goes.    *)
LEMMA LargeFits ==
    ASSUME NEW n \in Nat, NEW m \in Nat, NEW e, Falling(e, n), NEW a, ToLeast(e, a, m, n),
           NEW M \in Nat, NEW b, Fits(e, b, m, n, M), NEW k \in 1 .. n, 3 * e[k] > M, e[k] <= M
    PROVE  ~ (Loads(e, a, m, n, k - 1)[a[k]] + e[k] > M)
<1>1. SUFFICES ASSUME Loads(e, a, m, n, k - 1)[a[k]] + e[k] > M  PROVE FALSE
  OBVIOUS
<1>2. PICK c \in [1 .. n -> Nat] :
              c = Weights(e, n, k, M) /\ \A i \in 1 .. n : c[i] \in {1, 2}
  BY WeightsType
<1>3. a \in [1 .. n -> 1 .. m] /\ b \in [1 .. n -> 1 .. m]
  BY DEF ToLeast, Fits
<1>4. k \in 0 .. n /\ k - 1 \in 0 .. n
  OBVIOUS
<1>5. PICK u : u = Loads(c, a, m, n, k - 1) /\ u \in [1 .. m -> Nat]
  BY <1>3, <1>4, ShareSums
<1>6. PICK v : v = Loads(c, b, m, n, k) /\ v \in [1 .. m -> Nat]
  BY <1>3, <1>4, ShareSums
<1>7. PICK g : g = Partial(u, m) /\ Adds(g, u, m)
  BY <1>5, PartialSums
<1>8. PICK h : h = Partial(v, m) /\ Adds(h, v, m)
  BY <1>6, PartialSums
<1>9. g[m] >= m * 2
  <2>1. \A w \in 1 .. m : u[w] >= 2
    BY <1>1, <1>2, <1>5, Crowded
  <2>2. Adds(g, u, m)
    BY <1>7
  <2>3. QED  BY <2>1, <2>2, SumsAtLeast
<1>10. h[m] <= m * 2
  <2>1. \A w \in 1 .. m : v[w] <= 2
    BY <1>2, <1>6, Roomy
  <2>2. Adds(h, v, m)
    BY <1>8
  <2>3. QED  BY <2>1, <2>2, SumsAtMost
<1>11. PICK f : f = Partial(c, n) /\ Adds(f, c, n)
  BY <1>2, PartialSums
<1>12. g[m] = f[k - 1]
  <2>1. Partial(Loads(c, a, m, n, k - 1), m)[m] = Partial(c, n)[k - 1]
    BY <1>3, <1>4, LoadsTotal
  <2>2. QED  BY <1>5, <1>7, <1>11, <2>1, Zenon
<1>13. h[m] = f[k]
  <2>1. Partial(Loads(c, b, m, n, k), m)[m] = Partial(c, n)[k]
    BY <1>3, <1>4, LoadsTotal
  <2>2. QED  BY <1>6, <1>8, <1>11, <2>1, Zenon
<1>14. f[k] = f[k - 1] + c[k] /\ f[k - 1] \in Nat /\ c[k] \in {1, 2}
  <2>1. Adds(f, c, n)
    BY <1>11
  <2>2. f[k] = f[k - 1] + c[k] /\ f[k - 1] \in Nat
    BY <1>4, <2>1 DEF Adds
  <2>3. QED  BY <1>2, <2>2
<1>15. f[k - 1] >= m * 2 /\ f[k] <= m * 2
  BY <1>9, <1>10, <1>12, <1>13, Zenon
<1>16. QED  BY <1>14, <1>15

(* The least is at most the average of what is dealt out.                    *)
LEMMA LeastIsAverage ==
    ASSUME NEW n \in Nat, NEW m \in Nat, NEW e, Falling(e, n), NEW a, ToLeast(e, a, m, n),
           NEW M \in Nat, NEW b, Fits(e, b, m, n, M), NEW k \in 1 .. n
    PROVE  m * Loads(e, a, m, n, k - 1)[a[k]] + e[k] <= m * M
<1>1. a \in [1 .. n -> 1 .. m] /\ b \in [1 .. n -> 1 .. m] /\ e \in [1 .. n -> Nat]
  BY DEF ToLeast, Fits, Falling
<1>2. k \in 0 .. n /\ k - 1 \in 0 .. n /\ n \in 0 .. n /\ k \in 0 .. n
  OBVIOUS
<1>3. PICK u : u = Loads(e, a, m, n, k - 1) /\ u \in [1 .. m -> Nat]
  BY <1>1, <1>2, ShareSums
<1>4. PICK v : v = Loads(e, b, m, n, n) /\ v \in [1 .. m -> Nat]
  BY <1>1, <1>2, ShareSums
<1>5. PICK l \in Nat : l = u[a[k]]
  BY <1>1, <1>3
<1>6. PICK g : g = Partial(u, m) /\ Adds(g, u, m)
  BY <1>3, PartialSums
<1>7. PICK h : h = Partial(v, m) /\ Adds(h, v, m)
  BY <1>4, PartialSums
<1>8. g[m] >= m * l
  <2>1. \A w \in 1 .. m : u[w] >= l
    <3>1. \A w \in 1 .. m : l <= u[w]
      BY <1>3, <1>5 DEF ToLeast
    <3>2. QED  BY <1>3, <1>5, <3>1
  <2>2. Adds(g, u, m)
    BY <1>6
  <2>3. QED  BY <2>1, <2>2, SumsAtLeast
<1>9. h[m] <= m * M
  <2>1. \A w \in 1 .. m : v[w] <= M
    BY <1>4 DEF Fits
  <2>2. Adds(h, v, m)
    BY <1>7
  <2>3. QED  BY <2>1, <2>2, SumsAtMost
<1>10. PICK f : f = Partial(e, n) /\ Adds(f, e, n)
  BY <1>1, PartialSums
<1>11. g[m] = f[k - 1]
  <2>1. Partial(Loads(e, a, m, n, k - 1), m)[m] = Partial(e, n)[k - 1]
    BY <1>1, <1>2, LoadsTotal
  <2>2. QED  BY <1>3, <1>6, <1>10, <2>1, Zenon
<1>12. h[m] = f[n]
  <2>1. Partial(Loads(e, b, m, n, n), m)[m] = Partial(e, n)[n]
    BY <1>1, <1>2, LoadsTotal
  <2>2. QED  BY <1>4, <1>7, <1>10, <2>1, Zenon
<1>13. f[k] = f[k - 1] + e[k] /\ f[k - 1] \in Nat /\ e[k] \in Nat /\ f[k] <= f[n] /\ f[n] \in Nat
  <2>1. Adds(f, e, n)
    BY <1>10
  <2>2. f[k] = f[k - 1] + e[k] /\ f[k - 1] \in Nat /\ f[n] \in Nat
    BY <1>2, <2>1 DEF Adds
  <2>3. f[k] <= f[n]
    BY <1>2, <2>1, SumsGrow
  <2>4. QED  BY <1>1, <2>2, <2>3
<1>14. PICK p \in Nat, q \in Nat : p = m * l /\ q = m * M
  BY TimesType
<1>15. p <= f[k - 1] /\ f[n] <= q
  <2>1. f[k - 1] >= m * l /\ f[n] <= m * M
    BY <1>8, <1>9, <1>11, <1>12, Zenon
  <2>2. QED  BY <1>13, <1>14, <2>1
<1>16. p + e[k] <= q
  BY <1>13, <1>15
<1>17. QED  BY <1>3, <1>5, <1>14, <1>16, Zenon

LEMMA Thirds ==
    ASSUME NEW m \in Nat, m > 0, NEW l \in Nat, NEW x \in Nat, NEW M \in Nat,
           m * l + x <= m * M, 3 * x <= M \/ l + x <= M
    PROVE  3 * m * (l + x) <= (4 * m - 1) * M
<1>1. PICK d \in Nat : m = d + 1
  <2>1. m - 1 \in Nat /\ m = (m - 1) + 1
    OBVIOUS
  <2>2. QED  BY <2>1
<1>2. PICK p \in Nat, q \in Nat, r \in Nat : p = m * l /\ q = m * M /\ r = m * x
  BY TimesType
<1>3. 3 * m * (l + x) = 3 * p + 3 * r
  BY <1>2
<1>4. (4 * m - 1) * M = 4 * q - M
  BY <1>2
<1>5. q = d * M + M /\ r = d * x + x
  BY <1>1, <1>2
<1>6. CASE 3 * x <= M
  <2>1. PICK s \in Nat, t \in Nat : s = d * x /\ t = d * M
    BY TimesType
  <2>2. 3 * s <= t
    <3>1. (3 * x) * d <= M * d
      BY <1>6, TimesMonotone
    <3>2. (3 * x) * d = 3 * s /\ M * d = t
      BY <2>1
    <3>3. QED  BY <3>1, <3>2
  <2>3. p + x <= q
    BY <1>2
  <2>4. q = t + M /\ r = s + x
    BY <1>5, <2>1
  <2>5. 3 * p + 3 * r <= 4 * q - M
    BY <2>2, <2>3, <2>4
  <2>6. QED  BY <1>3, <1>4, <2>5
<1>7. CASE l + x <= M
  <2>1. p + r <= q
    <3>1. (l + x) * m <= M * m
      BY <1>7, TimesMonotone
    <3>2. (l + x) * m = p + r /\ M * m = q
      BY <1>2
    <3>3. QED  BY <3>1, <3>2
  <2>2. M <= q
    <3>1. d * M \in Nat
      BY TimesType
    <3>2. QED  BY <1>5, <3>1
  <2>3. 3 * p + 3 * r <= 4 * q - M
    BY <2>1, <2>2
  <2>4. QED  BY <1>3, <1>4, <2>3
<1>8. QED  BY <1>6, <1>7

(* Graham's bound: whatever fits under M in some split, none has more than   *)
(* 4/3 - 1/3m of M in this one.                                              *)
LEMMA Graham ==
    ASSUME NEW n \in Nat, NEW m \in Nat, m > 0, NEW e, Falling(e, n), NEW a, ToLeast(e, a, m, n),
           NEW M \in Nat, NEW b, Fits(e, b, m, n, M)
    PROVE  \A w \in 1 .. m : 3 * m * Loads(e, a, m, n, n)[w] <= (4 * m - 1) * M
<1> DEFINE Bounded(x) == 3 * m * x <= (4 * m - 1) * M
           S == {k \in 0 .. n : \A w \in 1 .. m : Bounded(Loads(e, a, m, n, k)[w])}
<1>1. a \in [1 .. n -> 1 .. m] /\ b \in [1 .. n -> 1 .. m] /\ e \in [1 .. n -> Nat]
  BY DEF ToLeast, Fits, Falling
<1>2. ASSUME NEW l \in Nat, NEW x \in Nat, m * l + x <= m * M, 3 * x <= M \/ l + x <= M
      PROVE  Bounded(l + x)
  BY <1>2, Thirds
<1>3. 0 \in S
  <2>1. ASSUME NEW w \in 1 .. m  PROVE Bounded(Loads(e, a, m, n, 0)[w])
    <3>1. Adds(Partial(Share(e, a, w, n), n), Share(e, a, w, n), n)
      BY <1>1, ShareSums
    <3>2. Partial(Share(e, a, w, n), n)[0] = 0
      BY <3>1, Zenon DEF Adds
    <3>3. Loads(e, a, m, n, 0)[w] = 0
      BY <3>2 DEF Loads
    <3>4. Bounded(0 + 0)
      BY <1>2, TimesType
    <3>5. QED  BY <3>3, <3>4
  <2>2. QED  BY <2>1
<1> HIDE DEF Bounded
<1>4. ASSUME NEW i \in 0 .. n - 1, i \in S  PROVE i + 1 \in S
  <2>1. PICK k \in 1 .. n : k = i + 1 /\ k - 1 = i /\ k \in 0 .. n
    OBVIOUS
  <2>2. PICK u, v : /\ u = Loads(e, a, m, n, k - 1) /\ v = Loads(e, a, m, n, k)
                    /\ Raised(u, v, m, a[k], e[k])
    BY <1>1, LoadsRaised
  <2>3. ASSUME NEW w \in 1 .. m  PROVE Bounded(u[w])
    BY <1>4, <2>1, <2>2
  <2>4. PICK l \in Nat, x \in Nat : l = u[a[k]] /\ x = e[k] /\ a[k] \in 1 .. m
    BY <2>2 DEF Raised
  <2>5. m * l + x <= m * M
    BY <2>2, <2>4, LeastIsAverage
  <2>6. 3 * x <= M \/ l + x <= M
    <3>1. x <= M
      <4>1. /\ Loads(e, b, m, n, k - 1)[b[k]] \in Nat
            /\ Loads(e, b, m, n, n)[b[k]] \in Nat
            /\ Loads(e, b, m, n, k - 1)[b[k]] + e[k] <= Loads(e, b, m, n, n)[b[k]]
        <5>1. n \in 0 .. n /\ b[k] \in 1 .. m
          BY <1>1
        <5>2. QED  BY <1>1, <5>1, ShareGrows
      <4>2. Loads(e, b, m, n, n)[b[k]] <= M
        BY <1>1 DEF Fits
      <4>3. QED  BY <2>4, <4>1, <4>2, SMTT(30)
    <3>2. SUFFICES ASSUME 3 * x > M  PROVE l + x <= M
      OBVIOUS
    <3>3. ~ (Loads(e, a, m, n, k - 1)[a[k]] + e[k] > M)
      <4>1. 3 * e[k] > M /\ e[k] <= M
        BY <2>4, <3>1, <3>2, Zenon
      <4>2. QED  BY <4>1, LargeFits
    <3>4. ~ (l + x > M)
      BY <2>2, <2>4, <3>3, Zenon
    <3>5. QED  BY <3>4
  <2>7. ASSUME NEW w \in 1 .. m  PROVE Bounded(v[w])
    <3>1. CASE w = a[k]
      <4>1. v[w] = l + x
        BY <2>2, <2>4, <3>1 DEF Raised
      <4>2. QED  BY <1>2, <2>5, <2>6, <4>1
    <3>2. CASE w # a[k]
      <4>1. v[w] = u[w]
        BY <2>2, <3>2 DEF Raised
      <4>2. QED  BY <2>3, <4>1
    <3>3. QED  BY <3>1, <3>2
  <2>8. QED  BY <2>1, <2>2, <2>7
<1>5. n \in S
  <2> HIDE DEF S
  <2>1. 0 .. n \subseteq S
    BY <1>3, <1>4, UpTo
  <2>2. n \in 0 .. n
    OBVIOUS
  <2>3. QED  BY <2>1, <2>2, Zenon
<1>6. QED  BY <1>5 DEF Bounded

-----------------------------------------------------------------------------
(* The bound of the batches *)

\* The estimates of the tests at some places of s.
Estimates(s, places, n) ==
    [i \in 1 .. n |-> IF i \in places THEN Estimate(s[i]) ELSE 0]

LEMMA TotalIs ==
    ASSUME NEW s \in Seq(Tests), \A t \in Tests : Estimate(t) \in Nat,
           NEW places, NEW n \in Nat, n = Len(s)
    PROVE  /\ Estimates(s, places, n) \in [1 .. n -> Nat]
           /\ \A g : Adds(g, Estimates(s, places, n), n) => Total(s, places) = g[n]
           /\ Total(s, places) \in Nat
<1> DEFINE f == Estimates(s, places, n)
           Rec(g) == [i \in 0 .. n |->
                         IF i = 0 THEN 0
                         ELSE g[i - 1] + IF i \in places THEN Estimate(s[i]) ELSE 0]
<1>1. \A i \in 1 .. n : f[i] = IF i \in places THEN Estimate(s[i]) ELSE 0
  BY DEF Estimates
<1>2. f \in [1 .. n -> Nat]
  <2>1. \A i \in 1 .. n : s[i] \in Tests
    BY ElementOfSeq
  <2>2. QED  BY <2>1 DEF Estimates
<1> HIDE DEF f
<1>3. ASSUME NEW g, Adds(g, f, n)  PROVE g = Rec(g)
  <2>1. \A i \in 0 .. n : g[i] = Rec(g)[i]
    BY <1>1, <1>3 DEF Adds
  <2>2. g = [i \in 0 .. n |-> g[i]] /\ Rec(g) = [i \in 0 .. n |-> Rec(g)[i]]
    BY <1>3 DEF Adds
  <2>3. QED  BY <2>1, <2>2
<1>4. PICK g0 : Adds(g0, f, n)
  BY <1>2, SumsExist
<1>5. PICK h : h = (CHOOSE k : k = Rec(k)) /\ h = Rec(h)
  <2> HIDE DEF Rec
  <2>1. QED  BY <1>3, <1>4
<1>6. Total(s, places) = h[n]
  BY <1>5 DEF Total
<1>7. h[0] = 0 /\ \A i \in 1 .. n : h[i] = h[i - 1] + f[i]
  <2>1. \A i \in 0 .. n : h[i] = IF i = 0 THEN 0
                                 ELSE h[i - 1] + IF i \in places THEN Estimate(s[i]) ELSE 0
    BY <1>5, Zenon
  <2>2. 0 \in 0 .. n /\ \A i \in 1 .. n : i \in 0 .. n /\ i # 0
    OBVIOUS
  <2>3. QED  BY <1>1, <2>1, <2>2, Zenon
<1> DEFINE S == {i \in 0 .. n : h[i] = g0[i]}
<1>8. 0 .. n \subseteq S
  <2>1. 0 \in S
    BY <1>4, <1>7 DEF Adds
  <2>2. ASSUME NEW i \in 0 .. n - 1, i \in S  PROVE i + 1 \in S
    <3>1. i + 1 \in 1 .. n /\ i + 1 \in 0 .. n /\ (i + 1) - 1 = i /\ h[i] = g0[i]
      BY <2>2
    <3>2. h[i + 1] = h[i] + f[i + 1]
      BY <1>7, <3>1, Zenon
    <3>3. g0[i + 1] = g0[i] + f[i + 1]
      BY <1>4, <3>1, Zenon DEF Adds
    <3>4. QED  BY <3>1, <3>2, <3>3
  <2> HIDE DEF S
  <2>3. QED  BY <2>1, <2>2, UpTo
<1>9. n \in 0 .. n /\ Total(s, places) = g0[n]
  BY <1>6, <1>8
<1>10. ASSUME NEW g, Adds(g, f, n)  PROVE Total(s, places) = g[n]
  BY <1>4, <1>9, <1>10, SumsUnique
<1>11. Total(s, places) \in Nat
  BY <1>4, <1>9 DEF Adds
<1>12. QED  BY <1>2, <1>10, <1>11 DEF f

LEMMA TakesTotal ==
    ASSUME NEW s \in Seq(Tests), \A t \in Tests : Estimate(t) \in Nat,
           NEW total, Takes(s, total)
    PROVE  Total(s, DOMAIN s) = total
<1>1. PICK n \in Nat : n = Len(s) /\ DOMAIN s = 1 .. n
  BY LenProperties
<1>2. PICK g \in [0 .. n -> Nat] :
              /\ g[0] = 0 /\ g[n] = total
              /\ \A i \in 1 .. n : g[i] = g[i - 1] + Estimate(s[i])
  BY <1>1 DEF Takes
<1>3. PICK f : f = Estimates(s, DOMAIN s, n) /\ f \in [1 .. n -> Nat]
  BY <1>1, TotalIs
<1>4. \A i \in 1 .. n : f[i] = Estimate(s[i])
  BY <1>1, <1>3 DEF Estimates
<1>5. Adds(g, f, n)
  BY <1>2, <1>3, <1>4 DEF Adds
<1>6. QED  BY <1>1, <1>2, <1>3, <1>5, TotalIs

\* In the order pi the tests of r have the estimates e and go to b.
Reorders(pi, e, b, r, to, m, n) ==
    /\ r \in Seq(Tests) /\ n = Len(r) /\ to \in [1 .. n -> 1 .. m]
    /\ Permutes(pi, n)
    /\ e \in [1 .. n -> Nat] /\ \A i \in 1 .. n : e[i] = Estimate(r[pi[i]])
    /\ b \in [1 .. n -> 1 .. m] /\ \A i \in 1 .. n : b[i] = to[pi[i]]

PlacesOf(r, to, w) == {i \in DOMAIN r : to[i] = w}

(* What a worker of a split of r has is the total of its places, in whatever *)
(* order its tests are counted.                                              *)
LEMMA ShareTotal ==
    ASSUME \A t \in Tests : Estimate(t) \in Nat, NEW n \in Nat, NEW m \in Nat,
           NEW r, NEW to, NEW pi, NEW e, NEW b, Reorders(pi, e, b, r, to, m, n), NEW w \in 1 .. m
    PROVE  Loads(e, b, m, n, n)[w] = Total(r, PlacesOf(r, to, w))
<1> DEFINE places == PlacesOf(r, to, w)
<1> r \in Seq(Tests) /\ n = Len(r) /\ to \in [1 .. n -> 1 .. m]
  BY DEF Reorders
<1>1. DOMAIN r = 1 .. n
  BY LenProperties
<1>2. \A i \in 1 .. n : i \in places <=> to[i] = w
  BY <1>1 DEF PlacesOf
<1> HIDE DEF places
<1>3. PICK f : f = Estimates(r, places, n) /\ f \in [1 .. n -> Nat]
  BY TotalIs
<1>4. \A i \in 1 .. n : f[i] = IF to[i] = w THEN Estimate(r[i]) ELSE 0
  BY <1>2, <1>3 DEF Estimates
<1>5. Permutes(pi, n) /\ \A i \in 1 .. n : pi[i] \in 1 .. n
  BY DEF Reorders, Permutes
<1>6. PICK d \in [1 .. n -> Nat] : d = Share(e, b, w, n) /\ \A i \in 1 .. n : d[i] = f[pi[i]]
  <2>1. \A i \in 1 .. n : (IF b[i] = w THEN e[i] ELSE 0) = f[pi[i]]
    BY <1>4, <1>5 DEF Reorders
  <2>2. Share(e, b, w, n) \in [1 .. n -> Nat]
    <3>1. e \in [1 .. n -> Nat] /\ b \in [1 .. n -> 1 .. m]
      BY DEF Reorders
    <3>2. QED  BY <3>1, ShareSums
  <2>3. QED  BY <2>1, <2>2 DEF Share
<1>7. Partial(Share(e, b, w, n), n)[n] = Partial(f, n)[n]
  <2>1. Partial(d, n)[n] = Partial(f, n)[n]
    <3>1. Shuffles(pi, f, d, n)
      BY <1>3, <1>5, <1>6, Zenon DEF Shuffles
    <3>2. QED  BY <3>1, SumsPermuted
  <2>2. QED  BY <1>6, <2>1, Zenon
<1>8. Total(r, places) = Partial(f, n)[n]
  <2>1. Adds(Partial(f, n), f, n)
    BY <1>3, PartialSums
  <2>2. QED  BY <1>3, <2>1, TotalIs
<1>9. Loads(e, b, m, n, n)[w] = Partial(Share(e, b, w, n), n)[n]
  BY DEF Loads
<1>10. QED  BY <1>7, <1>8, <1>9 DEF places

(* The loop of split_balanced deals the estimates out, each to one of those  *)
(* that have the least.                                                      *)
LEMMA AssignedLoads ==
    ASSUME NEW m \in Nat, m > 0, NEW s \in Seq(Tests), \A t \in Tests : Estimate(t) \in Nat,
           NEW n \in Nat, n = Len(s), NEW e \in [1 .. n -> Nat],
           \A i \in 1 .. n : e[i] = Estimate(s[i])
    PROVE  \E a : ToLeast(e, a, m, n) /\ Assigned(s, m).load = Loads(e, a, m, n, n)
<1>1. PICK f \in [0 .. n -> Splits(m)] : Assigning(s, m, n, f) /\ Assigned(s, m) = f[n]
  BY AssignedSteps
<1>2. \A i \in 0 .. n : f[i] \in Splits(m) /\ f[i].load \in [1 .. m -> Nat]
  BY <1>1 DEF Splits
<1> DEFINE a == [k \in 1 .. n |-> Lightest(f[k - 1].load)]
           S == {k \in 0 .. n : \A w \in 1 .. m : f[k].load[w] = Loads(e, a, m, n, k)[w]}
<1>3. ASSUME NEW k \in 1 .. n
      PROVE  /\ a[k] = Lightest(f[k - 1].load) /\ a[k] \in 1 .. m
             /\ \A w \in 1 .. m : f[k - 1].load[a[k]] <= f[k - 1].load[w]
  <2>1. k - 1 \in 0 .. n
    OBVIOUS
  <2>2. QED  BY <1>2, <2>1, LightestIsOne
<1>4. a \in [1 .. n -> 1 .. m]
  BY <1>3
<1> HIDE DEF a
<1>5. 0 \in S
  <2>1. ASSUME NEW w \in 1 .. m  PROVE Loads(e, a, m, n, 0)[w] = 0
    <3>1. Adds(Partial(Share(e, a, w, n), n), Share(e, a, w, n), n)
      BY <1>4, ShareSums
    <3>2. Partial(Share(e, a, w, n), n)[0] = 0
      BY <3>1, Zenon DEF Adds
    <3>3. QED  BY <3>2 DEF Loads
  <2>2. \A w \in 1 .. m : f[0].load[w] = 0
    BY <1>1 DEF Assigning, NoSplit
  <2>3. QED  BY <2>1, <2>2
<1>6. ASSUME NEW i \in 0 .. n - 1, i \in S  PROVE i + 1 \in S
  <2>1. PICK k \in 1 .. n : k = i + 1 /\ k - 1 = i /\ k \in 0 .. n /\ i \in 0 .. n
    OBVIOUS
  <2>2. PICK u, v : /\ u = Loads(e, a, m, n, k - 1) /\ v = Loads(e, a, m, n, k)
                    /\ Raised(u, v, m, a[k], e[k])
    BY <1>4, LoadsRaised
  <2>3. PICK load \in [1 .. m -> Nat] : load = f[i].load
    BY <1>2, <2>1
  <2>4. f[k].load = [load EXCEPT ![a[k]] = @ + e[k]]
    <3>1. f[k] = Assign(f[i], s[k])
      BY <1>1, <2>1 DEF Assigning
    <3>2. a[k] = Lightest(load) /\ e[k] = Estimate(s[k])
      BY <1>3, <2>1, <2>3
    <3>3. QED  BY <2>3, <3>1, <3>2 DEF Assign
  <2>5. \A w \in 1 .. m : load[w] = u[w]
    BY <1>6, <2>1, <2>2, <2>3
  <2>6. ASSUME NEW w \in 1 .. m  PROVE f[k].load[w] = v[w]
    <3>1. CASE w = a[k]
      BY <2>2, <2>4, <2>5, <3>1 DEF Raised
    <3>2. CASE w # a[k]
      BY <2>2, <2>4, <2>5, <3>2 DEF Raised
    <3>3. QED  BY <3>1, <3>2
  <2>7. QED  BY <2>1, <2>2, <2>6
<1>7. \A k \in 0 .. n, w \in 1 .. m : f[k].load[w] = Loads(e, a, m, n, k)[w]
  <2>1. 0 .. n \subseteq S
    <3> HIDE DEF S
    <3>1. QED  BY <1>5, <1>6, UpTo
  <2>2. QED  BY <2>1
<1>8. ToLeast(e, a, m, n)
  <2>1. ASSUME NEW k \in 1 .. n, NEW w \in 1 .. m
        PROVE  Loads(e, a, m, n, k - 1)[a[k]] <= Loads(e, a, m, n, k - 1)[w]
    <3>1. k - 1 \in 0 .. n /\ a[k] \in 1 .. m
      BY <1>3
    <3>2. f[k - 1].load[a[k]] <= f[k - 1].load[w]
      BY <1>3
    <3>3. QED  BY <1>7, <3>1, <3>2, Zenon
  <2>2. QED  BY <1>4, <2>1, Zenon DEF ToLeast
<1>9. Assigned(s, m).load = Loads(e, a, m, n, n)
  <2>1. n \in 0 .. n
    OBVIOUS
  <2>2. Loads(e, a, m, n, n) \in [1 .. m -> Nat] /\ f[n].load \in [1 .. m -> Nat]
    BY <1>2, <1>4, <2>1, ShareSums
  <2>3. f[n].load = Loads(e, a, m, n, n)
    <3>1. PICK u, v : /\ u = f[n].load /\ v = Loads(e, a, m, n, n)
                      /\ u \in [1 .. m -> Nat] /\ v \in [1 .. m -> Nat]
      BY <2>2
    <3>2. \A w \in 1 .. m : u[w] = v[w]
      BY <1>7, <2>1, <3>1, Zenon
    <3>3. u = [w \in 1 .. m |-> u[w]] /\ v = [w \in 1 .. m |-> v[w]]
      BY <3>1
    <3>4. [w \in 1 .. m |-> u[w]] = [w \in 1 .. m |-> v[w]]
      BY <3>2
    <3>5. u = v
      BY <3>3, <3>4, Zenon
    <3>6. QED  BY <3>1, <3>5, Zenon
  <2>4. QED  BY <1>1, <2>3
<1>10. QED  BY <1>8, <1>9

\* One of some numbers is the largest.
LEMMA MostIsOne ==
    ASSUME NEW m \in Nat, m > 0, NEW f \in [1 .. m -> Nat]
    PROVE  \E w \in 1 .. m : \A v \in 1 .. m : f[v] <= f[w]
<1> DEFINE Most(k) == \E w \in 1 .. k : \A v \in 1 .. k : f[v] <= f[w]
           S == {k \in 0 .. m : k = 0 \/ Most(k)}
<1>1. 0 \in S
  OBVIOUS
<1>2. ASSUME NEW i \in 0 .. m - 1, i \in S  PROVE i + 1 \in S
  <2>1. i + 1 \in 1 .. m /\ i + 1 \in 0 .. m /\ \A v \in 1 .. i : v \in 1 .. m /\ v \in 1 .. i + 1
    OBVIOUS
  <2>2. \A v \in 1 .. i + 1 : v = i + 1 \/ v \in 1 .. i
    OBVIOUS
  <2>3. ASSUME NEW w \in 1 .. i + 1, f[i + 1] <= f[w], \A v \in 1 .. i : f[v] <= f[w]
        PROVE  Most(i + 1)
    BY <2>2, <2>3
  <2>4. CASE i = 0
    <3>1. i + 1 \in 1 .. i + 1 /\ f[i + 1] <= f[i + 1] /\ \A v \in 1 .. i : f[v] <= f[i + 1]
      BY <2>1, <2>4
    <3>2. QED  BY <2>1, <2>3, <3>1
  <2>5. CASE i # 0
    <3>1. PICK w \in 1 .. i : \A v \in 1 .. i : f[v] <= f[w]
      BY <1>2, <2>5
    <3>2. f[w] \in Nat /\ f[i + 1] \in Nat /\ \A v \in 1 .. i : f[v] \in Nat
      BY <2>1
    <3>3. CASE f[i + 1] <= f[w]
      BY <2>1, <2>3, <3>1, <3>3
    <3>4. CASE f[w] <= f[i + 1]
      <4>1. \A v \in 1 .. i : f[v] <= f[i + 1]
        BY <3>1, <3>2, <3>4
      <4>2. i + 1 \in 1 .. i + 1 /\ f[i + 1] <= f[i + 1]
        BY <3>2
      <4>3. QED  BY <2>1, <2>3, <4>1, <4>2
    <3>5. QED  BY <3>2, <3>3, <3>4
  <2>6. QED  BY <2>4, <2>5
<1>3. m \in S
  <2> HIDE DEF S
  <2>1. 0 .. m \subseteq S
    BY <1>1, <1>2, UpTo
  <2>2. m \in 0 .. m
    OBVIOUS
  <2>3. QED  BY <2>1, <2>2, Zenon
<1>4. QED  BY <1>3

\* In the split to some worker is so busy that no batch takes more than the
\* bound allows.
Bounded(batch, r, m, to) ==
    \E w \in 1 .. m :
        3 * m * Total(batch, DOMAIN batch)
            <= (4 * m - 1) * Total(r, PlacesOf(r, to, w))

LEMMA SplitBounded ==
    ASSUME NEW r \in Seq(Tests), r # <<>>, \A t \in Tests : Estimate(t) \in Nat,
           NEW m \in Nat, m >= 2, NEW to \in [DOMAIN r -> 1 .. m]
    PROVE  \A j \in DOMAIN SplitBalanced(r, m) : Bounded(SplitBalanced(r, m)[j], r, m, to)
<1> DEFINE key == [t \in Tests |-> Estimate(t)]
           s == Descending(r, key)
           all == Assigned(s, m).batches
           load == Assigned(s, m).load
           bs == Without(all, {<<>>})
<1>1. bs = SplitBalanced(r, m)
  <2>1. ~ (m <= 1 \/ r = <<>>)
    OBVIOUS
  <2>2. QED  BY <2>1 DEF SplitBalanced
<1>2. key \in [Tests -> Int] /\ m > 0 /\ \A t \in Tests : key[t] = Estimate(t)
  OBVIOUS
<1> HIDE DEF key
<1>3. PICK n \in Nat : n = Len(r) /\ DOMAIN r = 1 .. n /\ n > 0
  BY LenProperties, EmptySeq
<1>4. s \in Seq(Tests) /\ Len(s) = n
  BY <1>2, <1>3, Sorts
<1>5. PICK pi : /\ Permutes(pi, n) /\ \A i \in 1 .. n : s[i] = r[pi[i]]
                /\ \A i, j \in 1 .. n : i < j => Precedes(r, key, pi[i], pi[j])
  <2>1. \E pi : /\ Permutes(pi, Len(r))
                /\ \A i \in 1 .. Len(r) : Descending(r, key)[i] = r[pi[i]]
                /\ \A i, j \in 1 .. Len(r) : i < j => Precedes(r, key, pi[i], pi[j])
    BY <1>2, Sorts, Zenon
  <2>2. QED  BY <1>3, <2>1, Zenon
<1> HIDE DEF s
<1>6. \A i \in 1 .. n : pi[i] \in 1 .. n /\ r[pi[i]] \in Tests /\ s[i] \in Tests
  <2>1. \A i \in 1 .. n : pi[i] \in 1 .. n
    BY <1>5, Zenon DEF Permutes
  <2>2. \A i \in 1 .. n : r[i] \in Tests
    BY <1>3, ElementOfSeq
  <2>3. QED  BY <1>5, <2>1, <2>2, Zenon
<1> DEFINE e == [i \in 1 .. n |-> Estimate(s[i])]
           b == [i \in 1 .. n |-> to[pi[i]]]
<1>7. /\ e \in [1 .. n -> Nat] /\ \A i \in 1 .. n : e[i] = Estimate(s[i])
      /\ b \in [1 .. n -> 1 .. m] /\ \A i \in 1 .. n : b[i] = to[pi[i]]
  BY <1>3, <1>6
<1> HIDE DEF e, b
<1>8. Falling(e, n)
  <2>1. ASSUME NEW i \in 1 .. n, NEW j \in 1 .. n, i <= j  PROVE e[j] <= e[i]
    <3>1. e[i] \in Nat /\ e[j] \in Nat
      BY <1>7
    <3>2. CASE i = j
      BY <3>1, <3>2
    <3>3. CASE i < j
      <4>1. key[r[pi[i]]] > key[r[pi[j]]] \/ key[r[pi[i]]] = key[r[pi[j]]]
        BY <1>5, <3>3, Zenon DEF Precedes
      <4>2. key[r[pi[i]]] = e[i] /\ key[r[pi[j]]] = e[j]
        <5>1. \A k \in 1 .. n : key[r[pi[k]]] = Estimate(r[pi[k]])
          BY <1>2, <1>6, Zenon
        <5>2. \A k \in 1 .. n : e[k] = Estimate(r[pi[k]])
          BY <1>5, <1>7, Zenon
        <5>3. QED  BY <5>1, <5>2, Zenon
      <4>3. QED  BY <3>1, <4>1, <4>2
    <3>4. QED  BY <2>1, <3>2, <3>3
  <2>2. QED  BY <1>7, <2>1 DEF Falling
<1>9. PICK a : ToLeast(e, a, m, n) /\ load = Loads(e, a, m, n, n)
  BY <1>2, <1>4, <1>7, AssignedLoads
<1> DEFINE total == [w \in 1 .. m |-> Total(r, PlacesOf(r, to, w))]
<1>10. total \in [1 .. m -> Nat] /\ \A w \in 1 .. m : total[w] = Total(r, PlacesOf(r, to, w))
  <2>1. \A places : Total(r, places) \in Nat
    BY <1>3, TotalIs
  <2>2. QED  BY <2>1
<1> HIDE DEF total
<1>11. PICK w \in 1 .. m : \A v \in 1 .. m : total[v] <= total[w]
  BY <1>2, <1>10, MostIsOne
<1>12. Fits(e, b, m, n, total[w])
  <2>1. ASSUME NEW v \in 1 .. m  PROVE Loads(e, b, m, n, n)[v] = total[v]
    <3>1. to \in [1 .. n -> 1 .. m] /\ \A i \in 1 .. n : e[i] = Estimate(r[pi[i]])
      BY <1>3, <1>5, <1>7, ZenonT(30)
    <3>2. Reorders(pi, e, b, r, to, m, n)
      BY <1>3, <1>5, <1>7, <3>1, Zenon DEF Reorders
    <3>3. Loads(e, b, m, n, n)[v] = Total(r, PlacesOf(r, to, v))
      BY <3>2, ShareTotal
    <3>4. QED  BY <1>10, <3>3
  <2>2. \A v \in 1 .. m : Loads(e, b, m, n, n)[v] <= total[w]
    BY <1>11, <2>1, Zenon
  <2>3. QED  BY <1>7, <2>2, Zenon DEF Fits
<1>13. \A v \in 1 .. m : 3 * m * load[v] <= (4 * m - 1) * total[w]
  <2>1. total[w] \in Nat
    BY <1>10
  <2>2. \A v \in 1 .. m : 3 * m * Loads(e, a, m, n, n)[v] <= (4 * m - 1) * total[w]
    BY <1>2, <1>8, <1>9, <1>12, <2>1, Graham
  <2>3. QED  BY <1>9, <2>2, Zenon
<1>14. PICK high \in Nat : \A i \in 1 .. n : Estimate(s[i]) <= high
  <2>1. 1 \in 1 .. n /\ e[1] \in Nat /\ \A i \in 1 .. n : 1 <= i
    BY <1>3, <1>7
  <2>2. \A i \in 1 .. n : e[i] <= e[1]
    BY <1>8, <2>1, Zenon DEF Falling
  <2>3. QED  BY <1>7, <2>1, <2>2
<1>15. Assigned(s, m) \in Splits(m) /\ Even(all, load, m, high)
  BY <1>2, <1>4, <1>14, AssignedEven
<1>16. all \in [1 .. m -> Seq(Tests)]
  BY <1>15 DEF Splits
<1>17. \A v \in 1 .. m : Takes(all[v], load[v])
  BY <1>15, Zenon DEF Even
<1> HIDE DEF all, load
<1>18. all \in Seq(Seq(Tests)) /\ Len(all) = m
  BY <1>16, FunctionSeq
<1>19. PICK c \in Nat : c = Len(bs) /\ DOMAIN bs = 1 .. c
  <2>1. bs \in Seq(Seq(Tests))
    BY <1>18, WithoutPlaces
  <2> HIDE DEF bs
  <2>2. QED  BY <2>1, LenProperties
<1>20. PICK q \in [1 .. c -> Nat] : \A j \in 1 .. c : q[j] \in 1 .. m /\ bs[j] = all[q[j]]
  <2>1. \E q \in [1 .. Len(bs) -> Nat] : Places(q, bs, all, {<<>>}, m)
    BY <1>18, WithoutPlaces
  <2> HIDE DEF bs
  <2>2. QED  BY <1>19, <2>1 DEF Places
<1> HIDE DEF bs
<1>21. ASSUME NEW j \in 1 .. c  PROVE Bounded(bs[j], r, m, to)
  <2>1. PICK v \in 1 .. m : bs[j] = all[v]
    BY <1>20
  <2>2. Total(bs[j], DOMAIN bs[j]) = load[v]
    <3>1. all[v] \in Seq(Tests) /\ Takes(all[v], load[v])
      BY <1>16, <1>17
    <3>2. Total(all[v], DOMAIN all[v]) = load[v]
      BY <3>1, TakesTotal
    <3>3. QED  BY <2>1, <3>2, Zenon
  <2>3. total[w] = Total(r, PlacesOf(r, to, w))
    BY <1>10
  <2>4. QED  BY <1>13, <2>2, <2>3, Zenon DEF Bounded
<1>22. QED  BY <1>1, <1>19, <1>21, Zenon

(* The longest batch takes at most 4/3 - 1/3n of what it would in the best   *)
(* split between n workers, and in any other: for every request, with its    *)
(* repetitions, every number of workers and every history the estimates come *)
(* from (scheduler.rs:121-158).                                              *)
THEOREM GreedyBoundInvariance == SchedSpec => []GreedyBound
<1>1. ASSUME SchedInv, NEW r \in Requests, NEW m \in 2 .. MaxWorkers,
             NEW to \in [DOMAIN r -> 1 .. m]
      PROVE  \A j \in DOMAIN SplitBalanced(r, m) : Bounded(SplitBalanced(r, m)[j], r, m, to)
  <2>1. r \in Seq(Tests) /\ m \in Nat /\ m >= 2
    BY SchedulerAssumption
  <2>2. \A t \in Tests : Estimate(t) \in Nat
    BY <1>1, EstimatesType DEF SchedInv
  <2>3. CASE r # <<>>
    BY <2>1, <2>2, <2>3, SplitBounded
  <2>4. CASE r = <<>>
    <3>1. SplitBalanced(r, m) = <<r>>
      BY <2>4 DEF SplitBalanced
    <3>2. PICK x : x = Total(r, PlacesOf(r, to, 1)) /\ x \in Nat
      <4>1. PICK n \in Nat : n = Len(r)
        BY <2>1
      <4>2. \A places : Total(r, places) \in Nat
        BY <2>1, <2>2, <4>1, TotalIs
      <4>3. QED  BY <4>2, Zenon
    <3>3. Total(r, DOMAIN r) = 0
      BY <2>1, <2>2, <2>4, TakesNothing, TakesTotal
    <3>4. 3 * m * 0 <= (4 * m - 1) * x
      <4>1. 4 * m - 1 \in Nat
        BY <2>1
      <4>2. (4 * m - 1) * x \in Nat
        BY <3>2, <4>1, TimesType
      <4>3. QED  BY <2>1, <4>2
    <3>5. 1 \in 1 .. m
      BY <2>1
    <3>6. Bounded(r, r, m, to)
      BY <3>2, <3>3, <3>4, <3>5, Zenon DEF Bounded
    <3>7. DOMAIN SplitBalanced(r, m) = 1 .. 1 /\ SplitBalanced(r, m)[1] = r
      BY <3>1
    <3>8. \A j \in 1 .. 1 : j = 1
      OBVIOUS
    <3>9. QED  BY <3>6, <3>7, <3>8, Zenon
  <2>5. QED  BY <2>3, <2>4
<1>2. SchedInv => GreedyBound
  BY <1>1, Zenon DEF GreedyBound, Bounded, PlacesOf
<1>3. QED  BY <1>2, SchedInvariance, PTL
=============================================================================
