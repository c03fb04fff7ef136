-------------------------------- MODULE Collect --------------------------------
(***************************************************************************)
(* The native collector (rpytest-daemon/src/collector.rs): it finds the    *)
(* test files, parses them in parallel with no Python process, and expands *)
(* the tests over the parameters of the fixtures they use. The threads     *)
(* share one map from fixture names to parameters, and files may be edited *)
(* while they run. A file is what the parser makes of it; which tests it   *)
(* has is a function of that, TestsOf, which Extraction defines.           *)
(***************************************************************************)
EXTENDS Lists, SequencesExt, FiniteSets, TLC

CONSTANTS
    Files,      \* the test files: test_*.py and *_test.py, outside of venvs
    Texts,      \* for each file, what it may hold
    TestsOf(_), \* the tests of a text, before they are expanded
    None        \* text that is not read or not Python, no parameters, no class

FixtureDefs == [name : STRING, params : Seq(STRING) \cup {None}]

\* A test: its class, its name, what is added to its name, and the fixtures of
\* its file among its arguments.
Nodes == [class : STRING \cup {None}, name : STRING, ids : Seq(STRING), uses : SUBSET STRING]

ASSUME CollectAssumption ==
    /\ DOMAIN Texts = Files
    /\ None \notin Seq(FixtureDefs) /\ None \notin Seq(Nodes)
    /\ TestsOf(None) = <<>>
    /\ \A f \in Files : \A t \in Texts[f] \ {None} :
          /\ t.fixtures \in Seq(FixtureDefs)
          /\ TestsOf(t) \in Seq(Nodes)
          /\ \A n \in ToSet(TestsOf(t)) : n.uses \subseteq {x.name : x \in ToSet(t.fixtures)}

VARIABLES
    text,    \* the files on disk
    pc,      \* the collection: "idle", "parsing" or "done"
    params,  \* fixture_params: the parameters by name of the fixture
    read,    \* the text each thread has read
    todo,    \* the fixtures it has yet to look at, None before it has read
    found,   \* the tests it has extracted, None before
    result   \* what the last collection returned

collectVars == <<text, pc, params, read, todo, found, result>>

ForAll(v) == [f \in Files |-> v]

CollectInit ==
    /\ text \in {t \in [Files -> UNION {Texts[f] : f \in Files}] :
                    \A f \in Files : t[f] \in Texts[f]}
    /\ pc = "idle" /\ params = <<>>
    /\ read = ForAll(None) /\ todo = ForAll(None) /\ found = ForAll(None)
    /\ result = ForAll(None)

-----------------------------------------------------------------------------
(* Expansion over the parameters of fixtures *)

Join(strings) == FoldRight(LAMBDA s, rest : IF rest = "" THEN s ELSE s \o "-" \o rest,
                           strings, "")

\* All combinations of a member of each sequence, the last varying fastest.
Crossed(combos, s) ==
    FlattenSeq([i \in DOMAIN combos |-> [j \in DOMAIN s |-> Append(combos[i], s[j])]])

Product(seqs) ==
    LET first[n \in 0 .. Len(seqs)] ==
            IF n = 0 THEN << <<>> >> ELSE Crossed(first[n - 1], seqs[n])
    IN  first[Len(seqs)]

\* The ids a node gets from the parameters of the fixtures it uses, which it
\* meets in the order of the map: the value alone, or all values numbered.
Variants(node, ps, order) ==
    LET used   == Without(order, DOMAIN ps \ node.uses)
        combos == Product([i \in DOMAIN used |-> ps[used[i]]])
        Id(c)  == IF Len(used) = 1 THEN c[1]
                  ELSE Join([i \in DOMAIN c |-> ToString(i) \o "=" \o c[i]])
    IN  IF used = <<>> THEN <<node>>
        ELSE [i \in DOMAIN combos |-> [node EXCEPT !.ids = Append(@, Id(combos[i]))]]

Expanded(nodes, ps, order) ==
    FlattenSeq([i \in DOMAIN nodes |-> Variants(nodes[i], ps, order)])

-----------------------------------------------------------------------------
(* The collection *)

Reset ==
    /\ read' = ForAll(None) /\ todo' = ForAll(None) /\ found' = ForAll(None)
    /\ result' = ForAll(None)
    /\ UNCHANGED text

\* Mutant: the parameters of the collection before are kept.
BeginUncleared == pc # "parsing" /\ pc' = "parsing" /\ Reset /\ UNCHANGED params

\* The files are found and the threads started.
Begin == pc # "parsing" /\ pc' = "parsing" /\ params' = <<>> /\ Reset

\* An entry of a directory cannot be read: the collection fails as a whole.
WalkFails == pc # "parsing" /\ pc' = "idle" /\ params' = <<>> /\ Reset

\* A thread reads its file; one it cannot read or parse has no tests.
Read(f) ==
    /\ pc = "parsing" /\ todo[f] = None
    /\ read' = [read EXCEPT ![f] = text[f]]
    /\ todo' = [todo EXCEPT ![f] = IF text[f] = None THEN <<>> ELSE text[f].fixtures]
    /\ UNCHANGED <<text, pc, params, found, result>>

\* The map with the parameters of a fixture, in the place of others of its name.
Entry(ps, x) == [n \in DOMAIN ps \cup {x.name} |-> IF n = x.name THEN x.params ELSE ps[n]]

\* It looks at its next fixture, and enters its parameters under its name.
Fixture(f) ==
    /\ pc = "parsing" /\ todo[f] # None /\ todo[f] # <<>>
    /\ LET x == Head(todo[f])
       IN  params' = IF x.params = None THEN params ELSE Entry(params, x)
    /\ todo' = [todo EXCEPT ![f] = Tail(@)]
    /\ UNCHANGED <<text, pc, read, found, result>>

Extract(f) ==
    /\ pc = "parsing" /\ todo[f] = <<>> /\ found[f] = None
    /\ found' = [found EXCEPT ![f] = TestsOf(read[f])]
    /\ UNCHANGED <<text, pc, params, read, todo, result>>

\* All threads are done: the tests are expanded, the map being walked in any
\* order.
Expand ==
    /\ pc = "parsing" /\ \A f \in Files : found[f] # None
    /\ \E order \in SetToSeqs(DOMAIN params) :
          result' = [f \in Files |-> Expanded(found[f], params, order)]
    /\ pc' = "done"
    /\ UNCHANGED <<text, params, read, todo, found>>

\* Somebody saves a file.
Edit(f) ==
    /\ \E t \in Texts[f] \ {text[f]} : text' = [text EXCEPT ![f] = t]
    /\ UNCHANGED <<pc, params, read, todo, found, result>>

CollectNext ==
    \/ Begin \/ WalkFails \/ Expand
    \/ \E f \in Files : Read(f) \/ Fixture(f) \/ Extract(f) \/ Edit(f)

CollectSpec == CollectInit /\ [][CollectNext]_collectVars

-----------------------------------------------------------------------------
(* Properties *)

FixturesOf(t) == IF t = None THEN {} ELSE ToSet(t.fixtures)

\* The parameters a file itself gives its fixtures, if those of one name have
\* the same.
OwnParams(t) ==
    LET given == {x \in FixturesOf(t) : x.params # None}
    IN  [n \in {x.name : x \in given} |-> (CHOOSE x \in given : x.name = n).params]

\* No two fixtures of one name have different parameters.
SameParams ==
    \A f, g \in Files : \A x \in FixturesOf(read[f]), y \in FixturesOf(read[g]) :
        x.name = y.name => x.params = y.params

\* What a test with at most one parametrized fixture is expanded to.
OwnVariants(n, own) ==
    LET used == n.uses \cap DOMAIN own
    IN  IF used = {} THEN {n}
        ELSE {[n EXCEPT !.ids = Append(@, v)] : v \in UNION {ToSet(own[x]) : x \in used}}

(***************************************************************************)
(* What a file contributes depends on the text of that file alone, though  *)
(* all threads write to one map: not on their order, on the files edited   *)
(* meanwhile, nor on the collection before (collector.rs:143, 155, 449).   *)
(* All variants of its tests are there and none besides. It needs equal    *)
(* names to have equal parameters; the ids of a test that uses several     *)
(* parametrized fixtures show the order of the map (collector.rs:198), so  *)
(* that only its class and name are its own.                               *)
(***************************************************************************)
Reproducible ==
    pc = "done" /\ SameParams =>
        \A f \in Files :
            LET own == OwnParams(read[f])
                Several(n) == \E x, y \in n.uses \cap DOMAIN own : x # y
            IN  /\ \A n \in ToSet(TestsOf(read[f])) :
                      ~ Several(n) => OwnVariants(n, own) \subseteq ToSet(result[f])
                /\ \A m \in ToSet(result[f]) : \E n \in ToSet(TestsOf(read[f])) :
                      IF Several(n) THEN m.class = n.class /\ m.name = n.name
                      ELSE m \in OwnVariants(n, own)
=============================================================================
