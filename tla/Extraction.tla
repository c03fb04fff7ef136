------------------------------ MODULE Extraction ------------------------------
(***************************************************************************)
(* Which tests the native collector finds in a file (collector.rs), and    *)
(* the ids it gives to parametrized ones: TestsOf of Collect. The bases of *)
(* the classes of a file are assumed to form no cycle, for which           *)
(* collect_inherited_tests would not return, and no value to hold a hyphen *)
(* or an underscore with a number, which the joined ids could not tell.    *)
(* The nested classes of a class are written out: its body has what is in  *)
(* them, at its place, within the names of the classes around it. Of calls *)
(* of pytest.param in each other only the id of the outermost counts.      *)
(***************************************************************************)
EXTENDS Collect

CONSTANTS
    TestNames,  \* names that begin with test_
    TitledNames \* names that begin with Test

IsList(s) == s \in Seq(Range(s))

(* A definition has arguments and, from top to bottom, what its parametrize  *)
(* decorators are given: the expressions of a list, or None when it is none. *)
IsDef(d) ==
    /\ DOMAIN d = {"is", "name", "within", "async", "plain", "args", "sets"}
    /\ d.is = "def" /\ d.name \in STRING /\ d.within \in Seq(STRING) /\ IsList(d.sets)
    /\ \A i \in DOMAIN d.sets : d.sets[i] # None => IsList(d.sets[i]) /\
          \A e \in Range(d.sets[i]) :
              /\ e.is \in {"simple", "list", "dict", "tuple", "param", "call"}
              /\ e.is = "param" /\ e.of # None => e.of.is # "param"

IsClass(c) ==
    /\ DOMAIN c = {"is", "name", "bases", "body"}
    /\ c.is = "class" /\ c.name \in STRING /\ c.bases \in Seq(STRING)
    /\ IsList(c.body) /\ \A d \in Range(c.body) : IsDef(d)

ASSUME ExtractionAssumption ==
    /\ TestNames \cup TitledNames \subseteq STRING /\ TestNames \cap TitledNames = {}
    /\ \A f \in Files : \A t \in Texts[f] \ {None} :
          /\ IsList(t.body)
          /\ \A s \in Range(t.body) : (IsDef(s) /\ s.within = <<>>) \/ IsClass(s)

-----------------------------------------------------------------------------
(* The ids of parametrized tests *)

\* Mutant: equal ids are left as they are.
DeduplicateNothing(ids) == ids

\* Equal ids are numbered in their order.
Deduplicate(ids) ==
    [i \in DOMAIN ids |->
        IF \E j \in DOMAIN ids \ {i} : ids[j] = ids[i]
        THEN ids[i] \o "_" \o ToString(Cardinality({j \in 1 .. i - 1 : ids[j] = ids[i]}))
        ELSE ids[i]]

\* A container in a tuple is taken as the parser prints it.
Printed == [is |-> "simple", shown |-> "printed"]

\* The values and the id an expression stands for, None when it is a call of
\* something other than pytest.param.
Values(e) ==
    CASE e = None       -> << [is |-> "simple", shown |-> "param"] >>
      [] e.is = "call"  -> None
      [] e.is = "tuple" ->
            [i \in DOMAIN e.of |-> IF e.of[i].is = "simple" THEN e.of[i] ELSE Printed]
      [] OTHER          -> <<e>>

Element(e) ==
    LET values == Values(IF e.is = "param" THEN e.of ELSE e)
    IN  IF values = None THEN None
        ELSE [values |-> values, id |-> IF e.is = "param" THEN e.id ELSE None]

\* The decorators that are understood: one with an expression that is not is
\* left out as if it were not there.
SetsOf(d) ==
    LET ignored == {set \in Range(d.sets) :
                       set = None \/ \E i \in DOMAIN set : Element(set[i]) = None}
        kept    == Without(d.sets, ignored)
    IN  [i \in DOMAIN kept |-> [j \in DOMAIN kept[i] |-> Element(kept[i][j])]]

\* A value as it is shown: a container by its type, or by a word when strings
\* and containers are mixed.
Shown(v, mixed) ==
    IF v.is = "simple" THEN v.shown
    ELSE IF mixed THEN "value"
    ELSE IF v.is = "dict" THEN "dct" ELSE "lst"

Mixed(set) ==
    LET kinds == {v.is : v \in UNION {Range(e.values) : e \in Range(set)}}
    IN  "simple" \in kinds /\ kinds # {"simple"}

\* The id of a combination of values; a single container is numbered.
PytestId(values, i, mixed) ==
    LET shown == [j \in DOMAIN values |-> Shown(values[j], mixed)]
    IN  IF Len(values) = 1 /\ shown[1] \in {"dct", "lst", "value"}
        THEN shown[1] \o ToString(i - 1)
        ELSE Join(shown)

SingleIds(set) ==
    Deduplicate([i \in DOMAIN set |->
                    IF set[i].id # None THEN set[i].id
                    ELSE PytestId(set[i].values, i, Mixed(set))])

\* Stacked decorators apply from the bottom; the ids of pytest.param are lost
\* and equal ids stay equal.
StackedIds(sets) ==
    LET combos == Product(Reverse(sets))
    IN  [i \in DOMAIN combos |->
            PytestId(FlattenSeq([j \in DOMAIN combos[i] |-> combos[i][j].values]), i, FALSE)]

\* What follows the name of each variant of a test.
VariantIds(d) ==
    LET sets == SetsOf(d)
        ids  == IF Len(sets) = 1 THEN SingleIds(sets[1]) ELSE StackedIds(sets)
    IN  IF sets = <<>> THEN << <<>> >> ELSE [i \in DOMAIN ids |-> <<ids[i]>>]

-----------------------------------------------------------------------------
(* The tests of a file *)

\* The fixtures of the file among the arguments; async tests get no markers.
Uses(d, t) ==
    IF d.async THEN {} ELSE Range(d.args) \cap {x.name : x \in Range(t.fixtures)}

\* The nodes of a definition, in class c or in none.
NodesOf(d, c, t) ==
    IF d.name \in TestNames \cup TitledNames /\ d.plain
    THEN LET ids == VariantIds(d)
         IN  [i \in DOMAIN ids |->
                 [class |-> c, name |-> d.name, ids |-> ids[i], uses |-> Uses(d, t)]]
    ELSE <<>>

\* The nodes of the body of a class; a nested class goes by its own name.
BodyNodes(body, c, t) ==
    FlattenSeq([i \in DOMAIN body |->
        IF Range(body[i].within) \subseteq TitledNames
        THEN NodesOf(body[i], IF body[i].within = <<>> THEN c ELSE Last(body[i].within), t)
        ELSE <<>>])

\* The first class of that name at the top of the file, if there is one.
FindClass(name, t) ==
    LET at == {i \in DOMAIN t.body : t.body[i].is = "class" /\ t.body[i].name = name}
    IN  IF at = {} THEN <<>> ELSE <<t.body[Min(at)]>>

Classes(t) == {s \in Range(t.body) : s.is = "class"}

\* What a class inherits from, in the order of the walk: each of its bases and
\* then what that inherits from. As there is no cycle, no more classes follow
\* each other than there are.
Above(s, above, t) ==
    FlattenSeq([i \in DOMAIN s.bases |->
        LET base == FindClass(s.bases[i], t)
        IN  IF base = <<>> THEN <<>> ELSE base \o above[base[1]]])

Lineage(c, t) ==
    LET walk[n \in 0 .. Len(t.body)] ==
            [s \in Classes(t) |-> IF n = 0 THEN <<>> ELSE Above(s, walk[n - 1], t)]
    IN  walk[Len(t.body)][c]

\* Mutant: methods of any class found so far count as the class's own.
ExistingAnywhere(nodes, c) == {n.name : n \in Range(nodes)}

\* The names that class c already has.
Existing(nodes, c) == {n.name : n \in {m \in Range(nodes) : m.class = c}}

\* The nodes so far and those of the methods of a base that c has none for.
WithMethods(nodes, base, c, t) ==
    nodes \o FlattenSeq([i \in DOMAIN base.body |->
                LET d == base.body[i]
                IN  IF d.within = <<>> /\ d.name \in TestNames /\ d.name \notin Existing(nodes, c)
                    THEN NodesOf(d, c, t) ELSE <<>>])

\* The nodes so far and all that class c inherits.
WithInherited(nodes, c, t) ==
    LET line == Lineage(c, t)
        after[n \in 0 .. Len(line)] ==
            IF n = 0 THEN nodes ELSE WithMethods(after[n - 1], line[n], c.name, t)
    IN  after[Len(line)]

\* The nodes so far and those of a statement at the top of the file.
WithStatement(nodes, s, t) ==
    IF s.is = "def" THEN nodes \o NodesOf(s, None, t)
    ELSE IF s.name \in TitledNames
    THEN WithInherited(nodes \o BodyNodes(s.body, s.name, t), s, t)
    ELSE nodes

ExtractTests(t) ==
    LET after[n \in 0 .. Len(t.body)] ==
            IF n = 0 THEN <<>> ELSE WithStatement(after[n - 1], t.body[n], t)
    IN  IF t = None THEN <<>> ELSE after[Len(t.body)]

\* What Collect is given.
ASSUME TestsOfAssumption ==
    \A f \in Files : \A t \in Texts[f] : TestsOf(t) = ExtractTests(t)

-----------------------------------------------------------------------------
(* Properties *)

\* The class and all it inherits from: what every set has that has the class
\* and with a class its bases.
Ancestry(c, t) ==
    {a \in Classes(t) : \A S \in SUBSET Classes(t) :
        (c \in S /\ \A s \in S, b \in Classes(t) : b.name \in Range(s.bases) => b \in S) => a \in S}

\* The tests Python finds in functions and in classes at the top of a file.
PythonTests(t) ==
    LET tests(ds) == {d \in Range(ds) : /\ d.is = "def" /\ d.name \in TestNames
                                        /\ d.plain /\ d.within = <<>>}
    IN  {<<None, d>> : d \in {s \in Range(t.body) :
                                 s.is = "def" /\ s.name \in TestNames /\ s.plain}}
        \cup UNION {{<<c.name, d>> : d \in UNION {tests(a.body) : a \in Ancestry(c, t)}} :
                       c \in {s \in Classes(t) : s.name \in TitledNames}}

\* A file Python can import: a class is there once and its bases stand above
\* it; and nothing is parametrized with no values.
Orderly(t) ==
    /\ \A i, j \in DOMAIN t.body :
          t.body[i].is = "class" /\ t.body[j].is = "class" =>
              /\ t.body[i].name = t.body[j].name => i = j
              /\ t.body[i].name \in Range(t.body[j].bases) => i < j
    /\ \A d \in Range(t.body) \cup UNION {Range(c.body) : c \in Classes(t)} :
          d.is = "def" => <<>> \notin Range(d.sets)

\* A fixture with an empty list of parameters leaves nothing of the tests that
\* use it, in whatever file it is.
NoneEmpty == \A f \in Files : \A x \in FixturesOf(read[f]) : x.params # <<>>

(***************************************************************************)
(* Every test of every file that can be read is found, in every class that *)
(* inherits it, whichever of its bases it comes from and whatever other    *)
(* files are broken (collector.rs:1088-1109, 1643-1716). A test counts as  *)
(* found when its class has a node of its name, for so it does in the code *)
(* that hides inherited tests, also from nested classes of that name.      *)
(***************************************************************************)
AllFound ==
    pc = "done" /\ NoneEmpty =>
        \A f \in Files : read[f] # None /\ Orderly(read[f]) =>
            \A p \in PythonTests(read[f]) :
                \E n \in Range(result[f]) : n.class = p[1] /\ n.name = p[2].name

Times(lens) == FoldLeft(LAMBDA a, b : a * b, 1, lens)

\* What the count needs: all decorators are understood and, when there are
\* several, their values show differently, as those ids are not made distinct.
Telling(d) ==
    LET sets     == SetsOf(d)
        shown(e) == [j \in DOMAIN e.values |-> Shown(e.values[j], FALSE)]
    IN  /\ Len(sets) = Len(d.sets)
        /\ Len(sets) > 1 => \A i \in DOMAIN sets :
              IsInjective([j \in DOMAIN sets[i] |-> shown(sets[i][j])])

(***************************************************************************)
(* Each combination of values and fixture parameters of a function is one  *)
(* node with an id of its own, for the inventory and pytest go by the id:  *)
(* equal ids would be one test (collector.rs:926, 1732-1753; context.rs:   *)
(* 267). Not covered are stacked decorators whose values show alike, one   *)
(* that is not understood, and async functions, which are not expanded.    *)
(***************************************************************************)
VariantsCounted ==
    pc = "done" /\ SameParams =>
        \A f \in Files : read[f] # None =>
            LET own   == OwnParams(read[f])
                Of(d) == {n.ids : n \in {m \in Range(result[f]) :
                                            m.class = None /\ m.name = d.name}}
            IN  \A d \in Range(read[f].body) :
                    d.is = "def" /\ <<None, d>> \in PythonTests(read[f]) /\ ~d.async =>
                        (Telling(d) =>
                            LET used == SetToSeq(Range(d.args) \cap DOMAIN own)
                            IN  Cardinality(Of(d)) =
                                    Times([i \in DOMAIN d.sets |-> Len(d.sets[i])]) *
                                    Times([i \in DOMAIN used |-> Len(own[used[i]])]))

=============================================================================
