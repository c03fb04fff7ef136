------------------------------ MODULE MCCollect ------------------------------
(* Small instances of Collect for TLC. *)
EXTENDS Extraction

CONSTANTS a, b, c

Simple(s) == [is |-> "simple", shown |-> s]
AList == [is |-> "list"]
ADict == [is |-> "dict"]
ATuple(vs) == [is |-> "tuple", of |-> vs]
Param(e, id) == [is |-> "param", of |-> e, id |-> id]
ACall == [is |-> "call"]

Def(n, args, sets) ==
    [is |-> "def", name |-> n, within |-> <<>>, async |-> FALSE, plain |-> TRUE,
     args |-> args, sets |-> sets]
In(cs, d) == [d EXCEPT !.within = cs]
Class(n, bases, body) == [is |-> "class", name |-> n, bases |-> bases, body |-> body]
Fixt(n, ps) == [name |-> n, params |-> ps]

Equal == <<Simple("1"), Simple("1"), AList, Param(Simple("1"), "x"), Param(ADict, "x")>>
TwoLists == <<AList, AList>>
Two == <<ATuple(<<Simple("1"), ADict>>), Param(None, "y")>>
Words == <<Simple("dct"), Simple("2")>>
Called == <<Simple("3"), Param(ACall, None)>>

\* A class that overrides one method and inherits from a base and its base.
Family ==
    <<Class("Base", <<>>, <<Def("test_m", <<>>, <<>>), Def("test_n", <<>>, <<Equal>>)>>),
      Class("TestMid", <<"Base", "Elsewhere">>, <<Def("test_m", <<"p">>, <<>>)>>),
      Class("TestLeaf", <<"TestMid">>, <<[Def("test_k", <<>>, <<>>) EXCEPT !.plain = FALSE],
          In(<<"TestIn">>, Def("test_m", <<>>, <<>>)),
          In(<<"TestIn", "Inner">>, Def("test_n", <<>>, <<>>))>>)>>

ThreeFiles == {a, b, c}
SomeTexts ==
    (a :> {None,
           [fixtures |-> <<Fixt("p", <<"1", "2">>), Fixt("q", <<"3", "4">>)>>,
            body |-> <<Def("test_p", <<"p">>, <<Equal>>),
                       Def("test_pq", <<"p", "x", "q">>, <<>>)>> \o Family],
           [fixtures |-> <<Fixt("p", None)>>,
            body |-> <<Def("test_p", <<"p">>, <<Words, Two>>),
                       Def("test_e", <<>>, << <<>> >>),
                       Class("TestMid", <<>>, <<Def("test_k", <<>>, <<>>)>>)>>]})
    @@
    (b :> {None,
           [fixtures |-> <<Fixt("p", <<"1", "2">>)>>,
            body |-> <<[Def("test_a", <<"p">>, <<>>) EXCEPT !.async = TRUE],
                       Def("test_p", <<"p">>, <<Words, TwoLists>>),
                       Def("helper", <<"p">>, <<>>), Def("TestFn", <<>>, <<TwoLists>>),
                       Def("test_z", <<>>, <<Words, Called, None>>)>>],
           [fixtures |-> <<Fixt("p", <<"9">>), Fixt("r", None)>>,
            body |-> Family \o <<Def("test_p", <<"r", "p">>, <<TwoLists>>),
                                 Class("Mixin", <<>>, <<Def("test_z", <<>>, <<>>)>>)>>]})
    @@
    (c :> {[fixtures |-> <<Fixt("q", <<"3", "4">>), Fixt("p", <<"1", "2">>)>>,
            body |-> <<Def("test_pq", <<"q", "p">>, <<Words, Two>>)>>],
           [fixtures |-> <<Fixt("q", None)>>,
            body |-> <<Def("test_p", <<"q", "p">>, <<Two>>)>>],
           [fixtures |-> <<Fixt("p", <<>>)>>,
            body |-> <<Def("test_p", <<"p">>, <<>>), Def("test_z", <<>>, <<>>)>>]})

SomeTests == {"test_a", "test_e", "test_k", "test_m", "test_n", "test_p", "test_pq", "test_z"}
SomeTitles == {"TestMid", "TestLeaf", "TestIn", "TestFn"}
=============================================================================
