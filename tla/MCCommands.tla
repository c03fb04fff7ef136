----------------------------- MODULE MCCommands -----------------------------
(* Small instances of Commands for TLC. *)
EXTENDS Commands, TLC

CONSTANTS c1, c2, t1, t2, p1, p2

TwoCommands == {c1, c2}
TwoTests == {t1, t2}

\* Both are about auth; the second is slow.
BothAuth == (t1 :> {"auth"}) @@ (t2 :> {"auth"})
OneSlow == (t1 :> {}) @@ (t2 :> {"slow"})
Slow == [op |-> "is", word |-> "slow"]
Auth == [op |-> "is", word |-> "auth"]
NotSlow == [op |-> "not", arg |-> Slow]
AuthAndNotSlow == [op |-> "and", left |-> Auth, right |-> NotSlow]
SlowOrAuth == [op |-> "or", left |-> Slow, right |-> Auth]
AllExprs == {Slow, Auth, NotSlow, AuthAndNotSlow, SlowOrAuth}
Lengths == (Slow :> 1) @@ (Auth :> 1) @@ (NotSlow :> 2) @@ (AuthAndNotSlow :> 4) @@ (SlowOrAuth :> 3)

\* The configured path holds both tests, the other one the second.
TwoPaths == {p1, p2}
Configured == {p2}
BeginsSome == (p1 :> {t2}) @@ (p2 :> {t1, t2})

SomeOptions ==
    {NoOptions,
     [keyword |-> Auth, marker |-> None, paths |-> {p1}],
     [keyword |-> None, marker |-> NotSlow, paths |-> {}],
     [keyword |-> SlowOrAuth, marker |-> Slow, paths |-> {p1, p2}],
     [keyword |-> AuthAndNotSlow, marker |-> None, paths |-> {p2}]}

Symmetric == Permutations(TwoCommands)
=============================================================================
