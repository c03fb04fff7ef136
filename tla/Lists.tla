-------------------------------- MODULE Lists --------------------------------
(***************************************************************************)
(* What the models do with lists and the library has no operator for.      *)
(***************************************************************************)
EXTENDS Naturals, Sequences

\* The elements of s outside X, in their order: iter().filter().collect().
Without(s, X) ==
    LET kept[n \in 0 .. Len(s)] ==
            IF n = 0 THEN <<>>
            ELSE IF s[n] \in X THEN kept[n - 1] ELSE Append(kept[n - 1], s[n])
    IN  kept[Len(s)]
=============================================================================
