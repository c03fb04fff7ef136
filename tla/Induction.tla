------------------------------ MODULE Induction ------------------------------
(***************************************************************************)
(* Induction on numbers and what it gives of recursive functions and of    *)
(* the operators on sequences that the models use.  The induction theorems *)
(* of the library take an operator; here a property is the set of what has *)
(* it, and the principle comes from a well-founded order having minima.    *)
(***************************************************************************)
EXTENDS Lists, SequencesExt, SequenceTheorems, FiniteSetTheorems, TLAPS

Below == {p \in Nat \X Nat : p[1] < p[2]}

(* A set of numbers that is not empty has a least one. *)
LEMMA LeastNumber ==
    ASSUME NEW S \in SUBSET Nat, S # {}
    PROVE  \E n \in S : \A m \in S : n <= m
<1>1. IsWellFoundedOn(Below, Nat)
  BY NatLessThanWellFounded, SMT DEF OpToRel, Below
<1>2. PICK n \in S : \A m \in S : <<m, n>> \notin Below
  BY <1>1, WFMin
<1>3. ASSUME NEW m \in S, m < n  PROVE FALSE
  <2>1. <<m, n>> \in Below
    BY <1>3 DEF Below
  <2>2. QED  BY <1>2, <2>1
<1>4. QED  BY <1>3

(* A set that holds the first number of 0 .. n and with each the next. *)
LEMMA UpTo ==
    ASSUME NEW n \in Nat, NEW S, 0 \in S,
           \A i \in 0 .. n - 1 : i \in S => i + 1 \in S
    PROVE  0 .. n \subseteq S
<1>1. SUFFICES ASSUME (0 .. n) \ S # {}  PROVE FALSE
  OBVIOUS
<1> DEFINE R == (0 .. n) \ S
<1>2. PICK i \in R : \A j \in R : i <= j
  <2>1. R \in SUBSET Nat /\ R # {}
    BY <1>1
  <2>2. QED  BY <2>1, LeastNumber
<1>3. i - 1 \in 0 .. n - 1 /\ i - 1 \in S
  BY <1>2
<1>4. QED  BY <1>2, <1>3

(* And a set of numbers up to n has a greatest one. *)
LEMMA GreatestNumber ==
    ASSUME NEW n \in Nat, NEW S \in SUBSET (0 .. n), S # {}
    PROVE  Max(S) \in S /\ \A m \in S : Max(S) >= m
<1> DEFINE R == {n - m : m \in S}
<1>1. PICK r \in R : \A q \in R : r <= q
  <2>1. R \subseteq Nat
    OBVIOUS
  <2>2. PICK m \in S : TRUE
    OBVIOUS
  <2>3. n - m \in R
    BY <2>2
  <2> HIDE DEF R
  <2>4. R \in SUBSET Nat /\ R # {}
    BY <2>1, <2>3
  <2>5. QED  BY <2>4, LeastNumber
<1>2. PICK g \in S : r = n - g
  BY <1>1
<1>3. ASSUME NEW m \in S  PROVE g >= m
  <2>1. n - m \in R
    OBVIOUS
  <2>2. n - g <= n - m
    BY <1>1, <1>2, <2>1
  <2>3. QED  BY <2>2
<1>4. QED  BY <1>2, <1>3 DEF Max

\* A step takes the number of a round and a value to the value after it.
Steps(n, V) == [(1 .. n) \X V -> V]

Iterated(f, n, base, step) ==
    f[0] = base /\ \A i \in 1 .. n : f[i] = step[<<i, f[i - 1]>>]

(* A function that is defined by such steps is there. *)
LEMMA Iterates ==
    ASSUME NEW n \in Nat, NEW V, NEW base \in V, NEW step \in Steps(n, V)
    PROVE  \E f \in [0 .. n -> V] : Iterated(f, n, base, step)
<1> USE DEF Steps, Iterated
<1> DEFINE Good(k, f) == f[0] = base /\ \A i \in 1 .. k : f[i] = step[<<i, f[i - 1]>>]
           S == {k \in 0 .. n : \E f \in [0 .. k -> V] : Good(k, f)}
<1>1. 0 \in S
  <2>1. [k \in 0 .. 0 |-> base] \in [0 .. 0 -> V] /\ Good(0, [k \in 0 .. 0 |-> base])
    OBVIOUS
  <2> HIDE DEF Good
  <2>2. QED  BY <2>1
<1>2. ASSUME NEW k \in 0 .. n - 1, k \in S  PROVE k + 1 \in S
  <2>1. PICK f \in [0 .. k -> V] : Good(k, f)
    BY <1>2
  <2> DEFINE g == [i \in 0 .. k + 1 |-> IF i = k + 1 THEN step[<<k + 1, f[k]>>] ELSE f[i]]
  <2>2. g \in [0 .. k + 1 -> V]
    BY <2>1
  <2>3. Good(k + 1, g)
    <3>1. g[0] = base
      BY <2>1
    <3>2. ASSUME NEW i \in 1 .. k  PROVE g[i] = step[<<i, g[i - 1]>>]
      BY <2>1
    <3>3. g[k + 1] = step[<<k + 1, g[k]>>]
      <4>1. k + 1 \in 0 .. k + 1 /\ g[k + 1] = step[<<k + 1, f[k]>>]
        OBVIOUS
      <4>2. g[k] = f[k]
        OBVIOUS
      <4>3. QED  BY <4>1, <4>2
    <3> HIDE DEF g
    <3>4. QED  BY <3>1, <3>2, <3>3
  <2> HIDE DEF Good, g
  <2>4. \E h \in [0 .. k + 1 -> V] : Good(k + 1, h)
    BY <2>2, <2>3
  <2>5. QED  BY <2>4
<1>3. n \in S
  <2> HIDE DEF S
  <2>1. QED  BY <1>1, <1>2, UpTo
<1>4. QED  BY <1>3

(* The numbers up to n are n. *)
LEMMA UpToN ==
    ASSUME NEW n \in Nat
    PROVE  IsFiniteSet(1 .. n) /\ Cardinality(1 .. n) = n
<1>1. 1 \in Int /\ n \in Int /\ (IF 1 > n THEN 0 ELSE n - 1 + 1) = n
  OBVIOUS
<1>2. QED  BY <1>1, FS_Interval, Zenon

-----------------------------------------------------------------------------
(* Sequences of sequences *)

(* A function on the first numbers is a sequence. *)
LEMMA FunctionSeq ==
    ASSUME NEW T, NEW n \in Nat, NEW f \in [1 .. n -> T]
    PROVE  f \in Seq(T) /\ Len(f) = n
<1>1. f \in Seq(T)
  BY SeqDef
<1>2. QED  BY <1>1

\* Concatenation, for proofs that need not look into it.
Cat(s, t) == s \o t

(* FlattenSeq goes through the sequences one by one. *)
LEMMA Flattening ==
    ASSUME NEW T, NEW ss \in Seq(Seq(T)), Len(ss) > 0
    PROVE  \E f \in [1 .. Len(ss) -> Seq(T)] :
              /\ f[1] = ss[1] /\ f[Len(ss)] = FlattenSeq(ss)
              /\ \A i \in 2 .. Len(ss) : f[i] = Cat(f[i - 1], ss[i])
<1>1. PICK n \in Nat : n = Len(ss) /\ n > 0 /\ \A i \in 1 .. n : ss[i] \in Seq(T)
  OBVIOUS
<1> DEFINE step == [p \in (1 .. n) \X Seq(T) |-> Cat(p[2], ss[p[1]])]
           Rec(f) == [i \in 1 .. n |-> IF i = 1 THEN ss[i] ELSE Cat(f[i - 1], ss[i])]
<1>2. \A i \in 1 .. n, x \in Seq(T) : step[<<i, x>>] = Cat(x, ss[i])
  OBVIOUS
<1>3. step \in Steps(n, Seq(T))
  BY <1>1 DEF Steps, Cat
<1> HIDE DEF step
<1>4. PICK f \in [0 .. n -> Seq(T)] : Iterated(f, n, <<>>, step)
  <2>1. <<>> \in Seq(T)
    OBVIOUS
  <2>2. QED  BY <1>3, <2>1, Iterates
<1>5. ASSUME NEW i \in 1 .. n  PROVE f[i] = Cat(f[i - 1], ss[i])
  <2>1. f[i] = step[<<i, f[i - 1]>>]
    BY <1>4 DEF Iterated
  <2>2. f[i - 1] \in Seq(T)
    BY <1>4
  <2>3. QED  BY <1>2, <2>1, <2>2
<1>6. f[1] = ss[1]
  <2>1. f[1] = Cat(<<>>, ss[1])
    BY <1>1, <1>4, <1>5 DEF Iterated
  <2>2. QED  BY <1>1, <2>1 DEF Cat
<1> DEFINE g == [i \in 1 .. n |-> f[i]]
<1>7. g \in [1 .. n -> Seq(T)] /\ g[1] = ss[1] /\ \A i \in 2 .. n : g[i] = Cat(g[i - 1], ss[i])
  <2>1. g \in [1 .. n -> Seq(T)]
    BY <1>4
  <2>2. g[1] = ss[1]
    BY <1>1, <1>6
  <2>3. ASSUME NEW i \in 2 .. n  PROVE g[i] = Cat(g[i - 1], ss[i])
    BY <1>5
  <2>4. QED  BY <2>1, <2>2, <2>3
<1> HIDE DEF g
<1>8. g = Rec(g)
  <2>1. \A i \in 1 .. n : g[i] = Rec(g)[i]
    BY <1>7
  <2>2. DOMAIN g = 1 .. n /\ g = [i \in 1 .. n |-> g[i]] /\ Rec(g) = [i \in 1 .. n |-> Rec(g)[i]]
    BY <1>7
  <2>3. QED  BY <2>1, <2>2
<1>9. ASSUME NEW h, h = Rec(h)  PROVE h = g
  <2>1. h[1] = ss[1] /\ \A i \in 2 .. n : h[i] = Cat(h[i - 1], ss[i])
    BY <1>1, <1>9
  <2> DEFINE S == {k \in 0 .. n : k = 0 \/ h[k] = g[k]}
  <2>2. ASSUME NEW k \in 0 .. n - 1, k \in S  PROVE k + 1 \in S
    <3>1. CASE k = 0
      BY <3>1, <1>1, <1>7, <2>1
    <3>2. CASE k # 0
      <4>1. k + 1 \in 2 .. n /\ (k + 1) - 1 = k /\ h[k] = g[k]
        BY <3>2, <2>2
      <4>2. h[k + 1] = Cat(h[k], ss[k + 1])
        BY <4>1, <2>1, Zenon
      <4>3. g[k + 1] = Cat(g[k], ss[k + 1])
        BY <4>1, <1>7
      <4>4. QED  BY <4>1, <4>2, <4>3
    <3>3. QED  BY <3>1, <3>2
  <2>3. 0 .. n \subseteq S
    <3>1. 0 \in S
      BY <1>1
    <3> HIDE DEF S
    <3>2. QED  BY <2>2, <3>1, UpTo
  <2>4. \A i \in 1 .. n : h[i] = g[i]
    BY <2>3
  <2>5. h = [i \in 1 .. n |-> h[i]] /\ g = [i \in 1 .. n |-> g[i]]
    BY <1>7, <1>9
  <2>6. QED  BY <2>4, <2>5
<1>10. FlattenSeq(ss) = g[n]
  <2>1. (CHOOSE h : h = Rec(h)) = g
    <3> HIDE DEF Rec
    <3>1. QED  BY <1>8, <1>9
  <2>2. FlattenSeq(ss) = (CHOOSE h : h = Rec(h))[n]
    BY <1>1 DEF FlattenSeq, Cat
  <2>3. QED  BY <2>1, <2>2
<1>11. QED  BY <1>1, <1>7, <1>10

\* What holds of the first of some sequences, and of longer ones with the
\* sequence that follows, holds of all of them in one.
Through(ss, n, f) ==
    /\ f[1] = ss[1] /\ f[n] = FlattenSeq(ss)
    /\ \A i \in 1 .. n - 1 : f[i + 1] = Cat(f[i], ss[i + 1])

LEMMA Flattened ==
    ASSUME NEW T, NEW ss \in Seq(Seq(T)), Len(ss) > 0
    PROVE  \E f \in [1 .. Len(ss) -> Seq(T)] : Through(ss, Len(ss), f)
<1>1. PICK f \in [1 .. Len(ss) -> Seq(T)] :
              /\ f[1] = ss[1] /\ f[Len(ss)] = FlattenSeq(ss)
              /\ \A i \in 2 .. Len(ss) : f[i] = Cat(f[i - 1], ss[i])
  BY Flattening
<1>2. ASSUME NEW i \in 1 .. Len(ss) - 1  PROVE f[i + 1] = Cat(f[i], ss[i + 1])
  <2>1. i + 1 \in 2 .. Len(ss) /\ (i + 1) - 1 = i
    OBVIOUS
  <2>2. QED  BY <1>1, <2>1, Zenon
<1>3. QED  BY <1>1, <1>2 DEF Through

LEMMA CatType ==
    ASSUME NEW T, NEW s \in Seq(T), NEW t \in Seq(T)
    PROVE  /\ Cat(s, t) \in Seq(T) /\ Len(Cat(s, t)) = Len(s) + Len(t)
           /\ \A i \in 1 .. Len(s) : Cat(s, t)[i] = s[i]
           /\ \A i \in 1 .. Len(t) : Cat(s, t)[Len(s) + i] = t[i]
  BY DEF Cat

(* The flattened sequence has elements of the same set. *)
LEMMA FlattenType ==
    ASSUME NEW T, NEW ss \in Seq(Seq(T))
    PROVE  FlattenSeq(ss) \in Seq(T)
<1>1. CASE Len(ss) = 0
  <2>1. ss = <<>> /\ FlattenSeq(ss) = ss
    BY <1>1 DEF FlattenSeq
  <2>2. <<>> \in Seq(T)
    OBVIOUS
  <2>3. QED  BY <2>1, <2>2, Zenon
<1>2. CASE Len(ss) > 0
  <2>1. PICK f \in [1 .. Len(ss) -> Seq(T)] : Through(ss, Len(ss), f)
    BY <1>2, Flattened
  <2>2. Len(ss) \in 1 .. Len(ss) /\ FlattenSeq(ss) = f[Len(ss)]
    BY <1>2, <2>1 DEF Through
  <2>3. QED  BY <2>2
<1>3. QED  BY <1>1, <1>2

\* Two sequences of one length whose elements are related in pairs.
Alike(s, t, R) == Len(s) = Len(t) /\ \A i \in 1 .. Len(s) : <<s[i], t[i]>> \in R

LEMMA AlikeCat ==
    ASSUME NEW T, NEW U, NEW R, NEW s1 \in Seq(T), NEW s2 \in Seq(T),
           NEW t1 \in Seq(U), NEW t2 \in Seq(U), Alike(s1, t1, R), Alike(s2, t2, R)
    PROVE  Alike(Cat(s1, s2), Cat(t1, t2), R)
<1>1. Len(Cat(s1, s2)) = Len(s1) + Len(s2) /\ Len(Cat(t1, t2)) = Len(t1) + Len(t2)
  <2>1. Len(Cat(s1, s2)) = Len(s1) + Len(s2)
    BY CatType
  <2>2. Len(Cat(t1, t2)) = Len(t1) + Len(t2)
    BY CatType
  <2>3. QED  BY <2>1, <2>2
<1>2. ASSUME NEW i \in 1 .. Len(Cat(s1, s2))  PROVE <<Cat(s1, s2)[i], Cat(t1, t2)[i]>> \in R
  <2>1. CASE i <= Len(s1)
    <3>1. i \in 1 .. Len(s1) /\ i \in 1 .. Len(t1)
      BY <2>1 DEF Alike
    <3>2. Cat(s1, s2)[i] = s1[i] /\ Cat(t1, t2)[i] = t1[i]
      BY <3>1, CatType
    <3>3. QED  BY <3>1, <3>2 DEF Alike
  <2>2. CASE i > Len(s1)
    <3>1. PICK j \in 1 .. Len(s2) : i = Len(s1) + j
      <4>1. i - Len(s1) \in 1 .. Len(s2) /\ i = Len(s1) + (i - Len(s1))
        BY <2>2, <1>1
      <4>2. QED  BY <4>1
    <3>2. j \in 1 .. Len(t2) /\ i = Len(t1) + j
      BY <3>1 DEF Alike
    <3>3. Cat(s1, s2)[Len(s1) + j] = s2[j]
      <4>1. \A m \in 1 .. Len(s2) : Cat(s1, s2)[Len(s1) + m] = s2[m]
        BY CatType
      <4>2. QED  BY <4>1
    <3>4. Cat(t1, t2)[Len(t1) + j] = t2[j]
      <4>1. \A m \in 1 .. Len(t2) : Cat(t1, t2)[Len(t1) + m] = t2[m]
        BY CatType
      <4>2. QED  BY <3>2, <4>1
    <3>5. <<s2[j], t2[j]>> \in R
      BY DEF Alike
    <3>6. QED  BY <3>1, <3>2, <3>3, <3>4, <3>5, Zenon
  <2>3. QED  BY <2>1, <2>2
<1>3. Len(s1) = Len(t1) /\ Len(s2) = Len(t2)
  BY DEF Alike
<1>4. Len(Cat(s1, s2)) = Len(Cat(t1, t2))
  BY <1>1, <1>3
<1>5. QED  BY <1>2, <1>4 DEF Alike

(* Flattening keeps a relation between the elements. *)
LEMMA FlattenAlike ==
    ASSUME NEW T, NEW U, NEW R, NEW ss \in Seq(Seq(T)), NEW uu \in Seq(Seq(U)),
           Len(ss) = Len(uu), \A i \in 1 .. Len(ss) : Alike(ss[i], uu[i], R)
    PROVE  Alike(FlattenSeq(ss), FlattenSeq(uu), R)
<1>1. CASE Len(ss) = 0
  <2>1. FlattenSeq(ss) = ss /\ FlattenSeq(uu) = uu
    BY <1>1 DEF FlattenSeq
  <2>2. Alike(ss, uu, R)
    BY <1>1 DEF Alike
  <2>3. QED  BY <2>1, <2>2, Zenon
<1>2. CASE Len(ss) > 0
  <2>1. PICK n \in Nat : n = Len(ss) /\ n = Len(uu) /\ n > 0
    BY <1>2
  <2>2. PICK f \in [1 .. n -> Seq(T)] : Through(ss, n, f)
    BY <2>1, Flattened
  <2>3. PICK g \in [1 .. n -> Seq(U)] : Through(uu, n, g)
    BY <2>1, Flattened
  <2> DEFINE S == {k \in 0 .. n : k = 0 \/ Alike(f[k], g[k], R)}
  <2>4. ASSUME NEW k \in 0 .. n - 1, k \in S  PROVE k + 1 \in S
    <3>1. CASE k = 0
      BY <2>1, <2>2, <2>3, <3>1 DEF Through
    <3>2. CASE k # 0
      <4>1. k \in 1 .. n - 1 /\ k \in 1 .. n /\ k + 1 \in 1 .. n /\ Alike(f[k], g[k], R)
        BY <2>4, <3>2
      <4>2. f[k + 1] = Cat(f[k], ss[k + 1]) /\ g[k + 1] = Cat(g[k], uu[k + 1])
        BY <2>2, <2>3, <4>1, Zenon DEF Through
      <4>3. /\ f[k] \in Seq(T) /\ g[k] \in Seq(U)
            /\ ss[k + 1] \in Seq(T) /\ uu[k + 1] \in Seq(U)
        BY <2>1, <4>1, ElementOfSeq
      <4>4. Alike(ss[k + 1], uu[k + 1], R)
        BY <2>1, <4>1
      <4>5. Alike(Cat(f[k], ss[k + 1]), Cat(g[k], uu[k + 1]), R)
        BY <4>1, <4>3, <4>4, AlikeCat
      <4>6. QED  BY <4>1, <4>2, <4>5
    <3>3. QED  BY <3>1, <3>2
  <2>5. 0 .. n \subseteq S
    <3>1. 0 \in S
      BY <2>1
    <3> HIDE DEF S
    <3>2. QED  BY <2>4, <3>1, UpTo
  <2>6. Alike(f[n], g[n], R)
    <3>1. n \in 0 .. n /\ n # 0
      BY <2>1
    <3>2. QED  BY <2>5, <3>1, Zenon
  <2>7. QED  BY <2>2, <2>3, <2>6 DEF Through
<1>3. QED  BY <1>1, <1>2

(* Flattening loses no element. *)
LEMMA FlattenHas ==
    ASSUME NEW T, NEW ss \in Seq(Seq(T)), NEW i \in 1 .. Len(ss), NEW x \in ToSet(ss[i])
    PROVE  x \in ToSet(FlattenSeq(ss))
<1>1. PICK n \in Nat : n = Len(ss) /\ n > 0
  OBVIOUS
<1>2. PICK f \in [1 .. n -> Seq(T)] : Through(ss, n, f)
  BY <1>1, Flattened
<1>3. ASSUME NEW s \in Seq(T), NEW t \in Seq(T)  PROVE ToSet(Cat(s, t)) = ToSet(s) \cup ToSet(t)
  <2>1. Range(s \o t) = Range(s) \cup Range(t)
    BY RangeConcatenation
  <2>2. QED  BY <2>1, Zenon DEF ToSet, Range, Cat
<1> DEFINE S == {k \in 0 .. n : k < i \/ x \in ToSet(f[k])}
<1>4. ASSUME NEW k \in 0 .. n - 1, k \in S  PROVE k + 1 \in S
  <2>1. CASE k = 0
    BY <1>1, <1>2, <2>1 DEF Through
  <2>2. CASE k # 0
    <3>1. k \in 1 .. n - 1 /\ k \in 1 .. n /\ k + 1 \in 1 .. n
      BY <1>4, <2>2
    <3>2. f[k + 1] = Cat(f[k], ss[k + 1])
      BY <1>2, <3>1, Zenon DEF Through
    <3>3. f[k] \in Seq(T) /\ ss[k + 1] \in Seq(T)
      BY <1>1, <3>1, ElementOfSeq
    <3>4. ToSet(f[k + 1]) = ToSet(f[k]) \cup ToSet(ss[k + 1])
      BY <1>3, <3>2, <3>3
    <3>5. k + 1 < i \/ k + 1 = i \/ x \in ToSet(f[k])
      BY <1>4, <3>1
    <3>6. QED  BY <3>1, <3>4, <3>5
  <2>3. QED  BY <2>1, <2>2
<1>5. 0 .. n \subseteq S
  <2>1. 0 \in S
    BY <1>1
  <2> HIDE DEF S
  <2>2. QED  BY <1>4, <2>1, UpTo
<1>6. n \in 0 .. n /\ ~(n < i)
  BY <1>1
<1>7. x \in ToSet(f[n])
  BY <1>5, <1>6, Zenon
<1>8. QED  BY <1>2, <1>7 DEF Through

-----------------------------------------------------------------------------
(* What is left of a list *)

Added(s, X, i, kept) == IF s[i] \in X THEN kept ELSE Append(kept, s[i])

\* What is kept of the first of a list, and of one more.
Keeping(s, X, n, f) ==
    /\ f[0] = <<>> /\ f[n] = Without(s, X)
    /\ \A i \in 0 .. n - 1 : f[i + 1] = Added(s, X, i + 1, f[i])

LEMMA Kept ==
    ASSUME NEW T, NEW X, NEW s \in Seq(T)
    PROVE  \E f \in [0 .. Len(s) -> Seq(T)] : Keeping(s, X, Len(s), f)
<1>1. PICK n \in Nat : n = Len(s) /\ \A i \in 1 .. n : s[i] \in T
  OBVIOUS
<1> DEFINE step == [p \in (1 .. n) \X Seq(T) |-> Added(s, X, p[1], p[2])]
           Rec(f) == [i \in 0 .. n |-> IF i = 0 THEN <<>> ELSE Added(s, X, i, f[i - 1])]
<1>2. \A i \in 1 .. n, x \in Seq(T) : step[<<i, x>>] = Added(s, X, i, x)
  OBVIOUS
<1>3. step \in Steps(n, Seq(T))
  BY <1>1 DEF Steps, Added
<1> HIDE DEF step
<1>4. PICK g \in [0 .. n -> Seq(T)] : Iterated(g, n, <<>>, step)
  <2>1. <<>> \in Seq(T)
    OBVIOUS
  <2>2. QED  BY <1>3, <2>1, Iterates
<1>5. ASSUME NEW i \in 1 .. n  PROVE g[i] = Added(s, X, i, g[i - 1])
  <2>1. g[i] = step[<<i, g[i - 1]>>] /\ g[i - 1] \in Seq(T)
    BY <1>4 DEF Iterated
  <2>2. QED  BY <1>2, <2>1
<1>6. g[0] = <<>>
  BY <1>4 DEF Iterated
<1>7. g = Rec(g)
  <2>1. \A i \in 0 .. n : g[i] = Rec(g)[i]
    BY <1>5, <1>6
  <2>2. g = [i \in 0 .. n |-> g[i]] /\ Rec(g) = [i \in 0 .. n |-> Rec(g)[i]]
    BY <1>4
  <2>3. QED  BY <2>1, <2>2
<1>8. ASSUME NEW h, h = Rec(h)  PROVE h = g
  <2>1. h[0] = <<>> /\ \A i \in 1 .. n : h[i] = Added(s, X, i, h[i - 1])
    BY <1>1, <1>8
  <2> DEFINE S == {k \in 0 .. n : h[k] = g[k]}
  <2>2. ASSUME NEW k \in 0 .. n - 1, k \in S  PROVE k + 1 \in S
    <3>1. k + 1 \in 1 .. n /\ k + 1 \in 0 .. n /\ (k + 1) - 1 = k /\ h[k] = g[k]
      BY <2>2
    <3>2. h[k + 1] = Added(s, X, k + 1, h[k])
      BY <2>1, <3>1, Zenon
    <3>3. g[k + 1] = Added(s, X, k + 1, g[k])
      BY <1>5, <3>1, Zenon
    <3>4. QED  BY <3>1, <3>2, <3>3, Zenon
  <2>3. 0 .. n \subseteq S
    <3>1. 0 \in S
      BY <1>1, <1>6, <2>1
    <3> HIDE DEF S
    <3>2. QED  BY <2>2, <3>1, UpTo
  <2>4. \A i \in 0 .. n : h[i] = g[i]
    BY <2>3
  <2>5. h = [i \in 0 .. n |-> h[i]] /\ g = [i \in 0 .. n |-> g[i]]
    BY <1>4, <1>8
  <2>6. QED  BY <2>4, <2>5
<1>9. Without(s, X) = g[n]
  <2>1. (CHOOSE h : h = Rec(h)) = g
    <3> HIDE DEF Rec
    <3>1. QED  BY <1>7, <1>8
  <2>2. Without(s, X) = (CHOOSE h : h = Rec(h))[n]
    BY <1>1 DEF Without, Added
  <2>3. QED  BY <2>1, <2>2
<1>10. ASSUME NEW i \in 0 .. n - 1  PROVE g[i + 1] = Added(s, X, i + 1, g[i])
  <2>1. i + 1 \in 1 .. n /\ (i + 1) - 1 = i
    OBVIOUS
  <2>2. QED  BY <1>5, <2>1, Zenon
<1>11. Keeping(s, X, n, g)
  BY <1>6, <1>9, <1>10 DEF Keeping
<1>12. QED  BY <1>1, <1>4, <1>11

\* Where the elements of w come from: the places of the first n elements of s
\* that are outside X, in their order.
Places(q, w, s, X, n) ==
    /\ \A j \in 1 .. Len(w) : q[j] \in 1 .. n /\ s[q[j]] \notin X /\ w[j] = s[q[j]]
    /\ \A j, k \in 1 .. Len(w) : j < k => q[j] < q[k]
    /\ \A i \in 1 .. n : s[i] \notin X => \E j \in 1 .. Len(w) : q[j] = i

(* Without leaves out just the elements of X and changes no order. *)
LEMMA WithoutPlaces ==
    ASSUME NEW T, NEW X, NEW s \in Seq(T)
    PROVE  /\ Without(s, X) \in Seq(T)
           /\ \E q \in [1 .. Len(Without(s, X)) -> Nat] : Places(q, Without(s, X), s, X, Len(s))
<1>1. PICK n \in Nat : n = Len(s)
  OBVIOUS
<1>2. PICK f \in [0 .. n -> Seq(T)] : Keeping(s, X, n, f)
  BY <1>1, Kept
<1> DEFINE Good(k) == \E q \in [1 .. Len(f[k]) -> Nat] : Places(q, f[k], s, X, k)
           S == {k \in 0 .. n : Good(k)}
<1>3. 0 \in S
  <2>1. f[0] = <<>> /\ Len(f[0]) = 0
    BY <1>2 DEF Keeping
  <2>2. <<>> \in [1 .. Len(f[0]) -> Nat] /\ Places(<<>>, f[0], s, X, 0)
    BY <2>1 DEF Places
  <2>3. Good(0)
    BY <2>2, Zenon
  <2>4. QED  BY <2>3
<1>4. ASSUME NEW k \in 0 .. n - 1, k \in S  PROVE k + 1 \in S
  <2>1. PICK q \in [1 .. Len(f[k]) -> Nat] : Places(q, f[k], s, X, k)
    BY <1>4
  <2>2. f[k + 1] = Added(s, X, k + 1, f[k]) /\ f[k] \in Seq(T) /\ s[k + 1] \in T
    BY <1>1, <1>2, ElementOfSeq DEF Keeping
  <2>3. CASE s[k + 1] \in X
    <3>1. f[k + 1] = f[k]
      BY <2>2, <2>3 DEF Added
    <3>2. Places(q, f[k], s, X, k + 1)
      BY <2>1, <2>3 DEF Places
    <3>3. Good(k + 1)
      BY <3>1, <3>2
    <3>4. QED  BY <3>3
  <2>4. CASE s[k + 1] \notin X
    <3>1. PICK m \in Nat : m = Len(f[k])
      BY <2>2
    <3>2. /\ f[k + 1] = Append(f[k], s[k + 1]) /\ Len(f[k + 1]) = m + 1
          /\ f[k + 1][m + 1] = s[k + 1] /\ \A j \in 1 .. m : f[k + 1][j] = f[k][j]
      BY <2>2, <2>4, <3>1, AppendProperties DEF Added
    <3> DEFINE r == [j \in 1 .. m + 1 |-> IF j = m + 1 THEN k + 1 ELSE q[j]]
    <3>3. r \in [1 .. m + 1 -> Nat] /\ r[m + 1] = k + 1 /\ \A j \in 1 .. m : r[j] = q[j]
      BY <2>1, <3>1
    <3> HIDE DEF r
    <3>4. \A j \in 1 .. m + 1 : r[j] \in 1 .. k + 1 /\ s[r[j]] \notin X /\ f[k + 1][j] = s[r[j]]
      <4>1. \A j \in 1 .. m : q[j] \in 1 .. k /\ s[q[j]] \notin X /\ f[k][j] = s[q[j]]
        BY <2>1, <3>1 DEF Places
      <4>2. ASSUME NEW j \in 1 .. m
            PROVE  r[j] \in 1 .. k + 1 /\ s[r[j]] \notin X /\ f[k + 1][j] = s[r[j]]
        <5>1. q[j] \in 1 .. k + 1
          BY <4>1
        <5>2. r[j] = q[j] /\ f[k + 1][j] = f[k][j]
          BY <3>2, <3>3
        <5>3. QED  BY <4>1, <5>1, <5>2, Zenon
      <4>3. k + 1 \in 1 .. k + 1 /\ \A j \in 1 .. m + 1 : j \in 1 .. m \/ j = m + 1
        BY <3>1
      <4>4. QED  BY <2>4, <3>2, <3>3, <4>2, <4>3, Zenon
    <3>5. ASSUME NEW i \in 1 .. m + 1, NEW j \in 1 .. m + 1, i < j  PROVE r[i] < r[j]
      <4>1. i \in 1 .. m /\ r[i] = q[i] /\ q[i] \in 1 .. k
        BY <2>1, <3>1, <3>3, <3>5 DEF Places
      <4>2. CASE j = m + 1
        BY <3>3, <4>1, <4>2
      <4>3. CASE j # m + 1
        <5>1. j \in 1 .. m /\ r[j] = q[j]
          BY <3>3, <4>3
        <5>2. QED  BY <2>1, <3>1, <3>5, <4>1, <5>1 DEF Places
      <4>4. QED  BY <4>2, <4>3
    <3>6. ASSUME NEW i \in 1 .. k + 1, s[i] \notin X  PROVE \E j \in 1 .. m + 1 : r[j] = i
      <4>1. CASE i = k + 1
        BY <3>3, <4>1
      <4>2. CASE i # k + 1
        <5>1. PICK j \in 1 .. m : q[j] = i
          BY <2>1, <3>1, <3>6, <4>2 DEF Places
        <5>2. QED  BY <3>3, <5>1
      <4>3. QED  BY <4>1, <4>2
    <3>7. Places(r, f[k + 1], s, X, k + 1)
      BY <3>2, <3>4, <3>5, <3>6 DEF Places
    <3>8. Good(k + 1)
      BY <3>2, <3>3, <3>7
    <3>9. QED  BY <3>8
  <2>5. QED  BY <2>3, <2>4
<1>5. 0 .. n \subseteq S
  <2> HIDE DEF S
  <2>1. QED  BY <1>3, <1>4, UpTo
<1>6. n \in 0 .. n /\ Good(n)
  BY <1>5
<1>7. f[n] = Without(s, X) /\ f[n] \in Seq(T)
  BY <1>2, <1>6 DEF Keeping
<1>8. QED  BY <1>1, <1>6, <1>7, Zenon

-----------------------------------------------------------------------------
(* Sums *)

\* The sums of the first numbers of f.
Partial(f, n) ==
    LET g[i \in 0 .. n] == IF i = 0 THEN 0 ELSE g[i - 1] + f[i]
    IN  g

Adds(g, f, n) ==
    /\ f \in [1 .. n -> Nat]
    /\ g \in [0 .. n -> Nat] /\ g[0] = 0
    /\ \A i \in 1 .. n : g[i] = g[i - 1] + f[i]

LEMMA SumsExist ==
    ASSUME NEW n \in Nat, NEW f \in [1 .. n -> Nat]
    PROVE  \E g : Adds(g, f, n)
<1> DEFINE step == [p \in (1 .. n) \X Nat |-> p[2] + f[p[1]]]
<1>1. \A i \in 1 .. n, x \in Nat : step[<<i, x>>] = x + f[i]
  OBVIOUS
<1>2. step \in Steps(n, Nat)
  <2>1. \A p \in (1 .. n) \X Nat : p[2] + f[p[1]] \in Nat
    OBVIOUS
  <2>2. QED  BY <2>1 DEF Steps
<1> HIDE DEF step
<1>3. PICK g \in [0 .. n -> Nat] : Iterated(g, n, 0, step)
  BY <1>2, Iterates
<1>4. ASSUME NEW i \in 1 .. n  PROVE g[i] = g[i - 1] + f[i]
  <2>1. g[i] = step[<<i, g[i - 1]>>] /\ g[i - 1] \in Nat
    BY <1>3 DEF Iterated
  <2>2. QED  BY <1>1, <2>1
<1>5. g[0] = 0
  BY <1>3 DEF Iterated
<1>6. QED  BY <1>3, <1>4, <1>5 DEF Adds

LEMMA SumsUnique ==
    ASSUME NEW n \in Nat, NEW f, NEW g, NEW h, Adds(g, f, n), Adds(h, f, n)
    PROVE  \A k \in 0 .. n : g[k] = h[k]
<1> DEFINE S == {k \in 0 .. n : g[k] = h[k]}
<1>1. 0 \in S
  BY DEF Adds
<1>2. ASSUME NEW i \in 0 .. n - 1, i \in S  PROVE i + 1 \in S
  <2>1. i + 1 \in 1 .. n /\ i + 1 \in 0 .. n /\ (i + 1) - 1 = i
    OBVIOUS
  <2>2. g[i + 1] = g[i] + f[i + 1] /\ h[i + 1] = h[i] + f[i + 1]
    BY <2>1, Zenon DEF Adds
  <2>3. QED  BY <1>2, <2>1, <2>2
<1>3. 0 .. n \subseteq S
  <2> HIDE DEF S
  <2>1. QED  BY <1>1, <1>2, UpTo
<1>4. QED  BY <1>3

LEMMA PartialSums ==
    ASSUME NEW n \in Nat, NEW f \in [1 .. n -> Nat]
    PROVE  Adds(Partial(f, n), f, n)
<1> DEFINE Rec(g) == [i \in 0 .. n |-> IF i = 0 THEN 0 ELSE g[i - 1] + f[i]]
<1>1. PICK g : Adds(g, f, n)
  BY SumsExist
<1>2. g = Rec(g)
  <2>1. \A i \in 0 .. n : g[i] = Rec(g)[i]
    BY <1>1 DEF Adds
  <2>2. g = [i \in 0 .. n |-> g[i]] /\ Rec(g) = [i \in 0 .. n |-> Rec(g)[i]]
    BY <1>1 DEF Adds
  <2>3. QED  BY <2>1, <2>2
<1>3. PICK h : h = (CHOOSE k : k = Rec(k)) /\ h = Rec(h)
  <2> HIDE DEF Rec
  <2>1. QED  BY <1>2
<1>4. Partial(f, n) = h
  BY <1>3 DEF Partial
<1>5. h[0] = 0 /\ \A i \in 1 .. n : h[i] = h[i - 1] + f[i]
  <2>1. \A i \in 0 .. n : h[i] = IF i = 0 THEN 0 ELSE h[i - 1] + f[i]
    BY <1>3, Zenon
  <2>2. 0 \in 0 .. n /\ \A i \in 1 .. n : i \in 0 .. n /\ i # 0
    OBVIOUS
  <2>3. QED  BY <2>1, <2>2, Zenon
<1> DEFINE S == {i \in 0 .. n : h[i] \in Nat}
<1>6. 0 .. n \subseteq S
  <2>1. 0 \in S
    BY <1>5
  <2>2. ASSUME NEW i \in 0 .. n - 1, i \in S  PROVE i + 1 \in S
    <3>1. i + 1 \in 1 .. n /\ i + 1 \in 0 .. n /\ (i + 1) - 1 = i /\ h[i] \in Nat
      BY <2>2
    <3>2. h[i + 1] = h[i] + f[i + 1]
      BY <1>5, <3>1, Zenon
    <3>3. QED  BY <3>1, <3>2
  <2> HIDE DEF S
  <2>3. QED  BY <2>1, <2>2, UpTo
<1>7. h \in [0 .. n -> Nat]
  <2>1. h = [i \in 0 .. n |-> IF i = 0 THEN 0 ELSE h[i - 1] + f[i]]
    BY <1>3
  <2>2. DOMAIN h = 0 .. n /\ h = [i \in 0 .. n |-> h[i]]
    BY <2>1
  <2>3. QED  BY <1>6, <2>2
<1>8. QED  BY <1>4, <1>5, <1>7 DEF Adds

(* Sums of natural numbers only grow.                                        *)
LEMMA SumsGrow ==
    ASSUME NEW n \in Nat, NEW f, NEW g, Adds(g, f, n),
           NEW j \in 0 .. n, NEW i \in 0 .. j
    PROVE  g[i] <= g[j]
<1> f \in [1 .. n -> Nat]
  BY DEF Adds
<1> DEFINE S == {m \in 0 .. n : i <= m => g[i] <= g[m]}
<1>1. g[i] \in Nat /\ g \in [0 .. n -> Nat] /\ i \in 0 .. n
  BY DEF Adds
<1>2. 0 \in S
  BY <1>1
<1>3. ASSUME NEW m \in 0 .. n - 1, m \in S  PROVE m + 1 \in S
  <2>1. m + 1 \in 1 .. n /\ m + 1 \in 0 .. n /\ (m + 1) - 1 = m /\ m \in 0 .. n
    OBVIOUS
  <2>2. g[m + 1] = g[m] + f[m + 1]
    BY <2>1, Zenon DEF Adds
  <2>3. g[m] \in Nat /\ f[m + 1] \in Nat
    BY <1>1, <2>1
  <2>4. CASE i <= m
    BY <1>3, <1>1, <2>1, <2>2, <2>3, <2>4
  <2>5. CASE i = m + 1
    BY <1>1, <2>1, <2>5
  <2>6. QED  BY <2>1, <2>4, <2>5
<1>4. 0 .. n \subseteq S
  <2> HIDE DEF S
  <2>1. QED  BY <1>2, <1>3, UpTo
<1>5. QED  BY <1>4

(* What a sum is more than nothing by ends in a number that is not zero.     *)
LEMMA SumsLast ==
    ASSUME NEW n \in Nat, NEW f, NEW g, Adds(g, f, n),
           NEW k \in 0 .. n, g[k] > 0
    PROVE  \E i \in 1 .. k : f[i] > 0 /\ g[k] = g[i - 1] + f[i]
<1> f \in [1 .. n -> Nat]
  BY DEF Adds
<1> DEFINE Ends(m) == \E i \in 1 .. m : f[i] > 0 /\ g[m] = g[i - 1] + f[i]
           S == {m \in 0 .. n : g[m] > 0 => Ends(m)}
<1>1. 0 \in S
  BY DEF Adds
<1>2. ASSUME NEW m \in 0 .. n - 1, m \in S  PROVE m + 1 \in S
  <2>1. m + 1 \in 1 .. n /\ m + 1 \in 0 .. n /\ (m + 1) - 1 = m /\ m \in 0 .. n
    OBVIOUS
  <2>2. g[m + 1] = g[m] + f[m + 1]
    BY <2>1, Zenon DEF Adds
  <2>3. g[m] \in Nat /\ f[m + 1] \in Nat
    BY <2>1 DEF Adds
  <2>4. CASE f[m + 1] > 0
    <3>1. m + 1 \in 1 .. m + 1
      OBVIOUS
    <3>2. g[m + 1] = g[(m + 1) - 1] + f[m + 1]
      BY <2>1, <2>2
    <3>3. Ends(m + 1)
      BY <2>4, <3>1, <3>2
    <3>4. QED  BY <2>1, <3>3
  <2>5. CASE ~ (f[m + 1] > 0)
    <3>1. g[m + 1] = g[m]
      BY <2>2, <2>3, <2>5
    <3>2. SUFFICES ASSUME g[m + 1] > 0  PROVE Ends(m + 1)
      BY <2>1
    <3>3. PICK i \in 1 .. m : f[i] > 0 /\ g[m] = g[i - 1] + f[i]
      BY <1>2, <3>1, <3>2
    <3>4. i \in 1 .. m + 1
      OBVIOUS
    <3>5. QED  BY <3>1, <3>3, <3>4
  <2>6. QED  BY <2>4, <2>5
<1>3. 0 .. n \subseteq S
  <2> HIDE DEF S
  <2>1. QED  BY <1>1, <1>2, UpTo
<1>4. QED  BY <1>3

LEMMA TimesNext ==
    ASSUME NEW a \in Nat, NEW b \in Nat
    PROVE  a * b \in Nat /\ (a + 1) * b = a * b + b
  OBVIOUS

(* n numbers of at least m are n times m, or more; of at most m, or less.    *)
LEMMA SumsAtLeast ==
    ASSUME NEW n \in Nat, NEW f, NEW g, Adds(g, f, n),
           NEW m \in Nat, \A i \in 1 .. n : f[i] >= m
    PROVE  g[n] >= n * m
<1> f \in [1 .. n -> Nat]
  BY DEF Adds
<1> DEFINE S == {k \in 0 .. n : g[k] >= k * m}
<1>1. 0 \in S
  BY DEF Adds
<1>2. ASSUME NEW k \in 0 .. n - 1, k \in S  PROVE k + 1 \in S
  <2>1. k + 1 \in 1 .. n /\ k + 1 \in 0 .. n /\ (k + 1) - 1 = k /\ k \in 0 .. n /\ k \in Nat
    OBVIOUS
  <2>2. g[k + 1] = g[k] + f[k + 1]
    BY <2>1, Zenon DEF Adds
  <2>3. PICK x \in Nat, y \in Nat : x = g[k] /\ y = f[k + 1]
    BY <2>1 DEF Adds
  <2>4. y >= m
    BY <2>1, <2>3
  <2>5. PICK p \in Nat, q \in Nat : p = k * m /\ q = (k + 1) * m /\ q = p + m
    <3>1. k * m \in Nat /\ (k + 1) * m = k * m + m
      BY <2>1, TimesNext
    <3>2. QED  BY <3>1
  <2>6. x >= p
    BY <1>2, <2>3, <2>5
  <2>7. g[k + 1] >= q
    BY <2>2, <2>3, <2>4, <2>5, <2>6
  <2>8. QED  BY <2>1, <2>5, <2>7
<1>3. 0 .. n \subseteq S
  <2> HIDE DEF S
  <2>1. QED  BY <1>1, <1>2, UpTo
<1>4. QED  BY <1>3

LEMMA SumsAtMost ==
    ASSUME NEW n \in Nat, NEW f, NEW g, Adds(g, f, n),
           NEW m \in Nat, \A i \in 1 .. n : f[i] <= m
    PROVE  g[n] <= n * m
<1> f \in [1 .. n -> Nat]
  BY DEF Adds
<1> DEFINE S == {k \in 0 .. n : g[k] <= k * m}
<1>1. 0 \in S
  BY DEF Adds
<1>2. ASSUME NEW k \in 0 .. n - 1, k \in S  PROVE k + 1 \in S
  <2>1. k + 1 \in 1 .. n /\ k + 1 \in 0 .. n /\ (k + 1) - 1 = k /\ k \in 0 .. n /\ k \in Nat
    OBVIOUS
  <2>2. g[k + 1] = g[k] + f[k + 1]
    BY <2>1, Zenon DEF Adds
  <2>3. PICK x \in Nat, y \in Nat : x = g[k] /\ y = f[k + 1]
    BY <2>1 DEF Adds
  <2>4. y <= m
    BY <2>1, <2>3
  <2>5. PICK p \in Nat, q \in Nat : p = k * m /\ q = (k + 1) * m /\ q = p + m
    <3>1. k * m \in Nat /\ (k + 1) * m = k * m + m
      BY <2>1, TimesNext
    <3>2. QED  BY <3>1
  <2>6. x <= p
    BY <1>2, <2>3, <2>5
  <2>7. g[k + 1] <= q
    BY <2>2, <2>3, <2>4, <2>5, <2>6
  <2>8. QED  BY <2>1, <2>5, <2>7
<1>3. 0 .. n \subseteq S
  <2> HIDE DEF S
  <2>1. QED  BY <1>1, <1>2, UpTo
<1>4. QED  BY <1>3

(* If all numbers but one are zero that one is the sum.                      *)
LEMMA SumsOne ==
    ASSUME NEW n \in Nat, NEW f, NEW g, Adds(g, f, n),
           NEW j \in 1 .. n, \A i \in 1 .. n : i # j => f[i] = 0
    PROVE  g[n] = f[j]
<1> f \in [1 .. n -> Nat]
  BY DEF Adds
<1>1. n \in 0 .. n /\ j \in 0 .. n /\ j - 1 \in 0 .. n /\ g[n] \in Nat /\ g[j] \in Nat
      /\ g[j - 1] \in Nat /\ f[j] \in Nat
  BY DEF Adds
<1>2. g[j] = g[j - 1] + f[j]
  BY DEF Adds
<1>3. g[j - 1] = 0
  <2>1. SUFFICES ASSUME g[j - 1] > 0  PROVE FALSE
    BY <1>1
  <2>2. PICK i \in 1 .. j - 1 : f[i] > 0
    BY <1>1, <2>1, SumsLast
  <2>3. i \in 1 .. n /\ i # j
    OBVIOUS
  <2>4. QED  BY <2>2, <2>3
<1>4. g[j] <= g[n]
  BY <1>1, SumsGrow
<1>5. CASE g[n] = 0
  BY <1>1, <1>2, <1>3, <1>4, <1>5
<1>6. CASE g[n] > 0
  <2>1. PICK i \in 1 .. n : f[i] > 0 /\ g[n] = g[i - 1] + f[i]
    BY <1>1, <1>6, SumsLast
  <2>2. i = j
    BY <2>1
  <2>3. QED  BY <1>1, <1>3, <2>1, <2>2
<1>7. QED  BY <1>1, <1>5, <1>6

\* One number of u is larger in v.
Raised(u, v, n, j, x) ==
    /\ u \in [1 .. n -> Nat] /\ v \in [1 .. n -> Nat] /\ j \in 1 .. n /\ x \in Nat
    /\ v[j] = u[j] + x /\ \A i \in 1 .. n : i # j => v[i] = u[i]

(* Then the sum is larger by as much.                                        *)
LEMMA SumsRaised ==
    ASSUME NEW n \in Nat, NEW u, NEW v, NEW j, NEW x, Raised(u, v, n, j, x)
    PROVE  Partial(v, n)[n] = Partial(u, n)[n] + x
<1>1. PICK g, h : g = Partial(u, n) /\ Adds(g, u, n) /\ h = Partial(v, n) /\ Adds(h, v, n)
  BY PartialSums DEF Raised
<1>2. /\ u \in [1 .. n -> Nat] /\ v \in [1 .. n -> Nat] /\ j \in 1 .. n /\ x \in Nat
  BY DEF Raised
<1> DEFINE S == {k \in 0 .. n : h[k] = g[k] + IF j <= k THEN x ELSE 0}
<1>3. 0 \in S
  BY <1>1, <1>2 DEF Adds
<1>4. ASSUME NEW k \in 0 .. n - 1, k \in S  PROVE k + 1 \in S
  <2>1. k + 1 \in 1 .. n /\ k + 1 \in 0 .. n /\ (k + 1) - 1 = k /\ k \in 0 .. n
    OBVIOUS
  <2>2. g[k + 1] = g[k] + u[k + 1] /\ h[k + 1] = h[k] + v[k + 1]
    BY <1>1, <2>1, Zenon DEF Adds
  <2>3. g[k] \in Nat /\ h[k] \in Nat /\ u[k + 1] \in Nat /\ v[k + 1] \in Nat
    BY <1>1, <1>2, <2>1 DEF Adds
  <2>4. h[k] = g[k] + IF j <= k THEN x ELSE 0
    BY <1>4
  <2>5. CASE j = k + 1
    <3>1. v[k + 1] = u[k + 1] + x
      BY <2>5, Zenon DEF Raised
    <3>2. ~ (j <= k) /\ j <= k + 1
      BY <2>1, <2>5, <1>2
    <3>3. h[k] = g[k]
      BY <2>3, <2>4, <3>2
    <3>4. h[k + 1] = g[k + 1] + x
      BY <1>2, <2>2, <2>3, <3>1, <3>3
    <3>5. QED  BY <2>1, <3>2, <3>4
  <2>6. CASE j # k + 1
    <3>1. v[k + 1] = u[k + 1]
      BY <2>1, <2>6, Zenon DEF Raised
    <3>2. (j <= k) <=> (j <= k + 1)
      BY <1>2, <2>1, <2>6
    <3>3. QED  BY <1>2, <2>1, <2>2, <2>3, <2>4, <3>1, <3>2
  <2>7. QED  BY <2>5, <2>6
<1>5. 0 .. n \subseteq S
  <2> HIDE DEF S
  <2>1. QED  BY <1>3, <1>4, UpTo
<1>6. n \in S /\ j <= n
  BY <1>5, <1>2
<1>7. QED  BY <1>1, <1>6

\* What of the numbers d goes to w, and what each of m has of the first k.
Share(d, to, w, n) == [i \in 1 .. n |-> IF to[i] = w THEN d[i] ELSE 0]

Loads(d, to, m, n, k) == [w \in 1 .. m |-> Partial(Share(d, to, w, n), n)[k]]

LEMMA ShareSums ==
    ASSUME NEW n \in Nat, NEW m \in Nat, NEW d \in [1 .. n -> Nat], NEW to \in [1 .. n -> 1 .. m]
    PROVE  /\ \A w \in 1 .. m : /\ Share(d, to, w, n) \in [1 .. n -> Nat]
                                /\ Adds(Partial(Share(d, to, w, n), n), Share(d, to, w, n), n)
           /\ \A k \in 0 .. n : Loads(d, to, m, n, k) \in [1 .. m -> Nat]
<1>1. ASSUME NEW w \in 1 .. m
      PROVE  /\ Share(d, to, w, n) \in [1 .. n -> Nat]
             /\ Adds(Partial(Share(d, to, w, n), n), Share(d, to, w, n), n)
  <2>1. Share(d, to, w, n) \in [1 .. n -> Nat]
    BY DEF Share
  <2>2. QED  BY <2>1, PartialSums
<1>2. ASSUME NEW k \in 0 .. n  PROVE Loads(d, to, m, n, k) \in [1 .. m -> Nat]
  <2>1. \A w \in 1 .. m : Partial(Share(d, to, w, n), n)[k] \in Nat
    BY <1>1 DEF Adds
  <2>2. QED  BY <2>1 DEF Loads
<1>3. QED  BY <1>1, <1>2

(* Of a number one has more, the others as much as before.                   *)
LEMMA LoadsRaised ==
    ASSUME NEW n \in Nat, NEW m \in Nat, NEW d \in [1 .. n -> Nat], NEW to \in [1 .. n -> 1 .. m],
           NEW k \in 1 .. n
    PROVE  Raised(Loads(d, to, m, n, k - 1), Loads(d, to, m, n, k), m, to[k], d[k])
<1>1. k \in 0 .. n /\ k - 1 \in 0 .. n
  OBVIOUS
<1>2. ASSUME NEW w \in 1 .. m
      PROVE  /\ Loads(d, to, m, n, k)[w]
                  = Loads(d, to, m, n, k - 1)[w] + Share(d, to, w, n)[k]
             /\ Loads(d, to, m, n, k - 1)[w] \in Nat
  <2>1. PICK g : g = Partial(Share(d, to, w, n), n)
    OBVIOUS
  <2>2. Adds(g, Share(d, to, w, n), n)
    BY <2>1, ShareSums
  <2>3. g[k] = g[k - 1] + Share(d, to, w, n)[k] /\ g[k - 1] \in Nat
    BY <1>1, <2>2 DEF Adds
  <2>4. Loads(d, to, m, n, k)[w] = g[k] /\ Loads(d, to, m, n, k - 1)[w] = g[k - 1]
    BY <2>1 DEF Loads
  <2>5. QED  BY <2>3, <2>4
<1>3. to[k] \in 1 .. m
  OBVIOUS
<1>4. \A w \in 1 .. m : Share(d, to, w, n)[k] = IF to[k] = w THEN d[k] ELSE 0
  BY DEF Share
<1>5. Loads(d, to, m, n, k) \in [1 .. m -> Nat] /\ Loads(d, to, m, n, k - 1) \in [1 .. m -> Nat]
  BY <1>1, ShareSums
<1>6. Loads(d, to, m, n, k)[to[k]] = Loads(d, to, m, n, k - 1)[to[k]] + d[k]
  BY <1>2, <1>3, <1>4
<1>7. ASSUME NEW w \in 1 .. m, w # to[k]
      PROVE  Loads(d, to, m, n, k)[w] = Loads(d, to, m, n, k - 1)[w]
  BY <1>2, <1>4, <1>7
<1>8. d[k] \in Nat
  OBVIOUS
<1>9. QED  BY <1>3, <1>5, <1>6, <1>7, <1>8, Zenon DEF Raised

(* Together they have what was dealt out.                                    *)
LEMMA LoadsTotal ==
    ASSUME NEW n \in Nat, NEW m \in Nat, NEW d \in [1 .. n -> Nat], NEW to \in [1 .. n -> 1 .. m],
           NEW k \in 0 .. n
    PROVE  Partial(Loads(d, to, m, n, k), m)[m] = Partial(d, n)[k]
<1> DEFINE All(i) == Partial(Loads(d, to, m, n, i), m)
           S == {i \in 0 .. n : All(i)[m] = Partial(d, n)[i]}
<1>1. ASSUME NEW i \in 0 .. n
      PROVE  /\ Loads(d, to, m, n, i) \in [1 .. m -> Nat]
             /\ Adds(All(i), Loads(d, to, m, n, i), m)
  <2>1. Loads(d, to, m, n, i) \in [1 .. m -> Nat]
    BY ShareSums
  <2>2. QED  BY <2>1, PartialSums
<1>2. Adds(Partial(d, n), d, n)
  BY PartialSums
<1> HIDE DEF All
<1>3. 0 \in S
  <2>1. \A w \in 1 .. m : Loads(d, to, m, n, 0)[w] = 0
    <3>1. ASSUME NEW w \in 1 .. m  PROVE Partial(Share(d, to, w, n), n)[0] = 0
      <4>1. Adds(Partial(Share(d, to, w, n), n), Share(d, to, w, n), n)
        BY ShareSums
      <4>2. QED  BY <4>1, Zenon DEF Adds
    <3>2. QED  BY <3>1 DEF Loads
  <2>2. All(0)[m] <= m * 0
    <3>1. /\ Loads(d, to, m, n, 0) \in [1 .. m -> Nat]
          /\ Adds(All(0), Loads(d, to, m, n, 0), m)
      BY <1>1
    <3>2. \A w \in 1 .. m : Loads(d, to, m, n, 0)[w] <= 0
      BY <2>1
    <3>3. QED  BY <3>1, <3>2, SumsAtMost
  <2>3. All(0)[m] \in Nat
    BY <1>1 DEF Adds
  <2>4. Partial(d, n)[0] = 0
    BY <1>2 DEF Adds
  <2>5. QED  BY <2>2, <2>3, <2>4
<1>4. ASSUME NEW i \in 0 .. n - 1, i \in S  PROVE i + 1 \in S
  <2>1. i + 1 \in 1 .. n /\ i + 1 \in 0 .. n /\ (i + 1) - 1 = i /\ i \in 0 .. n
    OBVIOUS
  <2>2. Raised(Loads(d, to, m, n, i), Loads(d, to, m, n, i + 1), m, to[i + 1], d[i + 1])
    BY <2>1, LoadsRaised
  <2>3. to[i + 1] \in 1 .. m /\ d[i + 1] \in Nat
    BY <2>1
  <2>4. All(i + 1)[m] = All(i)[m] + d[i + 1]
    BY <2>2, SumsRaised DEF All
  <2>5. Partial(d, n)[i + 1] = Partial(d, n)[i] + d[i + 1]
    BY <1>2, <2>1, Zenon DEF Adds
  <2>6. All(i)[m] = Partial(d, n)[i]
    BY <1>4
  <2>7. QED  BY <2>1, <2>4, <2>5, <2>6
<1>5. 0 .. n \subseteq S
  <2> HIDE DEF S
  <2>1. QED  BY <1>3, <1>4, UpTo
<1>6. QED  BY <1>5 DEF All

\* Where a sort puts the elements of s: the n-th is s[pi[n]].
Permutes(pi, n) ==
    /\ pi \in [1 .. n -> 1 .. n]
    /\ \A i, j \in 1 .. n : pi[i] = pi[j] => i = j
    /\ \A k \in 1 .. n : \E i \in 1 .. n : pi[i] = k

\* The numbers d are those of f in the order p.
Shuffles(p, f, d, n) ==
    /\ f \in [1 .. n -> Nat] /\ d \in [1 .. n -> Nat]
    /\ Permutes(p, n) /\ \A i \in 1 .. n : d[i] = f[p[i]]

(* A sum does not depend on the order.                                       *)
LEMMA SumsPermuted ==
    ASSUME NEW n \in Nat, NEW f, NEW p, NEW d, Shuffles(p, f, d, n)
    PROVE  Partial(d, n)[n] = Partial(f, n)[n]
<1>1. p \in [1 .. n -> 1 .. n] /\ d \in [1 .. n -> Nat] /\ f \in [1 .. n -> Nat] /\ n \in 0 .. n
  <2>1. d \in [1 .. n -> Nat] /\ f \in [1 .. n -> Nat]
    BY Zenon DEF Shuffles
  <2>2. p \in [1 .. n -> 1 .. n]
    BY Zenon DEF Shuffles, Permutes
  <2>3. n \in 0 .. n
    OBVIOUS
  <2>4. QED  BY <2>1, <2>2, <2>3, Zenon
<1>2. ASSUME NEW j \in 1 .. n  PROVE Loads(d, p, n, n, n)[j] = f[j]
  <2>1. PICK i \in 1 .. n : p[i] = j /\ \A k \in 1 .. n : k # i => p[k] # j
    <3>1. Permutes(p, n)
      BY Zenon DEF Shuffles
    <3>2. PICK i \in 1 .. n : p[i] = j
      BY <3>1, Zenon DEF Permutes
    <3>3. \A k \in 1 .. n : p[k] = p[i] => k = i
      BY <3>1, Zenon DEF Permutes
    <3>4. QED  BY <3>2, <3>3, Zenon
  <2>2. PICK h : h = Share(d, p, j, n)
    OBVIOUS
  <2>3. h \in [1 .. n -> Nat] /\ Adds(Partial(h, n), h, n)
    BY <1>1, <2>2, ShareSums
  <2>4. h[i] = f[j]
    BY <2>1, <2>2 DEF Share, Shuffles
  <2>5. \A k \in 1 .. n : k # i => h[k] = 0
    BY <2>1, <2>2 DEF Share
  <2>6. Partial(h, n)[n] = h[i]
    <3>1. Adds(Partial(h, n), h, n)
      BY <2>3
    <3>2. QED  BY <2>5, <3>1, SumsOne
  <2>7. QED  BY <2>2, <2>4, <2>6 DEF Loads
<1>3. Loads(d, p, n, n, n) = f
  <2>1. Loads(d, p, n, n, n) \in [1 .. n -> Nat]
    BY <1>1, ShareSums
  <2>2. QED  BY <1>1, <1>2, <2>1
<1>4. Partial(Loads(d, p, n, n, n), n)[n] = Partial(d, n)[n]
  BY <1>1, LoadsTotal
<1>5. QED  BY <1>3, <1>4
=============================================================================
