--------------------------- MODULE ExecutionProofs ---------------------------
(***************************************************************************)
(* The invariant of Execution and what it gives, for every set of tests,   *)
(* every list a client sends, every size of a batch and number of workers: *)
(* that the executors answer for each test and that a summary counts what  *)
(* they answered.                                                          *)
(***************************************************************************)
EXTENDS Execution, Induction

Res == [test : Tests, outcome : Outcome]

\* What run_tests makes of a request.
Split(request) ==
    IF mode = "subprocess" THEN Chunks(Runnable(request)) ELSE <<Runnable(request)>>

Started == stage \in {"running", "gathered", "done"}
Ended == stage \in {"gathered", "done"}

\* Nothing of the command before is left.
IdleInv ==
    stage = "idle" => /\ asked = <<>> /\ batches = <<>> /\ task = <<>>
                      /\ parsed = <<>> /\ results = <<>> /\ read = {}
                      /\ found = [t \in Tests |-> "unreached"]

TypeInv ==
    /\ stage \in {"idle", "running", "gathered", "done"}
    /\ mode \in Modes
    /\ found \in [Tests -> Verdict]
    /\ read \subseteq Tests
    /\ parsed \in Seq(Seq(Res))
    /\ results \in Seq(Res)

SplitInv ==
    Started => /\ asked \in Requests
               /\ batches = Split(asked)
               /\ DOMAIN task = 1 .. Len(batches)
               /\ Len(parsed) = Len(batches)

\* A batch has one result for each of its tests once it is done, the outcome
\* on its line if that can be read; before, no line is read.
BatchDone(i) ==
    /\ Len(parsed[i]) = Len(batches[i])
    /\ \A j \in 1 .. Len(batches[i]) :
          /\ parsed[i][j].test = batches[i][j]
          /\ batches[i][j] \in read => parsed[i][j].outcome = Word(found[batches[i][j]])

BatchOpen(i) == \A j \in 1 .. Len(batches[i]) : batches[i][j] \notin read

BatchInv ==
    Started /\ mode = "subprocess" =>
        \A i \in 1 .. Len(batches) : IF task[i] = "done" THEN BatchDone(i) ELSE BatchOpen(i)

\* The plugin is called once, at the end.
PluginInv ==
    mode = "embedded" => /\ read = {}
                         /\ stage = "running" => found = [t \in Tests |-> "unreached"]

Failing(r) == r.outcome \in {"failed", "error"}

\* A run that ended badly, or did not begin.
WentWrong ==
    \/ \E t \in Tests : found[t] \in Bad
    \/ \A t \in Tests : found[t] = "unreached"

GatherInv ==
    /\ Ended /\ mode = "subprocess" => TestsOf(results) = Runnable(asked)
    /\ Ended => \A i \in 1 .. Len(results) :
                   results[i].test \in read => results[i].outcome = Word(found[results[i].test])
    /\ Ended /\ mode = "embedded" /\ Runnable(asked) # <<>> /\ WentWrong =>
          \E i \in 1 .. Len(results) : Failing(results[i])

SummaryInv ==
    stage = "done" =>
        summary = [total |-> Len(results) + PreSkipped, passed |-> Count("passed"),
                   failed |-> Count("failed"), skipped |-> Count("skipped") + PreSkipped,
                   errors |-> Count("error")]

ExecInv ==
    TypeInv /\ IdleInv /\ SplitInv /\ BatchInv /\ PluginInv /\ GatherInv /\ SummaryInv

-----------------------------------------------------------------------------
(* Batches *)

LEMMA LesserOfTwo ==
    ASSUME NEW a \in Int, NEW b \in Int
    PROVE  Min({a, b}) = IF a <= b THEN a ELSE b
  BY DEF Min

LEMMA RunnableFacts ==
    ASSUME NEW request \in Requests
    PROVE  Runnable(request) \in Seq(Tests) /\ IsInjective(Runnable(request))
<1>1. request \in Seq(Tests) /\ IsInjective(request)
  BY ExecutionAssumption
<1> DEFINE w == Without(request, SkipMarked)
<1>2. w \in Seq(Tests)
  BY <1>1, WithoutPlaces
<1>3. PICK q \in [1 .. Len(w) -> Nat] : Places(q, w, request, SkipMarked, Len(request))
  BY <1>1, WithoutPlaces
<1> HIDE DEF w
<1>4. ASSUME NEW i \in 1 .. Len(w), NEW j \in 1 .. Len(w), w[i] = w[j]  PROVE i = j
  <2>1. /\ q[i] \in 1 .. Len(request) /\ q[j] \in 1 .. Len(request)
        /\ request[q[i]] = request[q[j]]
    BY <1>3, <1>4 DEF Places
  <2>2. q[i] = q[j]
    BY <1>1, <2>1 DEF IsInjective
  <2>3. ~(i < j) /\ ~(j < i)
    BY <1>3, <2>1, <2>2 DEF Places
  <2>4. QED  BY <1>2, <2>3
<1>5. QED  BY <1>2, <1>4 DEF IsInjective, w, Runnable

LEMMA ChunkCount ==
    ASSUME NEW n \in Nat
    PROVE  LET N == (n + Batch - 1) \div Batch IN
           /\ N \in Nat /\ n <= N * Batch
           /\ \A i \in 1 .. N : (i - 1) * Batch \in Nat /\ (i - 1) * Batch < n
<1>1. Batch \in Nat /\ Batch >= 1
  BY ExecutionAssumption
<1> DEFINE N == (n + Batch - 1) \div Batch
<1>2. N \in Nat /\ N * Batch <= n + Batch - 1 /\ n + Batch - 1 < N * Batch + Batch
  BY <1>1
<1> HIDE DEF N
<1>3. ASSUME NEW i \in 1 .. N  PROVE (i - 1) * Batch \in Nat /\ (i - 1) * Batch < n
  <2>1. PICK d \in Nat : N = i + d
    <3>1. N - i \in Nat /\ N = i + (N - i)
      BY <1>2
    <3>2. QED  BY <3>1
  <2>2. N * Batch = (i - 1) * Batch + Batch + d * Batch
    BY <1>1, <2>1
  <2>3. d * Batch \in Nat /\ (i - 1) * Batch \in Nat
    BY <1>1
  <2>4. QED  BY <1>1, <1>2, <2>2, <2>3
<1>4. QED  BY <1>1, <1>2, <1>3 DEF N

\* A batch i of s starts after the Batch * (i - 1) tests of those before it.
Cut(s, C) ==
    \A i \in 1 .. Len(C) :
       /\ (i - 1) * Batch \in 0 .. Len(s) - 1
       /\ C[i] \in Seq(Tests)
       /\ Len(C[i]) \in 1 .. Batch
       /\ (i - 1) * Batch + Len(C[i]) <= Len(s)
       /\ i # Len(C) => Len(C[i]) = Batch
       /\ i = Len(C) => (i - 1) * Batch + Len(C[i]) = Len(s)
       /\ \A j \in 1 .. Len(C[i]) : C[i][j] = s[(i - 1) * Batch + j]

\* No test is twice in the batches.
Apart(C) ==
    \A i, k \in 1 .. Len(C) : \A j \in 1 .. Len(C[i]), l \in 1 .. Len(C[k]) :
       C[i][j] = C[k][l] => i = k /\ j = l

LEMMA ChunksCut ==
    ASSUME NEW s \in Seq(Tests)
    PROVE  Chunks(s) \in Seq(Seq(Tests)) /\ Cut(s, Chunks(s))
<1>1. Batch \in Nat /\ Batch >= 1
  BY ExecutionAssumption
<1>2. PICK n \in Nat : n = Len(s)
  OBVIOUS
<1>3. PICK N \in Nat : /\ N = (n + Batch - 1) \div Batch /\ n <= N * Batch
                       /\ \A i \in 1 .. N : (i - 1) * Batch \in Nat /\ (i - 1) * Batch < n
  BY <1>2, ChunkCount
<1> DEFINE C == [i \in 1 .. N |-> SubSeq(s, (i - 1) * Batch + 1, Min({i * Batch, n}))]
<1>4. ASSUME NEW i \in 1 .. N
      PROVE  /\ (i - 1) * Batch \in 0 .. n - 1
             /\ C[i] \in Seq(Tests)
             /\ Len(C[i]) \in 1 .. Batch
             /\ (i - 1) * Batch + Len(C[i]) <= n
             /\ i # N => Len(C[i]) = Batch
             /\ i = N => (i - 1) * Batch + Len(C[i]) = n
             /\ \A j \in 1 .. Len(C[i]) : C[i][j] = s[(i - 1) * Batch + j]
  <2>1. PICK b \in Nat : b = (i - 1) * Batch /\ b < n
    BY <1>3
  <2>2. i * Batch = b + Batch
    BY <1>1, <2>1
  <2>3. PICK m \in Nat : m = Min({i * Batch, n}) /\ m = IF b + Batch <= n THEN b + Batch ELSE n
    BY <1>1, <2>1, <2>2, LesserOfTwo
  <2>4. C[i] = SubSeq(s, b + 1, m)
    BY <2>1, <2>3
  <2> HIDE DEF C
  <2>5. m <= n /\ b + 1 <= m
    BY <1>1, <1>2, <2>1, <2>3
  <2>6. C[i] \in Seq(Tests) /\ Len(C[i]) = m - b
    <3>1. \A k \in b + 1 .. m : s[k] \in Tests
      BY <1>2, <2>5
    <3>2. QED  BY <2>4, <2>5, <3>1, SubSeqProperties
  <2>7. \A j \in 1 .. m - b : C[i][j] = s[b + j]
    BY <1>2, <2>4, <2>5
  <2>8. ASSUME i # N  PROVE b + Batch <= n
    <3>1. i + 1 \in 1 .. N /\ (i + 1) - 1 = i
      BY <2>8
    <3>2. i * Batch < n
      BY <1>3, <3>1
    <3>3. QED  BY <1>1, <2>2, <3>2
  <2>9. m - b \in 1 .. Batch /\ b + (m - b) <= n /\ (i # N => m - b = Batch)
    BY <1>1, <2>3, <2>5, <2>8
  <2>10. i = N => b + (m - b) = n
    BY <1>1, <1>3, <2>2, <2>3
  <2>11. b \in 0 .. n - 1
    BY <2>1, <1>2
  <2>12. QED  BY <2>1, <2>6, <2>7, <2>9, <2>10, <2>11
<1>5. C = Chunks(s)
  BY <1>2, <1>3 DEF Chunks
<1>6. C \in Seq(Seq(Tests)) /\ Len(C) = N
  <2>1. C \in [1 .. N -> Seq(Tests)]
    BY <1>4
  <2> HIDE DEF C
  <2>2. QED  BY <2>1, FunctionSeq
<1> HIDE DEF C
<1>7. QED  BY <1>2, <1>4, <1>5, <1>6 DEF Cut

Placed(s, C, i, j) ==
    \E b \in Nat, e \in Nat : /\ b = (i - 1) * Batch /\ C[i][j] = s[b + j]
                             /\ e = Len(C[i]) /\ b + e <= Len(s) /\ e <= Batch

LEMMA CutAt ==
    ASSUME NEW s, NEW C, Cut(s, C),
           NEW i \in 1 .. Len(C), NEW j \in 1 .. Len(C[i])
    PROVE  Placed(s, C, i, j)
<1>1. /\ (i - 1) * Batch \in 0 .. Len(s) - 1
      /\ Len(C[i]) \in 1 .. Batch
      /\ (i - 1) * Batch + Len(C[i]) <= Len(s)
      /\ C[i][j] = s[(i - 1) * Batch + j]
  BY Zenon DEF Cut
<1>2. (i - 1) * Batch \in Nat /\ Len(C[i]) \in Nat /\ Len(C[i]) <= Batch
  BY <1>1, ExecutionAssumption
<1>3. QED  BY <1>1, <1>2, Zenon DEF Placed

LEMMA ChunksApart ==
    ASSUME NEW s \in Seq(Tests), IsInjective(s)
    PROVE  Apart(Chunks(s))
<1>1. PICK C \in Seq(Seq(Tests)) : C = Chunks(s) /\ Cut(s, C)
  BY ChunksCut
<1>2. Batch \in Nat /\ Batch >= 1
  BY ExecutionAssumption
<1>3. PICK N \in Nat : N = Len(C)
  BY <1>1
<1>4. ASSUME NEW i \in 1 .. Len(C), NEW k \in 1 .. Len(C),
             NEW j \in 1 .. Len(C[i]), NEW l \in 1 .. Len(C[k]), C[i][j] = C[k][l]
      PROVE  i = k /\ j = l
  <2>1. PICK b \in Nat, e \in Nat : /\ b = (i - 1) * Batch /\ C[i][j] = s[b + j]
                                   /\ e = Len(C[i]) /\ b + e <= Len(s) /\ e <= Batch
    <3>1. Cut(s, C)
      BY <1>1
    <3>2. Placed(s, C, i, j)
      BY <3>1, CutAt, Zenon
    <3>3. QED  BY <3>2, Zenon DEF Placed
  <2>2. PICK c \in Nat, g \in Nat : /\ c = (k - 1) * Batch /\ C[k][l] = s[c + l]
                                   /\ g = Len(C[k]) /\ c + g <= Len(s) /\ g <= Batch
    <3>1. Cut(s, C)
      BY <1>1
    <3>2. Placed(s, C, k, l)
      BY <3>1, CutAt, Zenon
    <3>3. QED  BY <3>2, Zenon DEF Placed
  <2>3. j \in Nat /\ 1 <= j /\ j <= e /\ l \in Nat /\ 1 <= l /\ l <= g
    <3>1. j \in 1 .. e /\ l \in 1 .. g
      BY <2>1, <2>2
    <3>2. QED  BY <3>1
  <2>4. b + j = c + l
    <3>1. b + j \in DOMAIN s /\ c + l \in DOMAIN s
      <4>1. PICK n \in Nat : n = Len(s)
        OBVIOUS
      <4>2. b + e <= n /\ c + g <= n
        BY <2>1, <2>2, <4>1
      <4>3. b + j \in 1 .. n /\ c + l \in 1 .. n
        BY <2>3, <4>2
      <4>4. QED  BY <4>1, <4>3
    <3>2. s[b + j] = s[c + l]
      BY <1>4, <2>1, <2>2, Zenon
    <3>3. QED  BY <3>1, <3>2, Zenon DEF IsInjective
  <2>5. ASSUME NEW x \in Nat, NEW y \in Nat, x < y  PROVE x * Batch + Batch <= y * Batch
    <3>1. PICK d \in Nat : y = x + 1 + d
      <4>1. y - x - 1 \in Nat /\ y = x + 1 + (y - x - 1)
        BY <2>5
      <4>2. QED  BY <4>1
    <3>2. y * Batch = x * Batch + Batch + d * Batch /\ d * Batch \in Nat /\ x * Batch \in Nat
      BY <1>2, <3>1
    <3>3. QED  BY <1>2, <3>2
  <2>6. PICK x \in Nat, y \in Nat : x = i - 1 /\ y = k - 1
    BY <1>3
  <2>7. x < y => b + Batch <= c
    BY <2>1, <2>2, <2>5, <2>6
  <2>8. y < x => c + Batch <= b
    BY <2>1, <2>2, <2>5, <2>6
  <2>9. i = k
    <3>1. b - c < Batch /\ c - b < Batch
      <4>1. j <= Batch /\ l <= Batch /\ b \in Nat /\ c \in Nat
        BY <1>2, <2>1, <2>2, <2>3
      <4>2. QED  BY <1>2, <2>3, <2>4, <4>1
    <3>2. ~(x < y) /\ ~(y < x)
      BY <1>2, <2>1, <2>2, <2>7, <2>8, <3>1
    <3>3. x = y
      BY <3>2
    <3>4. QED  BY <1>3, <2>6, <3>3, SMTT(30)
  <2>10. QED  BY <2>1, <2>2, <2>3, <2>4, <2>9
<1>5. Apart(C)
  BY <1>3, <1>4 DEF Apart
<1>6. QED  BY <1>1, <1>5

LEMMA ChunksFlatten ==
    ASSUME NEW s \in Seq(Tests)
    PROVE  FlattenSeq(Chunks(s)) = s
<1>1. PICK C \in Seq(Seq(Tests)) : C = Chunks(s) /\ Cut(s, C)
  BY ChunksCut
<1>2. Batch \in Nat /\ Batch >= 1
  BY ExecutionAssumption
<1>3. PICK N \in Nat : N = Len(C)
  BY <1>1
<1>4. PICK n \in Nat : n = Len(s)
  OBVIOUS
<1>5. N = (n + Batch - 1) \div Batch /\ n <= N * Batch
  <2>1. DOMAIN Chunks(s) = 1 .. (n + Batch - 1) \div Batch
    BY <1>4 DEF Chunks
  <2>2. (n + Batch - 1) \div Batch \in Nat /\ n <= ((n + Batch - 1) \div Batch) * Batch
    BY ChunkCount
  <2>3. PICK M \in Nat : M = (n + Batch - 1) \div Batch /\ n <= M * Batch
    BY <2>2
  <2>4. 1 .. N = 1 .. M
    BY <1>1, <1>3, <2>1, <2>3
  <2>5. N = M
    BY <2>4
  <2>6. QED  BY <2>3, <2>5
<1>6. CASE N = 0
  <2>1. n = 0
    <3>1. n <= 0 * Batch
      BY <1>5, <1>6
    <3>2. QED  BY <1>2, <3>1
  <2>2. s = <<>> /\ C = <<>>
    BY <1>1, <1>3, <1>4, <1>6, <2>1, EmptySeq
  <2>3. FlattenSeq(C) = C
    BY <1>3, <1>6 DEF FlattenSeq
  <2>4. QED  BY <1>1, <2>2, <2>3, Zenon
<1>7. CASE N > 0
  <2>1. PICK f \in [1 .. N -> Seq(Tests)] : Through(C, N, f)
    BY <1>3, <1>7, Flattened
  <2> DEFINE Good(k) == f[k] = SubSeq(s, 1, (k - 1) * Batch + Len(C[k]))
             S == {k \in 0 .. N : k = 0 \/ Good(k)}
  <2>2. ASSUME NEW k \in 0 .. N - 1, k \in S  PROVE k + 1 \in S
    <3>1. PICK m \in Nat : m = Len(C[k + 1]) /\ m >= 1 /\ k * Batch \in Nat /\ k * Batch + m <= n
      <4>1. k + 1 \in 1 .. Len(C) /\ (k + 1) - 1 = k
        BY <1>3
      <4>2. k * Batch \in 0 .. n - 1 /\ Len(C[k + 1]) \in 1 .. Batch /\ k * Batch + Len(C[k + 1]) <= n
        BY <1>1, <1>4, <4>1 DEF Cut
      <4>3. k * Batch \in Nat /\ Len(C[k + 1]) \in Nat /\ Len(C[k + 1]) >= 1
        BY <1>2, <4>2
      <4>4. QED  BY <4>2, <4>3
    <3>2. PICK b \in Nat : b = k * Batch
      BY <3>1
    <3>3. C[k + 1] = SubSeq(s, b + 1, b + m)
      <4>1. /\ C[k + 1] \in Seq(Tests)
            /\ \A j \in 1 .. m : C[k + 1][j] = s[b + j]
        <5>1. k + 1 \in 1 .. Len(C) /\ (k + 1) - 1 = k
          BY <1>3
        <5>2. QED  BY <1>1, <3>1, <3>2, <5>1, Zenon DEF Cut
      <4>2. \A x \in b + 1 .. b + m : s[x] \in Tests
        BY <1>4, <3>1, <3>2, SMTT(30)
      <4>3. /\ SubSeq(s, b + 1, b + m) \in Seq(Tests) /\ Len(SubSeq(s, b + 1, b + m)) = m
            /\ \A j \in 1 .. m : SubSeq(s, b + 1, b + m)[j] = s[b + j]
        <5>1. /\ b + 1 \in Int /\ b + m \in Int /\ b + 1 <= b + m
              /\ (b + m) - (b + 1) + 1 = m
          BY <3>1
        <5>2. /\ SubSeq(s, b + 1, b + m) \in Seq(Tests)
              /\ Len(SubSeq(s, b + 1, b + m))
                   = IF b + 1 <= b + m THEN (b + m) - (b + 1) + 1 ELSE 0
              /\ \A j \in 1 .. (b + m) - (b + 1) + 1 :
                   SubSeq(s, b + 1, b + m)[j] = s[(b + 1) + j - 1]
          BY <4>2, <5>1, SubSeqProperties
        <5>3. \A j \in 1 .. m : (b + 1) + j - 1 = b + j
          OBVIOUS
        <5>4. QED  BY <5>1, <5>2, <5>3, Zenon
      <4>4. PICK u \in Seq(Tests) : u = SubSeq(s, b + 1, b + m) /\ Len(u) = m /\ \A j \in 1 .. m : u[j] = s[b + j]
        BY <4>3
      <4>5. Len(C[k + 1]) = Len(u) /\ \A j \in 1 .. Len(u) : C[k + 1][j] = u[j]
        BY <3>1, <4>1, <4>4
      <4>6. C[k + 1] = u
        BY <4>1, <4>5, SeqEqual
      <4>7. QED  BY <4>4, <4>6
    <3>4. CASE k = 0
      <4>1. f[1] = C[1] /\ b = 0
        BY <2>1, <3>2, <3>4, <1>2 DEF Through
      <4>2. f[1] = SubSeq(s, 1, m)
        BY <3>3, <3>4, <4>1
      <4>3. (1 - 1) * Batch + Len(C[1]) = m
        <5>1. k + 1 = 1 /\ Len(C[1]) = m /\ (1 - 1) * Batch = 0
          BY <1>2, <3>1, <3>4
        <5>2. QED  BY <3>1, <5>1
      <4>4. Good(1)
        BY <4>2, <4>3, Zenon
      <4>5. QED  BY <1>7, <3>4, <4>4
    <3>5. CASE k # 0
      <4>1. k \in 1 .. N - 1 /\ k \in 1 .. Len(C) /\ k # Len(C) /\ k + 1 \in 1 .. N
        BY <1>3, <3>5
      <4>2. Len(C[k]) = Batch /\ Good(k)
        BY <1>1, <2>2, <3>5, <4>1 DEF Cut
      <4>3. (k - 1) * Batch + Batch = b
        BY <1>2, <3>2
      <4>4. f[k] = SubSeq(s, 1, b)
        BY <4>2, <4>3
      <4>5. f[k + 1] = Cat(f[k], C[k + 1])
        BY <2>1, <4>1, Zenon DEF Through
      <4>6. SubSeq(s, 1, b) \o SubSeq(s, b + 1, b + m) = SubSeq(s, 1, b + m)
        <5>1. 1 \in 1 .. Len(s) + 1 /\ b \in 1 - 1 .. Len(s) /\ b + m \in b .. Len(s)
          BY <1>4, <3>1, <3>2
        <5>2. QED  BY <5>1, ConcatAdjacentSubSeq
      <4>7. f[k + 1] = SubSeq(s, 1, b + m)
        BY <3>3, <4>4, <4>5, <4>6, Zenon DEF Cat
      <4>8. ((k + 1) - 1) * Batch + Len(C[k + 1]) = b + m
        BY <3>1, <3>2
      <4>9. Good(k + 1)
        BY <4>7, <4>8, Zenon
      <4>10. QED  BY <4>1, <4>9
    <3>6. QED  BY <3>4, <3>5
  <2>3. 0 .. N \subseteq S
    <3>1. 0 \in S
      BY <1>3
    <3> HIDE DEF S
    <3>2. QED  BY <2>2, <3>1, UpTo
  <2>4. Good(N)
    <3>1. N \in 0 .. N /\ N # 0
      BY <1>7
    <3>2. QED  BY <2>3, <3>1, Zenon
  <2>5. (N - 1) * Batch + Len(C[N]) = n
    <3>1. N \in 1 .. Len(C)
      BY <1>3, <1>7
    <3>2. QED  BY <1>1, <1>3, <1>4, <3>1 DEF Cut
  <2>6. FlattenSeq(C) = SubSeq(s, 1, n)
    BY <2>1, <2>4, <2>5 DEF Through
  <2>7. QED  BY <1>1, <1>4, <2>6, SubSeqFull
<1>8. QED  BY <1>6, <1>7

-----------------------------------------------------------------------------
(* What is made of the output of a batch *)

LEMMA ParseFacts ==
    ASSUME NEW b \in Seq(Tests), NEW v \in Verdicts(b),
           NEW lines \in SUBSET {j \in DOMAIN b : Word(v[j]) # None}, NEW closing
    PROVE  LET p == ParseBatch(b, v, lines, closing) IN
           /\ p \in Seq(Res) /\ Len(p) = Len(b)
           /\ \A j \in 1 .. Len(b) : /\ p[j].test = b[j]
                                     /\ j \in lines => p[j].outcome = Word(v[j])
<1>1. PICK n \in Nat : n = Len(b) /\ DOMAIN b = 1 .. n /\ \A j \in 1 .. n : b[j] \in Tests
  OBVIOUS
<1>2. ASSUME NEW j \in lines  PROVE Word(v[j]) \in Outcome
  <2>1. v[j] \in Verdict /\ Word(v[j]) # None
    BY DEF Verdicts
  <2>2. QED  BY <2>1, ExecutionAssumption DEF Word, Verdict, Outcome
<1>3. ASSUME NEW j \in 1 .. n  PROVE OutcomeOf(b, v, lines, closing, j) \in Outcome
  <2> DEFINE alike == {l \in lines : NameOf[b[l]] = NameOf[b[j]]}
  <2>1. Fallback(closing) \in Outcome
    BY DEF Fallback, Outcome
  <2>2. alike # {} => Word(v[Max(alike)]) \in Outcome
    <3>1. alike \in SUBSET (0 .. n)
      BY <1>1
    <3>2. alike # {} => Max(alike) \in alike
      BY <3>1, GreatestNumber
    <3>3. QED  BY <1>2, <3>2
  <2>3. j \in lines => Word(v[j]) \in Outcome
    BY <1>2
  <2> HIDE DEF alike
  <2>4. \/ OutcomeOf(b, v, lines, closing, j) = Fallback(closing)
        \/ j \in lines /\ OutcomeOf(b, v, lines, closing, j) = Word(v[j])
        \/ alike # {} /\ OutcomeOf(b, v, lines, closing, j) = Word(v[Max(alike)])
    <3>1. CASE j \in lines
      BY <3>1 DEF OutcomeOf
    <3>2. CASE j \notin lines /\ b[j] \notin InClass /\ alike # {}
      BY <3>2 DEF OutcomeOf, alike
    <3>3. CASE j \notin lines /\ ~(b[j] \notin InClass /\ alike # {})
      BY <3>3 DEF OutcomeOf, alike
    <3>4. QED  BY <3>1, <3>2, <3>3
  <2>5. QED  BY <2>1, <2>2, <2>3, <2>4
<1> DEFINE p == ParseBatch(b, v, lines, closing)
<1>4. ASSUME NEW j \in 1 .. n
      PROVE  p[j] = [test |-> b[j], outcome |-> OutcomeOf(b, v, lines, closing, j)]
  BY <1>1 DEF ParseBatch, Result
<1>5. p \in [1 .. n -> Res]
  <2>1. p = [j \in 1 .. n |-> p[j]]
    BY <1>1 DEF ParseBatch
  <2> HIDE DEF p
  <2>2. ASSUME NEW j \in 1 .. n  PROVE p[j] \in Res
    <3>1. b[j] \in Tests /\ OutcomeOf(b, v, lines, closing, j) \in Outcome
      BY <1>1, <1>3
    <3>2. [test |-> b[j], outcome |-> OutcomeOf(b, v, lines, closing, j)] \in Res
      BY <3>1 DEF Res
    <3>3. QED  BY <1>4, <3>2
  <2>3. QED  BY <2>1, <2>2
<1>6. ASSUME NEW j \in 1 .. n
      PROVE  p[j].test = b[j] /\ (j \in lines => p[j].outcome = Word(v[j]))
  <2>1. j \in lines => OutcomeOf(b, v, lines, closing, j) = Word(v[j])
    BY DEF OutcomeOf
  <2> HIDE DEF p
  <2>2. p[j].test = b[j] /\ p[j].outcome = OutcomeOf(b, v, lines, closing, j)
    <3>1. PICK t, o : t = b[j] /\ o = OutcomeOf(b, v, lines, closing, j)
      OBVIOUS
    <3>2. p[j] = [test |-> t, outcome |-> o]
      BY <1>4, <3>1
    <3>3. QED  BY <3>1, <3>2
  <2>3. QED  BY <2>1, <2>2, Zenon
<1> HIDE DEF p
<1>7. p \in Seq(Res) /\ Len(p) = n
  BY <1>5, FunctionSeq
<1>8. QED  BY <1>1, <1>6, <1>7 DEF p

-----------------------------------------------------------------------------
(* The steps *)

LEMMA InitKeeps == ExecInit => ExecInv
<1> SUFFICES ASSUME ExecInit  PROVE ExecInv
  OBVIOUS
<1> USE DEF ExecInit
<1>1. TypeInv
  BY DEF TypeInv, Verdict
<1>2. IdleInv /\ SplitInv /\ BatchInv /\ PluginInv /\ GatherInv /\ SummaryInv
  BY DEF IdleInv, SplitInv, BatchInv, PluginInv, GatherInv, SummaryInv, Started, Ended
<1>3. QED  BY <1>1, <1>2 DEF ExecInv

LEMMA SplitFacts ==
    ASSUME NEW request \in Requests
    PROVE  /\ Split(request) \in Seq(Seq(Tests)) /\ Apart(Split(request))
           /\ FlattenSeq(Split(request)) = Runnable(request)
<1>1. PICK s \in Seq(Tests) : s = Runnable(request) /\ IsInjective(s)
  BY RunnableFacts
<1>2. CASE mode = "subprocess"
  <2>1. Chunks(s) \in Seq(Seq(Tests)) /\ Apart(Chunks(s)) /\ FlattenSeq(Chunks(s)) = s
    BY <1>1, ChunksCut, ChunksApart, ChunksFlatten
  <2>2. QED  BY <1>1, <1>2, <2>1 DEF Split
<1>3. CASE mode # "subprocess"
  <2>1. <<s>> \in Seq(Seq(Tests)) /\ Len(<<s>>) = 1 /\ <<s>>[1] = s
    BY <1>1
  <2>2. FlattenSeq(<<s>>) = s
    <3>1. PICK ss \in Seq(Seq(Tests)) : ss = <<s>> /\ Len(ss) = 1 /\ ss[1] = s
      BY <2>1
    <3>2. PICK f \in [1 .. Len(ss) -> Seq(Tests)] : Through(ss, Len(ss), f)
      <4>1. Len(ss) > 0
        BY <3>1
      <4>2. QED  BY <4>1, Flattened, Zenon
    <3>3. f[1] = ss[1] /\ f[1] = FlattenSeq(ss)
      BY <3>1, <3>2 DEF Through
    <3>4. QED  BY <3>1, <3>3
  <2>3. Apart(<<s>>)
    BY <1>1, <2>1 DEF Apart, IsInjective
  <2>4. QED  BY <1>1, <1>3, <2>1, <2>2, <2>3 DEF Split
<1>4. QED  BY <1>2, <1>3

LEMMA BeginKeeps ==
    ASSUME ExecInv, NEW request \in Requests, Begin(request)
    PROVE  ExecInv'
<1> USE DEF Begin
<1>1. batches' = Split(request) /\ Split(request) \in Seq(Seq(Tests)) /\ Split(request)' = Split(request)
  BY SplitFacts DEF Split
<1>2. PICK n \in Nat : n = Len(batches') /\ DOMAIN batches' = 1 .. n
  <2>1. batches' \in Seq(Seq(Tests))
    BY <1>1
  <2>2. QED  BY <2>1, LenProperties
<1>3. parsed' \in Seq(Seq(Res)) /\ Len(parsed') = n
  <2>1. parsed' = [i \in 1 .. n |-> <<>>] /\ <<>> \in Seq(Res)
    BY <1>2
  <2>2. [i \in 1 .. n |-> <<>>] \in [1 .. n -> Seq(Res)]
    BY <2>1
  <2>3. QED  BY <2>1, <2>2, FunctionSeq
<1>4. TypeInv'
  BY <1>3 DEF ExecInv, TypeInv
<1>5. SplitInv'
  <2>1. asked' \in Requests /\ batches' = Split(asked)' /\ DOMAIN task' = 1 .. Len(batches')
    BY <1>1, <1>2 DEF Split
  <2>2. QED  BY <1>2, <1>3, <2>1 DEF SplitInv
<1>6. BatchInv'
  <2>1. \A i \in 1 .. Len(batches') : task'[i] # "done" /\ BatchOpen(i)'
    BY <1>2 DEF ExecInv, IdleInv, BatchOpen
  <2>2. QED  BY <2>1 DEF BatchInv
<1>7. PluginInv'
  BY DEF ExecInv, IdleInv, PluginInv
<1>8. (IdleInv /\ GatherInv /\ SummaryInv)'
  BY DEF IdleInv, GatherInv, SummaryInv, Ended
<1>9. QED  BY <1>4, <1>5, <1>6, <1>7, <1>8 DEF ExecInv

LEMMA StartBatchKeeps ==
    ASSUME ExecInv, NEW i \in DOMAIN task, StartBatch(i)
    PROVE  ExecInv'
<1> USE DEF StartBatch
<1>1. i \in 1 .. Len(batches) /\ DOMAIN task' = DOMAIN task
  BY DEF ExecInv, SplitInv, Started
<1>2. TypeInv' /\ IdleInv' /\ PluginInv' /\ SummaryInv' /\ GatherInv'
  BY DEF ExecInv, TypeInv, IdleInv, PluginInv, SummaryInv, GatherInv, Ended
<1>3. SplitInv'
  <2>1. Split(asked)' = Split(asked)
    BY DEF Split
  <2>2. QED  BY <1>1, <2>1 DEF ExecInv, SplitInv, Started
<1>4. BatchInv'
  <2>1. ASSUME NEW k \in 1 .. Len(batches)
        PROVE  IF task'[k] = "done" THEN BatchDone(k)' ELSE BatchOpen(k)'
    <3>1. (task'[k] = "done") <=> (task[k] = "done")
      BY DEF ExecInv, SplitInv, Started
    <3>2. BatchDone(k)' = BatchDone(k) /\ BatchOpen(k)' = BatchOpen(k)
      BY DEF BatchDone, BatchOpen
    <3>3. IF task[k] = "done" THEN BatchDone(k) ELSE BatchOpen(k)
      BY DEF ExecInv, BatchInv, Started
    <3>4. QED  BY <3>1, <3>2, <3>3
  <2>2. QED  BY <2>1 DEF BatchInv
<1>5. QED  BY <1>2, <1>3, <1>4 DEF ExecInv

(* The verdicts of a batch become those of its tests. *)
LEMMA FoundOf ==
    ASSUME NEW b \in Seq(Tests), IsInjective(b), NEW v \in Verdicts(b), found \in [Tests -> Verdict],
           found' = FoundAfter(b, v)
    PROVE  /\ found' \in [Tests -> Verdict]
           /\ \A j \in 1 .. Len(b) : found'[b[j]] = v[j]
           /\ \A t \in Tests : (\A j \in 1 .. Len(b) : b[j] # t) => found'[t] = found[t]
<1> DEFINE place(t) == CHOOSE j \in DOMAIN b : b[j] = t
<1>1. DOMAIN b = 1 .. Len(b) /\ \A j \in DOMAIN b : b[j] \in Tests /\ v[j] \in Verdict
  BY DEF Verdicts
<1>2. ASSUME NEW j \in DOMAIN b  PROVE place(b[j]) = j
  BY DEF IsInjective
<1>3. found' = [t \in Tests |-> IF t \in ToSet(b) THEN v[place(t)] ELSE found[t]]
  BY DEF FoundAfter
<1> HIDE DEF place
<1>4. ASSUME NEW j \in DOMAIN b  PROVE found'[b[j]] = v[j]
  <2>1. b[j] \in ToSet(b) /\ b[j] \in Tests
    BY <1>1 DEF ToSet
  <2>2. QED  BY <1>2, <1>3, <2>1
<1>5. ASSUME NEW t \in Tests  PROVE found'[t] \in Verdict
  <2>1. CASE t \in ToSet(b)
    <3>1. PICK j \in DOMAIN b : b[j] = t
      BY <2>1 DEF ToSet
    <3>2. QED  BY <1>1, <1>4, <3>1
  <2>2. CASE t \notin ToSet(b)
    BY <1>3, <2>2
  <2>3. QED  BY <2>1, <2>2
<1>6. ASSUME NEW t \in Tests, \A j \in DOMAIN b : b[j] # t  PROVE found'[t] = found[t]
  BY <1>3, <1>6 DEF ToSet
<1>7. found' \in [Tests -> Verdict]
  <2>1. found' = [t \in Tests |-> found'[t]]
    BY <1>3
  <2>2. QED  BY <1>5, <2>1
<1>8. QED  BY <1>1, <1>4, <1>6, <1>7

\* What the end of batch i makes of its output, for the tests b.
BatchRan(b, i) ==
    \E v \in Verdicts(b) :
       \E lines \in SUBSET {j \in DOMAIN b : Word(v[j]) # None}, closing \in Closings(v) :
          /\ parsed' = [parsed EXCEPT ![i] = ParseBatch(b, v, lines, closing)]
          /\ read' = read \cup {b[j] : j \in lines}
          /\ found' = FoundAfter(b, v)

LEMMA FinishBatchKeeps ==
    ASSUME ExecInv, NEW i \in DOMAIN task, FinishBatch(i)
    PROVE  ExecInv'
<1>1. /\ stage = "running" /\ mode = "subprocess" /\ task[i] = "running"
      /\ task' = [task EXCEPT ![i] = "done"]
      /\ UNCHANGED <<stage, mode, asked, batches, results, summary>>
  BY DEF FinishBatch
<1>2. PICK r \in Requests : r = asked /\ batches = Split(r)
  BY <1>1 DEF ExecInv, SplitInv, Started
<1>3. PICK n \in Nat : n = Len(batches) /\ DOMAIN task = 1 .. n /\ Len(parsed) = n
  <2>1. Split(r) \in Seq(Seq(Tests))
    BY SplitFacts
  <2>2. QED  BY <1>1, <1>2, <2>1, LenProperties DEF ExecInv, SplitInv, Started
<1>4. PICK b \in Seq(Tests) : b = batches[i] /\ IsInjective(b)
  <2>1. Split(r) \in Seq(Seq(Tests)) /\ Apart(Split(r))
    BY SplitFacts
  <2>2. batches[i] \in Seq(Tests)
    BY <1>2, <1>3, <2>1, ElementOfSeq
  <2>3. IsInjective(batches[i])
    BY <1>2, <1>3, <2>1, <2>2, SMTT(30) DEF IsInjective, Apart
  <2>4. QED  BY <2>2, <2>3
<1>5. PICK v \in Verdicts(b) :
         \E lines \in SUBSET {j \in DOMAIN b : Word(v[j]) # None}, closing \in Closings(v) :
             /\ parsed' = [parsed EXCEPT ![i] = ParseBatch(b, v, lines, closing)]
             /\ read' = read \cup {b[j] : j \in lines}
             /\ found' = FoundAfter(b, v)
  <2>1. BatchRan(batches[i], i)
    BY Zenon DEF FinishBatch, BatchRan
  <2>2. BatchRan(b, i)
    BY <1>4, <2>1
  <2>3. QED  BY <2>2, Zenon DEF BatchRan
<1>6. PICK lines \in SUBSET {j \in DOMAIN b : Word(v[j]) # None}, closing \in Closings(v) :
             /\ parsed' = [parsed EXCEPT ![i] = ParseBatch(b, v, lines, closing)]
             /\ read' = read \cup {b[j] : j \in lines}
             /\ found' = FoundAfter(b, v)
  BY <1>5
<1>7. /\ found' \in [Tests -> Verdict]
      /\ \A j \in 1 .. Len(b) : found'[b[j]] = v[j]
      /\ \A t \in Tests : (\A j \in 1 .. Len(b) : b[j] # t) => found'[t] = found[t]
  <2>1. found \in [Tests -> Verdict] /\ found' = FoundAfter(b, v)
    BY <1>6 DEF ExecInv, TypeInv
  <2>2. QED  BY <1>4, <2>1, FoundOf
<1>8. PICK p \in Seq(Res) : /\ p = ParseBatch(b, v, lines, closing) /\ Len(p) = Len(b)
                            /\ \A j \in 1 .. Len(b) : /\ p[j].test = b[j]
                                                      /\ j \in lines => p[j].outcome = Word(v[j])
  BY ParseFacts
<1>9. /\ parsed' \in Seq(Seq(Res)) /\ Len(parsed') = n /\ parsed'[i] = p
      /\ \A k \in 1 .. n : k # i => parsed'[k] = parsed[k]
  <2>1. parsed \in [1 .. n -> Seq(Res)]
    <3>1. parsed \in Seq(Seq(Res))
      BY DEF ExecInv, TypeInv
    <3>2. QED  BY <1>3, <3>1, LenProperties
  <2>2. parsed' = [parsed EXCEPT ![i] = p]
    BY <1>6, <1>8
  <2>3. parsed' \in [1 .. n -> Seq(Res)]
    BY <2>1, <2>2
  <2>4. parsed' \in Seq(Seq(Res)) /\ Len(parsed') = n
    BY <2>3, FunctionSeq
  <2>5. QED  BY <1>3, <2>1, <2>2, <2>4
<1>10. {b[j] : j \in lines} \subseteq {b[j] : j \in DOMAIN b} /\ {b[j] : j \in DOMAIN b} \subseteq Tests
  BY <1>4
<1>11. TypeInv'
  BY <1>1, <1>6, <1>7, <1>9, <1>10 DEF ExecInv, TypeInv
<1>12. SplitInv'
  <2>1. Split(asked)' = Split(asked) /\ DOMAIN task' = DOMAIN task
    BY <1>1 DEF Split
  <2>2. QED  BY <1>1, <1>3, <1>9, <2>1 DEF ExecInv, SplitInv, Started
<1>13. BatchInv'
  <2>1. ASSUME NEW k \in 1 .. n
        PROVE  IF task'[k] = "done" THEN BatchDone(k)' ELSE BatchOpen(k)'
    <3>1. CASE k = i
      <4>1. task'[k] = "done"
        BY <1>1, <3>1
      <4>2. ASSUME NEW j \in 1 .. Len(b), b[j] \in read'  PROVE p[j].outcome = Word(found'[b[j]])
        <5>1. b[j] \notin read
          BY <1>1, <1>3, <1>4 DEF ExecInv, BatchInv, BatchOpen, Started
        <5>2. PICK l \in lines : b[j] = b[l]
          BY <1>6, <4>2, <5>1
        <5>3. j = l
          BY <1>4, <5>2 DEF IsInjective
        <5>4. QED  BY <1>7, <1>8, <5>2, <5>3
      <4>3. parsed'[i] = p /\ batches'[i] = b
        BY <1>1, <1>4, <1>9
      <4>4. BatchDone(i)'
        BY <1>8, <4>2, <4>3, Zenon DEF BatchDone
      <4>5. QED  BY <3>1, <4>1, <4>4
    <3>2. CASE k # i
      <4>1. batches'[k] = batches[k] /\ parsed'[k] = parsed[k] /\ task'[k] = task[k]
        BY <1>1, <1>3, <1>9, <3>2
      <4>2. ASSUME NEW j \in 1 .. Len(batches[k])
            PROVE  /\ batches[k][j] \in Tests
                   /\ \A l \in 1 .. Len(b) : b[l] # batches[k][j]
        <5>1. Split(r) \in Seq(Seq(Tests)) /\ Apart(Split(r))
          BY SplitFacts
        <5>2. batches[k] \in Seq(Tests)
          BY <1>2, <1>3, <5>1, ElementOfSeq
        <5>3. QED  BY <1>2, <1>3, <1>4, <3>2, <5>1, <5>2 DEF Apart
      <4>3. ASSUME NEW j \in 1 .. Len(batches[k])
            PROVE  /\ found'[batches[k][j]] = found[batches[k][j]]
                   /\ batches[k][j] \in read' <=> batches[k][j] \in read
        <5>1. \A l \in lines : l \in 1 .. Len(b)
          BY <1>4
        <5>2. QED  BY <1>6, <1>7, <4>2, <5>1
      <4>4. IF task[k] = "done" THEN BatchDone(k) ELSE BatchOpen(k)
        BY <1>1, <1>3 DEF ExecInv, BatchInv, Started
      <4>5. CASE task[k] = "done"
        <5>1. BatchDone(k)
          BY <4>4, <4>5
        <5>2. BatchDone(k)'
          BY <4>1, <4>3, <5>1 DEF BatchDone
        <5>3. QED  BY <4>1, <4>5, <5>2
      <4>6. CASE task[k] # "done"
        <5>1. BatchOpen(k)
          BY <4>4, <4>6
        <5>2. BatchOpen(k)'
          BY <4>1, <4>3, <5>1 DEF BatchOpen
        <5>3. QED  BY <4>1, <4>6, <5>2
      <4>7. QED  BY <4>5, <4>6
    <3>3. QED  BY <3>1, <3>2
  <2>2. QED  BY <1>1, <1>3, <2>1 DEF BatchInv
<1>14. (IdleInv /\ PluginInv /\ GatherInv /\ SummaryInv)'
  BY <1>1 DEF IdleInv, PluginInv, GatherInv, SummaryInv, Ended
<1>15. QED  BY <1>11, <1>12, <1>13, <1>14 DEF ExecInv

LEMMA GatherKeeps ==
    ASSUME ExecInv, Gather
    PROVE  ExecInv'
<1>1. /\ stage = "running" /\ mode = "subprocess" /\ stage' = "gathered"
      /\ \A i \in DOMAIN task : task[i] = "done"
      /\ results' = FlattenSeq(parsed)
      /\ UNCHANGED <<mode, asked, batches, task, found, read, parsed, summary>>
  BY DEF Gather
<1>2. PICK r \in Requests : r = asked /\ batches = Split(r)
  BY <1>1 DEF ExecInv, SplitInv, Started
<1>3. batches \in Seq(Seq(Tests)) /\ FlattenSeq(batches) = Runnable(asked)
  BY <1>2, SplitFacts
<1>4. PICK n \in Nat : n = Len(batches) /\ DOMAIN task = 1 .. n /\ Len(parsed) = n
  BY <1>1, <1>3, LenProperties DEF ExecInv, SplitInv, Started
<1>5. parsed \in Seq(Seq(Res))
  BY DEF ExecInv, TypeInv
<1>6. ASSUME NEW i \in 1 .. n  PROVE BatchDone(i) /\ parsed[i] \in Seq(Res) /\ batches[i] \in Seq(Tests)
  BY <1>1, <1>3, <1>4, <1>5, ElementOfSeq DEF ExecInv, BatchInv, Started
<1>7. results' \in Seq(Res)
  BY <1>1, <1>5, FlattenType
<1>8. TestsOf(results') = Runnable(asked)
  <2> DEFINE R == {p \in Res \X Tests : p[1].test = p[2]}
  <2>1. ASSUME NEW i \in 1 .. n  PROVE Alike(parsed[i], batches[i], R)
    <3>1. ASSUME NEW j \in 1 .. Len(parsed[i])  PROVE <<parsed[i][j], batches[i][j]>> \in R
      <4>1. j \in 1 .. Len(batches[i]) /\ parsed[i][j].test = batches[i][j]
        BY <1>6 DEF BatchDone
      <4>2. parsed[i][j] \in Res /\ batches[i][j] \in Tests
        BY <1>6, <4>1, ElementOfSeq
      <4>3. QED  BY <4>1, <4>2
    <3>2. Len(parsed[i]) = Len(batches[i])
      BY <1>6 DEF BatchDone
    <3> HIDE DEF R
    <3>3. QED  BY <3>1, <3>2 DEF Alike
  <2>2. Alike(results', Runnable(asked), R)
    <3> HIDE DEF R
    <3>1. Len(parsed) = Len(batches) /\ \A i \in 1 .. Len(parsed) : Alike(parsed[i], batches[i], R)
      BY <1>4, <2>1
    <3>2. Alike(FlattenSeq(parsed), FlattenSeq(batches), R)
      BY <1>3, <1>5, <3>1, FlattenAlike
    <3>3. QED  BY <1>1, <1>3, <3>2
  <2>3. PICK s \in Seq(Tests) : s = Runnable(asked)
    BY <1>3, FlattenType
  <2>4. PICK q \in Seq(Res) : q = results'
    BY <1>7
  <2>5. Len(q) = Len(s) /\ \A i \in 1 .. Len(q) : q[i].test = s[i]
    BY <2>2, <2>3, <2>4 DEF Alike
  <2>6. TestsOf(q) = s
    BY <2>5 DEF TestsOf
  <2>7. QED  BY <2>3, <2>4, <2>6
<1>9. \A i \in 1 .. Len(results') :
         results'[i].test \in read => results'[i].outcome = Word(found[results'[i].test])
  <2> DEFINE B == {r_1 \in Res : r_1.test \in read => r_1.outcome = Word(found[r_1.test])}
  <2>1. ASSUME NEW i \in 1 .. n  PROVE parsed[i] \in Seq(B)
    <3>1. PICK m \in Nat : m = Len(parsed[i]) /\ m = Len(batches[i]) /\ parsed[i] \in [1 .. m -> Res]
      BY <1>6, LenProperties DEF BatchDone
    <3>2. ASSUME NEW j \in 1 .. m  PROVE parsed[i][j] \in B
      BY <1>6, <3>1 DEF BatchDone
    <3> HIDE DEF B
    <3>3. parsed[i] \in [1 .. m -> B]
      BY <3>1, <3>2
    <3>4. QED  BY <3>3, FunctionSeq
  <2> HIDE DEF B
  <2>2. parsed \in Seq(Seq(B))
    <3>1. parsed \in [1 .. n -> Seq(Res)]
      BY <1>4, <1>5, LenProperties
    <3>2. parsed \in [1 .. n -> Seq(B)]
      BY <2>1, <3>1
    <3>3. QED  BY <3>2, FunctionSeq
  <2>3. results' \in Seq(B)
    BY <1>1, <2>2, FlattenType
  <2>4. \A i \in 1 .. Len(results') : results'[i] \in B
    BY <2>3, ElementOfSeq
  <2>5. QED  BY <2>4 DEF B
<1>10. TypeInv' /\ SplitInv'
  <2>1. Split(asked)' = Split(asked)
    BY <1>1 DEF Split
  <2>2. QED  BY <1>1, <1>7, <2>1 DEF ExecInv, TypeInv, SplitInv, Started
<1>11. BatchInv'
  <2>1. ASSUME NEW i \in 1 .. n  PROVE task'[i] = "done" /\ BatchDone(i)'
    BY <1>1, <1>4, <1>6 DEF BatchDone
  <2>2. QED  BY <1>1, <1>4, <2>1 DEF BatchInv
<1>12. GatherInv'
  BY <1>1, <1>8, <1>9 DEF GatherInv, TestsOf, Runnable
<1>13. (IdleInv /\ PluginInv /\ SummaryInv)'
  BY <1>1 DEF IdleInv, PluginInv, SummaryInv
<1>14. QED  BY <1>10, <1>11, <1>12, <1>13 DEF ExecInv

\* The batch of the embedded executor.
LEMMA EmbeddedBatch ==
    ASSUME ExecInv, stage = "running", mode = "embedded"
    PROVE  /\ batches[1] = Runnable(asked) /\ asked \in Requests /\ Len(parsed) = 1
           /\ Runnable(asked) \in Seq(Tests) /\ IsInjective(Runnable(asked))
<1>1. asked \in Requests /\ batches = <<Runnable(asked)>> /\ Len(parsed) = Len(batches)
  BY DEF ExecInv, SplitInv, Started, Split
<1>2. QED  BY <1>1, RunnableFacts

LEMMA AllOfFacts ==
    ASSUME NEW b \in Seq(Tests)
    PROVE  /\ AllOf(b, "error") \in Seq(Res)
           /\ b # <<>> => \E i \in 1 .. Len(AllOf(b, "error")) : Failing(AllOf(b, "error")[i])
<1>1. PICK n \in Nat : n = Len(b) /\ DOMAIN b = 1 .. n /\ \A i \in 1 .. n : b[i] \in Tests
  OBVIOUS
<1>2. PICK p \in [1 .. n -> Res] : p = AllOf(b, "error") /\ \A i \in 1 .. n : p[i].outcome = "error"
  <2>1. AllOf(b, "error") = [i \in 1 .. n |-> [test |-> b[i], outcome |-> "error"]]
    BY <1>1 DEF AllOf, Result
  <2>2. [i \in 1 .. n |-> [test |-> b[i], outcome |-> "error"]] \in [1 .. n -> Res]
    BY <1>1 DEF Res, Outcome
  <2>3. QED  BY <2>1, <2>2
<1>3. p \in Seq(Res) /\ Len(p) = n
  BY FunctionSeq
<1>4. b # <<>> => 1 \in 1 .. n
  BY <1>1, EmptySeq
<1>5. QED  BY <1>2, <1>3, <1>4 DEF Failing

\* What the plugin records of a batch.
Recorded(b, v) ==
    FlattenSeq([i \in DOMAIN b |-> [n \in DOMAIN Reports(v[i]) |-> Result(b[i], Reports(v[i])[n])]])

LEMMA RecordedFacts ==
    ASSUME NEW b \in Seq(Tests), NEW v \in Verdicts(b)
    PROVE  /\ Recorded(b, v) \in Seq(Res)
           /\ (\A i \in 1 .. Len(b) : v[i] = "unreached") => Recorded(b, v) = <<>>
           /\ (\E i \in 1 .. Len(b) : v[i] \in Bad) =>
                 \E i \in 1 .. Len(Recorded(b, v)) : Failing(Recorded(b, v)[i])
<1>1. PICK n \in Nat : n = Len(b) /\ DOMAIN b = 1 .. n /\ \A i \in 1 .. n : b[i] \in Tests
  OBVIOUS
<1> DEFINE of(i) == [k \in DOMAIN Reports(v[i]) |-> Result(b[i], Reports(v[i])[k])]
           all == [i \in 1 .. n |-> of(i)]
<1>2. ASSUME NEW i \in 1 .. n
      PROVE  /\ of(i) \in Seq(Res)
             /\ v[i] = "unreached" => of(i) = <<>>
             /\ v[i] \in Bad => \E r \in ToSet(of(i)) : Failing(r)
  <2> DEFINE w == Reports(v[i])
             Good(m) == /\ w \in [1 .. m -> Outcome]
                        /\ v[i] = "unreached" => m = 0
                        /\ v[i] \in Bad => m > 0 /\ w[m] \in {"failed", "error"}
  <2>1. PICK m \in Nat : Good(m)
    <3>1. v[i] \in Verdict
      BY <1>1 DEF Verdicts
    <3>2. CASE v[i] = "unreached"
      <4>1. Reports(v[i]) \in [1 .. 0 -> Outcome]
        BY <3>2 DEF Reports
      <4>2. Good(0)
        BY <3>2, <4>1 DEF Bad
      <4>3. QED  BY <4>2
    <3>3. CASE v[i] = "teardown"
      <4>1. Reports(v[i]) = <<"passed", "error">>
        BY <3>3 DEF Reports
      <4>2. Reports(v[i]) \in [1 .. 2 -> Outcome] /\ Reports(v[i])[2] = "error"
        BY <4>1 DEF Outcome
      <4>3. Good(2)
        BY <3>3, <4>2
      <4>4. QED  BY <4>3
    <3>4. CASE v[i] \notin {"unreached", "teardown"}
      <4>1. PICK o \in Outcome : Reports(v[i]) = <<o>> /\ (v[i] \in Bad => o \in {"failed", "error"})
        BY <3>1, <3>4 DEF Reports, Verdict, Outcome, Bad
      <4>2. Reports(v[i]) \in [1 .. 1 -> Outcome] /\ Reports(v[i])[1] = o
        BY <4>1
      <4>3. Good(1)
        BY <3>4, <4>1, <4>2
      <4>4. QED  BY <4>3
    <3>5. QED  BY <3>2, <3>3, <3>4
  <2>2. of(i) = [k \in 1 .. m |-> [test |-> b[i], outcome |-> w[k]]]
    BY <2>1 DEF Result
  <2> HIDE DEF of
  <2>3. of(i) \in [1 .. m -> Res]
    <3>1. b[i] \in Tests /\ \A k \in 1 .. m : w[k] \in Outcome
      BY <1>1, <2>1
    <3>2. \A k \in 1 .. m : [test |-> b[i], outcome |-> w[k]] \in Res
      BY <3>1 DEF Res
    <3>3. QED  BY <2>2, <3>2
  <2>4. of(i) \in Seq(Res) /\ Len(of(i)) = m
    BY <2>3, FunctionSeq
  <2>5. v[i] = "unreached" => of(i) = <<>>
    BY <2>1, <2>4, EmptySeq
  <2>6. v[i] \in Bad => \E r \in ToSet(of(i)) : Failing(r)
    <3>1. SUFFICES ASSUME v[i] \in Bad  PROVE \E r \in ToSet(of(i)) : Failing(r)
      OBVIOUS
    <3>2. m \in 1 .. m /\ of(i)[m].outcome \in {"failed", "error"}
      BY <2>1, <2>2, <3>1
    <3>3. of(i)[m] \in ToSet(of(i))
      BY <2>3, <3>2 DEF ToSet
    <3>4. QED  BY <3>2, <3>3 DEF Failing
  <2>7. QED  BY <2>4, <2>5, <2>6
<1> HIDE DEF of
<1>3. all \in Seq(Seq(Res)) /\ Len(all) = n
  <2>1. all \in [1 .. n -> Seq(Res)]
    BY <1>2
  <2> HIDE DEF all
  <2>2. QED  BY <2>1, FunctionSeq
<1>4. Recorded(b, v) = FlattenSeq(all)
  BY <1>1 DEF Recorded, of
<1>5. \A i \in 1 .. n : all[i] = of(i)
  OBVIOUS
<1> HIDE DEF all
<1>6. Recorded(b, v) \in Seq(Res)
  BY <1>3, <1>4, FlattenType
<1>7. ASSUME \A i \in 1 .. n : v[i] = "unreached"  PROVE Recorded(b, v) = <<>>
  <2>1. all \in [1 .. n -> Seq(Res)]
    BY <1>3, LenProperties
  <2>2. \A i \in 1 .. n : all[i] \in Seq({})
    <3>1. <<>> \in Seq({})
      OBVIOUS
    <3>2. QED  BY <1>2, <1>5, <1>7, <3>1
  <2>3. all \in [1 .. n -> Seq({})]
    BY <2>1, <2>2
  <2>4. all \in Seq(Seq({}))
    BY <2>3, FunctionSeq
  <2>5. FlattenSeq(all) \in Seq({})
    BY <2>4, FlattenType
  <2>6. QED  BY <1>4, <2>5, EmptySeq
<1>8. ASSUME NEW i \in 1 .. n, v[i] \in Bad
      PROVE  \E k \in 1 .. Len(Recorded(b, v)) : Failing(Recorded(b, v)[k])
  <2>1. PICK r \in ToSet(all[i]) : Failing(r)
    BY <1>2, <1>5, <1>8
  <2>2. r \in ToSet(Recorded(b, v))
    BY <1>3, <1>4, <2>1, FlattenHas
  <2>3. DOMAIN Recorded(b, v) = 1 .. Len(Recorded(b, v))
    BY <1>6
  <2>4. QED  BY <2>1, <2>2, <2>3 DEF ToSet
<1>9. QED  BY <1>1, <1>6, <1>7, <1>8

LEMMA EmbeddedKeeps ==
    ASSUME ExecInv, Embedded
    PROVE  ExecInv'
<1>1. /\ stage = "running" /\ mode = "embedded" /\ stage' = "gathered"
      /\ UNCHANGED <<mode, asked, batches, task, read, parsed, summary>>
  BY DEF Embedded
<1>2. PICK b \in Seq(Tests) : b = batches[1] /\ b = Runnable(asked) /\ IsInjective(b)
  BY <1>1, EmbeddedBatch
<1>3. PICK v \in Verdicts(b) :
         /\ results' = IF Recorded(b, v) = <<>> THEN AllOf(b, "error") ELSE Recorded(b, v)
         /\ found' = FoundAfter(b, v)
  BY <1>2 DEF Embedded, Recorded
<1>4. found \in [Tests -> Verdict] /\ read = {} /\ \A t \in Tests : found[t] = "unreached"
  BY <1>1 DEF ExecInv, TypeInv, PluginInv
<1>5. /\ found' \in [Tests -> Verdict]
      /\ \A j \in 1 .. Len(b) : found'[b[j]] = v[j]
      /\ \A t \in Tests : (\A j \in 1 .. Len(b) : b[j] # t) => found'[t] = found[t]
  BY <1>2, <1>3, <1>4, FoundOf
<1>6. results' \in Seq(Res)
  BY <1>3, AllOfFacts, RecordedFacts
<1>7. ASSUME b # <<>>, WentWrong'  PROVE \E i \in 1 .. Len(results') : Failing(results'[i])
  <2>1. CASE Recorded(b, v) = <<>>
    BY <1>3, <1>7, <2>1, AllOfFacts
  <2>2. CASE Recorded(b, v) # <<>>
    <3>1. PICK t \in Tests : found'[t] \in Bad
      <4>1. ~ \A i \in 1 .. Len(b) : v[i] = "unreached"
        BY <2>2, RecordedFacts
      <4>2. PICK i \in 1 .. Len(b) : v[i] # "unreached"
        BY <4>1
      <4>3. b[i] \in Tests /\ found'[b[i]] # "unreached"
        BY <1>5, <4>2, ElementOfSeq
      <4>4. QED  BY <1>7, <4>3 DEF WentWrong
    <3>2. PICK j \in 1 .. Len(b) : b[j] = t
      BY <1>4, <1>5, <3>1 DEF Bad
    <3>3. v[j] \in Bad
      BY <1>5, <3>1, <3>2
    <3>4. \E i \in 1 .. Len(Recorded(b, v)) : Failing(Recorded(b, v)[i])
      BY <3>3, RecordedFacts
    <3>5. QED  BY <1>3, <2>2, <3>4
  <2>3. QED  BY <2>1, <2>2
<1>8. (TypeInv /\ SplitInv)'
  <2>1. Split(asked)' = Split(asked)
    BY <1>1 DEF Split
  <2>2. QED  BY <1>1, <1>5, <1>6, <2>1 DEF ExecInv, TypeInv, SplitInv, Started
<1>9. GatherInv'
  BY <1>1, <1>2, <1>4, <1>7 DEF GatherInv
<1>10. (IdleInv /\ BatchInv /\ PluginInv /\ SummaryInv)'
  BY <1>1, <1>4 DEF IdleInv, BatchInv, PluginInv, SummaryInv
<1>11. QED  BY <1>8, <1>9, <1>10 DEF ExecInv

LEMMA EmbeddedFailsKeeps ==
    ASSUME ExecInv, EmbeddedFails
    PROVE  ExecInv'
<1>1. /\ stage = "running" /\ mode = "embedded" /\ stage' = "gathered"
      /\ results' = AllOf(batches[1], "error")
      /\ UNCHANGED <<mode, asked, batches, task, found, read, parsed, summary>>
  BY DEF EmbeddedFails
<1>2. PICK b \in Seq(Tests) : b = batches[1] /\ b = Runnable(asked)
  BY <1>1, EmbeddedBatch
<1>3. results' = AllOf(b, "error")
  BY <1>1, <1>2
<1>4. /\ results' \in Seq(Res)
      /\ b # <<>> => \E i \in 1 .. Len(results') : Failing(results'[i])
  BY <1>3, AllOfFacts
<1>5. (TypeInv /\ SplitInv)'
  <2>1. Split(asked)' = Split(asked)
    BY <1>1 DEF Split
  <2>2. QED  BY <1>1, <1>4, <2>1 DEF ExecInv, TypeInv, SplitInv, Started
<1>6. read' = {}
  BY <1>1 DEF ExecInv, PluginInv
<1>7. GatherInv'
  BY <1>1, <1>2, <1>4, <1>6 DEF GatherInv
<1>8. (IdleInv /\ BatchInv /\ PluginInv /\ SummaryInv)'
  BY <1>1, <1>6 DEF IdleInv, BatchInv, PluginInv, SummaryInv
<1>9. QED  BY <1>5, <1>7, <1>8 DEF ExecInv

LEMMA SummariseKeeps ==
    ASSUME ExecInv, Summarise
    PROVE  ExecInv'
<1>1. /\ stage = "gathered" /\ stage' = "done"
      /\ UNCHANGED <<mode, asked, batches, task, found, read, parsed, results>>
  BY DEF Summarise
<1>2. SummaryInv'
  <2>1. \A o : Count(o)' = Count(o)
    BY <1>1 DEF Count
  <2>2. PreSkipped' = PreSkipped
    BY <1>1 DEF PreSkipped
  <2>3. QED  BY <1>1, <2>1, <2>2 DEF Summarise, SummaryInv
<1>3. (TypeInv /\ IdleInv /\ PluginInv)'
  BY <1>1 DEF ExecInv, TypeInv, IdleInv, PluginInv
<1>4. SplitInv'
  <2>1. Split(asked)' = Split(asked)
    BY <1>1 DEF Split
  <2>2. QED  BY <1>1, <2>1 DEF ExecInv, SplitInv, Started
<1>5. BatchInv'
  BY <1>1 DEF ExecInv, BatchInv, Started, BatchDone, BatchOpen
<1>6. GatherInv'
  BY <1>1 DEF ExecInv, GatherInv, Ended, WentWrong
<1>7. QED  BY <1>2, <1>3, <1>4, <1>5, <1>6 DEF ExecInv

LEMMA AgainKeeps ==
    ASSUME ExecInv, Again
    PROVE  ExecInv'
<1> USE DEF Again
<1>1. TypeInv'
  <2>1. <<>> \in Seq(Seq(Res)) /\ <<>> \in Seq(Res)
    OBVIOUS
  <2>2. QED  BY <2>1 DEF ExecInv, TypeInv, Verdict
<1>2. (IdleInv /\ SplitInv /\ BatchInv /\ PluginInv /\ GatherInv /\ SummaryInv)'
  BY DEF IdleInv, SplitInv, BatchInv, PluginInv, GatherInv, SummaryInv, Started, Ended
<1>3. QED  BY <1>1, <1>2 DEF ExecInv

LEMMA ExecStep == ExecInv /\ [ExecNext]_execVars => ExecInv'
<1> SUFFICES ASSUME ExecInv, [ExecNext]_execVars  PROVE ExecInv'
  OBVIOUS
<1>1. CASE ExecNext
  BY <1>1, BeginKeeps, StartBatchKeeps, FinishBatchKeeps, GatherKeeps, EmbeddedKeeps,
     EmbeddedFailsKeeps, SummariseKeeps, AgainKeeps, Zenon DEF ExecNext
<1>2. CASE UNCHANGED execVars
  <2> USE <1>2 DEF execVars
  <2>1. TypeInv' /\ IdleInv' /\ PluginInv'
    BY DEF ExecInv, TypeInv, IdleInv, PluginInv
  <2>2. SplitInv'
    BY DEF ExecInv, SplitInv, Started, Split
  <2>3. BatchInv'
    BY DEF ExecInv, BatchInv, Started, BatchDone, BatchOpen
  <2>4. GatherInv'
    BY DEF ExecInv, GatherInv, Ended, WentWrong
  <2>5. SummaryInv'
    <3>1. (\A o : Count(o)' = Count(o)) /\ PreSkipped' = PreSkipped
      BY DEF Count, PreSkipped
    <3>2. QED  BY <3>1 DEF ExecInv, SummaryInv
  <2>6. QED  BY <2>1, <2>2, <2>3, <2>4, <2>5 DEF ExecInv
<1>3. QED  BY <1>1, <1>2

-----------------------------------------------------------------------------
(* What holds of every run *)

(* The invariant: what is known of a run at each of its stages, the batches  *)
(* being the request cut in its order and a batch that is done having the    *)
(* results its lines say.                                                    *)
THEOREM ExecInvariance == ExecSpec => []ExecInv
  BY InitKeeps, ExecStep, PTL DEF ExecSpec

(* The values every variable ranges over. *)
THEOREM ExecTypeCorrect == ExecSpec => []TypeInv
<1>1. ExecInv => TypeInv
  BY DEF ExecInv
<1>2. QED  BY <1>1, ExecInvariance, PTL

(* The subprocess executor answers once for each test, in the order of the   *)
(* request, however its batches ended.                                       *)
THEOREM OneResultEachInvariance == ExecSpec => []OneResultEach
<1>1. ExecInv => OneResultEach
  BY DEF ExecInv, GatherInv, Ended, OneResultEach
<1>2. QED  BY <1>1, ExecInvariance, PTL

(* A line that can be read decides the outcome of its test, whatever other   *)
(* tests have its name.                                                      *)
THEOREM LinesBelievedInvariance == ExecSpec => []LinesBelieved
<1>1. ASSUME ExecInv  PROVE LinesBelieved
  <2>1. DOMAIN results = 1 .. Len(results)
    BY <1>1 DEF ExecInv, TypeInv
  <2>2. QED  BY <1>1, <2>1 DEF ExecInv, GatherInv, Ended, LinesBelieved
<1>2. QED  BY <1>1, ExecInvariance, PTL

(* A count is a number, zero just when no result has the outcome. *)
LEMMA CountFacts ==
    ASSUME results \in Seq(Res), NEW o
    PROVE  Count(o) \in Nat /\ (Count(o) = 0 <=> \A i \in 1 .. Len(results) : results[i].outcome # o)
<1> DEFINE At == {i \in DOMAIN results : results[i].outcome = o}
<1>1. IsFiniteSet(At)
  <2>1. DOMAIN results = 1 .. Len(results) /\ IsFiniteSet(1 .. Len(results))
    BY FS_Interval
  <2>2. QED  BY <2>1, FS_Subset
<1>2. Count(o) \in Nat /\ (Count(o) = 0 <=> At = {})
  BY <1>1, FS_CardinalityType, FS_EmptySet DEF Count
<1>3. QED  BY <1>2

LEMMA DisjointUnion ==
    ASSUME NEW S, NEW T, IsFiniteSet(S), IsFiniteSet(T), S \cap T = {}
    PROVE  IsFiniteSet(S \cup T) /\ Cardinality(S \cup T) = Cardinality(S) + Cardinality(T)
<1>1. IsFiniteSet(S \cup T)
        /\ Cardinality(S \cup T) = Cardinality(S) + Cardinality(T) - Cardinality(S \cap T)
  BY FS_Union
<1>2. Cardinality(S) \in Nat /\ Cardinality(T) \in Nat
  BY FS_CardinalityType
<1>3. Cardinality(S \cap T) = 0
  BY FS_EmptySet
<1>4. QED  BY <1>1, <1>2, <1>3

(* Each result is counted under its outcome. *)
LEMMA CountsAddUp ==
    ASSUME results \in Seq(Res)
    PROVE  Count("passed") + Count("failed") + Count("skipped") + Count("error")
             + Count("xfail") + Count("xpass") = Len(results)
<1> DEFINE At(o) == {i \in DOMAIN results : results[i].outcome = o}
<1>1. PICK n \in Nat : n = Len(results) /\ DOMAIN results = 1 .. n /\ \A i \in 1 .. n : results[i] \in Res
  BY LenProperties
<1>2. ASSUME NEW o  PROVE IsFiniteSet(At(o)) /\ Count(o) = Cardinality(At(o)) /\ Count(o) \in Nat
  <2>1. IsFiniteSet(1 .. n)
    BY FS_Interval
  <2>2. At(o) \subseteq 1 .. n
    BY <1>1
  <2>3. QED  BY <2>1, <2>2, FS_Subset, FS_CardinalityType DEF Count
<1>3. 1 .. n = ((((At("passed") \cup At("failed")) \cup At("skipped")) \cup At("error")) \cup At("xfail")) \cup At("xpass")
  BY <1>1 DEF Res, Outcome
<1>4. \A o, q : o # q => At(o) \cap At(q) = {}
  OBVIOUS
<1> HIDE DEF At
<1> DEFINE A1 == At("passed")
           A2 == A1 \cup At("failed")
           A3 == A2 \cup At("skipped")
           A4 == A3 \cup At("error")
           A5 == A4 \cup At("xfail")
           A6 == A5 \cup At("xpass")
<1>5. IsFiniteSet(A1) /\ Cardinality(A1) = Count("passed")
  BY <1>2
<1>6. IsFiniteSet(A2) /\ Cardinality(A2) = Cardinality(A1) + Count("failed")
  <2>1. A1 \cap At("failed") = {}
    BY <1>4
  <2>2. IsFiniteSet(At("failed")) /\ Cardinality(At("failed")) = Count("failed")
    BY <1>2
  <2> HIDE DEF A1
  <2>3. IsFiniteSet(A1 \cup At("failed"))
          /\ Cardinality(A1 \cup At("failed")) = Cardinality(A1) + Cardinality(At("failed"))
    BY <1>5, <2>1, <2>2, DisjointUnion
  <2>4. QED  BY <2>2, <2>3
<1>7. IsFiniteSet(A3) /\ Cardinality(A3) = Cardinality(A2) + Count("skipped")
  <2>1. A2 \cap At("skipped") = {}
    BY <1>4
  <2>2. IsFiniteSet(At("skipped")) /\ Cardinality(At("skipped")) = Count("skipped")
    BY <1>2
  <2> HIDE DEF A2
  <2>3. IsFiniteSet(A2 \cup At("skipped"))
          /\ Cardinality(A2 \cup At("skipped")) = Cardinality(A2) + Cardinality(At("skipped"))
    BY <1>6, <2>1, <2>2, DisjointUnion
  <2>4. QED  BY <2>2, <2>3
<1>8. IsFiniteSet(A4) /\ Cardinality(A4) = Cardinality(A3) + Count("error")
  <2>1. A3 \cap At("error") = {}
    BY <1>4
  <2>2. IsFiniteSet(At("error")) /\ Cardinality(At("error")) = Count("error")
    BY <1>2
  <2> HIDE DEF A3
  <2>3. IsFiniteSet(A3 \cup At("error"))
          /\ Cardinality(A3 \cup At("error")) = Cardinality(A3) + Cardinality(At("error"))
    BY <1>7, <2>1, <2>2, DisjointUnion
  <2>4. QED  BY <2>2, <2>3
<1>9. IsFiniteSet(A5) /\ Cardinality(A5) = Cardinality(A4) + Count("xfail")
  <2>1. A4 \cap At("xfail") = {}
    BY <1>4
  <2>2. IsFiniteSet(At("xfail")) /\ Cardinality(At("xfail")) = Count("xfail")
    BY <1>2
  <2> HIDE DEF A4
  <2>3. IsFiniteSet(A4 \cup At("xfail"))
          /\ Cardinality(A4 \cup At("xfail")) = Cardinality(A4) + Cardinality(At("xfail"))
    BY <1>8, <2>1, <2>2, DisjointUnion
  <2>4. QED  BY <2>2, <2>3
<1>10. IsFiniteSet(A6) /\ Cardinality(A6) = Cardinality(A5) + Count("xpass")
  <2>1. A5 \cap At("xpass") = {}
    BY <1>4
  <2>2. IsFiniteSet(At("xpass")) /\ Cardinality(At("xpass")) = Count("xpass")
    BY <1>2
  <2> HIDE DEF A5
  <2>3. IsFiniteSet(A5 \cup At("xpass"))
          /\ Cardinality(A5 \cup At("xpass")) = Cardinality(A5) + Cardinality(At("xpass"))
    BY <1>9, <2>1, <2>2, DisjointUnion
  <2>4. QED  BY <2>2, <2>3
<1>11. Cardinality(A6) = n
  <2>1. 1 .. n = A6
    BY <1>3
  <2> HIDE DEF A6
  <2>2. QED  BY <2>1, FS_Interval
<1> HIDE DEF A1, A2, A3, A4, A5, A6
<1>12. /\ Count("passed") \in Nat /\ Count("failed") \in Nat /\ Count("skipped") \in Nat
       /\ Count("error") \in Nat /\ Count("xfail") \in Nat /\ Count("xpass") \in Nat
  BY <1>2
<1>13. QED  BY <1>1, <1>5, <1>6, <1>7, <1>8, <1>9, <1>10, <1>11, <1>12

(* The counts of a summary and the results before it add up to its total,    *)
(* and the exit code is 0 just when no result failed.                        *)
THEOREM SummaryAddsUpInvariance == ExecSpec => []SummaryAddsUp
<1>1. ASSUME ExecInv, stage = "done"
      PROVE  /\ summary.passed + summary.failed + summary.skipped + summary.errors
                  + Count("xfail") + Count("xpass") = summary.total
             /\ (ExitCode = 0) <=> \A i \in DOMAIN results : results[i].outcome \notin {"failed", "error"}
  <2>1. results \in Seq(Res) /\ DOMAIN results = 1 .. Len(results) /\ Len(results) \in Nat
    BY <1>1 DEF ExecInv, TypeInv
  <2>2. PreSkipped \in Int
    <3>1. asked \in Requests
      BY <1>1 DEF ExecInv, SplitInv, Started
    <3>2. Runnable(asked) \in Seq(Tests) /\ asked \in Seq(Tests)
      BY <3>1, RunnableFacts, ExecutionAssumption
    <3>3. QED  BY <3>2 DEF PreSkipped
  <2>3. \A o : Count(o) \in Nat
    BY <2>1, CountFacts
  <2>4. /\ summary.total = Len(results) + PreSkipped /\ summary.passed = Count("passed")
        /\ summary.failed = Count("failed") /\ summary.skipped = Count("skipped") + PreSkipped
        /\ summary.errors = Count("error")
    BY <1>1 DEF ExecInv, SummaryInv
  <2>5. /\ Count("failed") = 0 <=> \A i \in 1 .. Len(results) : results[i].outcome # "failed"
        /\ Count("error") = 0 <=> \A i \in 1 .. Len(results) : results[i].outcome # "error"
    BY <2>1, CountFacts
  <2>6. ExitCode = 0 <=> Count("failed") = 0 /\ Count("error") = 0
    BY <2>3, <2>4 DEF ExitCode
  <2>7. summary.passed + summary.failed + summary.skipped + summary.errors
          + Count("xfail") + Count("xpass") = summary.total
    <3>1. PICK p \in Int : p = PreSkipped
      BY <2>2
    <3>2. Count("passed") + Count("failed") + Count("skipped") + Count("error")
            + Count("xfail") + Count("xpass") = Len(results)
      BY <2>1, CountsAddUp
    <3>3. /\ Count("passed") \in Nat /\ Count("failed") \in Nat /\ Count("skipped") \in Nat
          /\ Count("error") \in Nat /\ Count("xfail") \in Nat /\ Count("xpass") \in Nat
      BY <2>3
    <3>4. PICK a \in Nat, b \in Nat, c \in Nat, d \in Nat, e \in Nat, f \in Nat, l \in Nat :
                 /\ a = Count("passed") /\ b = Count("failed") /\ c = Count("skipped")
                 /\ d = Count("error") /\ e = Count("xfail") /\ f = Count("xpass")
                 /\ l = Len(results)
      BY <2>1, <3>3, Zenon
    <3>5. a + b + c + d + e + f = l
      BY <3>2, <3>4, Zenon
    <3>6. a + b + (c + p) + d + e + f = l + p
      BY <3>5
    <3>7. QED  BY <2>4, <3>1, <3>4, <3>6, Zenon
  <2>8. QED  BY <2>1, <2>5, <2>6, <2>7
<1>2. ExecInv => SummaryAddsUp
  BY <1>1 DEF SummaryAddsUp
<1>3. QED  BY <1>2, ExecInvariance, PTL

(* The embedded executor tells of a failure that pytest found, and of a run  *)
(* that did not reach a test.                                                *)
THEOREM EmbeddedTellsInvariance == ExecSpec => []EmbeddedTells
<1>1. ASSUME ExecInv, stage = "done", mode = "embedded", Runnable(asked) # <<>>, WentWrong
      PROVE  ExitCode = 1
  <2>1. PICK i \in 1 .. Len(results) : results[i].outcome \in {"failed", "error"}
    BY <1>1 DEF ExecInv, GatherInv, Ended, Failing
  <2>2. results \in Seq(Res)
    BY <1>1 DEF ExecInv, TypeInv
  <2>3. /\ Count("failed") \in Nat /\ Count("error") \in Nat
        /\ Count("failed") # 0 \/ Count("error") # 0
    BY <2>1, <2>2, CountFacts
  <2>4. summary.failed = Count("failed") /\ summary.errors = Count("error")
    BY <1>1 DEF ExecInv, SummaryInv
  <2>5. QED  BY <2>3, <2>4 DEF ExitCode
<1>2. ExecInv => EmbeddedTells
  BY <1>1 DEF EmbeddedTells, WentWrong
<1>3. QED  BY <1>2, ExecInvariance, PTL
=============================================================================
