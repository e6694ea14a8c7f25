------------------------- MODULE CodingSessionProofs -------------------------
(* Proofs about a session and its log, for logs, transcripts, queues and     *)
(* batches of any length: that the session writes below the entry a load     *)
(* would go on from, that the log's active branch never holds more than the  *)
(* live transcript, that a session nobody tears down holds no more than its  *)
(* log either, and that a load brings back what was active, its calls        *)
(* answered.                                                                 *)
(*                                                                           *)
(* The proof goes up from the log.  First, functions defined by recursion on *)
(* earlier entries exist, so the rows of a log are what their equations say; *)
(* then, what each way of writing does to the rows, and what the harness's   *)
(* steps do to the transcript; then, that each action of the session keeps   *)
(* the two in step; last, that the calls of both stay new, and what a repair *)
(* writes for those that were interrupted.                                   *)
EXTENDS MCCodingSession, SequenceTheorems, FiniteSetTheorems, WellFoundedInduction, TLAPS

-----------------------------------------------------------------------------
(* Numbers have a least one among them.                                      *)
LEMMA LeastOne ==
  ASSUME NEW T, T \subseteq Nat, T # {}
  PROVE  \E x \in T : \A y \in T : x <= y
<1> DEFINE R == OpToRel(<, Nat)
<1>1. IsWellFoundedOn(R, Nat)
  BY NatLessThanWellFounded
<1>2. \A x, y \in Nat : y < x => <<y, x>> \in R
  BY DEF OpToRel
<1> HIDE DEF R
<1>3. PICK x \in T : \A y \in T : ~(<<y, x>> \in R)
  BY <1>1, WFMin
<1>4. ASSUME NEW y \in T PROVE x <= y
  <2>1. x \in Nat /\ y \in Nat OBVIOUS
  <2>2. ~(y < x) BY <1>2, <1>3, <2>1, Zenon
  <2> QED BY <2>1, <2>2
<1> QED BY <1>4

(* What holds of k whenever it holds below k holds up to n.                  *)
LEMMA UpTo ==
  ASSUME NEW n \in Nat, NEW T,
         \A k \in 0 .. n : (\A j \in 0 .. n : j < k => j \in T) => k \in T
  PROVE  \A k \in 0 .. n : k \in T
<1> SUFFICES ASSUME (0 .. n) \ T # {} PROVE FALSE
  OBVIOUS
<1>1. PICK k \in (0 .. n) \ T : \A j \in (0 .. n) \ T : k <= j
  <2>1. (0 .. n) \ T \subseteq Nat OBVIOUS
  <2> QED BY <2>1, LeastOne
<1>2. \A j \in 0 .. n : j < k => j \in T
  BY <1>1
<1> QED BY <1>1, <1>2

(* A function whose value at k is made of its value at an earlier up[k].     *)
Defined(n, V, base, up, st) ==
  \E f \in [0 .. n -> V] : f[0] = base /\ \A k \in 1 .. n : f[k] = st[<<k, f[up[k]]>>]

(* There is such a function: how the log's rows are defined, each from those *)
(* of the entry's parent.                                                    *)
LEMMA Recursion ==
  ASSUME NEW n \in Nat, NEW V, NEW base \in V, NEW up, \A k \in 1 .. n : up[k] \in 0 .. k - 1,
         NEW st, \A k \in 1 .. n : \A v \in V : st[<<k, v>>] \in V
  PROVE  Defined(n, V, base, up, st)
<1> DEFINE Good(k) == \E f \in [0 .. k -> V] :
                         f[0] = base /\ \A j \in 1 .. k : f[j] = st[<<j, f[up[j]]>>]
           T == {k \in 0 .. n : Good(k)}
<1>1. ASSUME NEW k \in 0 .. n, \A j \in 0 .. n : j < k => j \in T PROVE k \in T
  <2>1. CASE k = 0
    <3> DEFINE f == [j \in 0 .. 0 |-> base]
    <3>1. f \in [0 .. k -> V] /\ f[0] = base /\ 1 .. k = {} BY <2>1
    <3> HIDE DEF f
    <3> QED BY <3>1
  <2>2. CASE k > 0
    <3>1. k - 1 \in 0 .. n /\ k - 1 < k BY <2>2
    <3>2. PICK f \in [0 .. k - 1 -> V] :
             f[0] = base /\ \A j \in 1 .. k - 1 : f[j] = st[<<j, f[up[j]]>>]
      BY <1>1, <3>1
    <3> DEFINE g == [j \in 0 .. k |-> IF j = k THEN st[<<k, f[up[k]]>>] ELSE f[j]]
    <3>3. up[k] \in 0 .. k - 1 /\ k \in 1 .. n /\ f[up[k]] \in V /\ st[<<k, f[up[k]]>>] \in V
      BY <2>2, <3>2
    <3>4. g \in [0 .. k -> V] BY <3>2, <3>3
    <3>5. \A j \in 0 .. k - 1 : g[j] = f[j] BY <3>1
    <3>6. g[k] = st[<<k, f[up[k]]>>] BY <3>3
    <3> HIDE DEF g
    <3>7. g[0] = base BY <2>2, <3>2, <3>5
    <3>8. ASSUME NEW j \in 1 .. k PROVE g[j] = st[<<j, g[up[j]]>>]
      <4>1. up[j] \in 0 .. j - 1 /\ up[j] \in 0 .. k - 1 BY <3>3
      <4>2. g[up[j]] = f[up[j]] BY <3>5, <4>1
      <4>3. CASE j = k BY <3>6, <4>2, <4>3
      <4>4. CASE j # k
        <5>1. j \in 1 .. k - 1 /\ j \in 0 .. k - 1 BY <4>4
        <5> QED BY <3>2, <3>5, <4>2, <5>1
      <4> QED BY <4>3, <4>4
    <3>9. Good(k) BY <3>4, <3>7, <3>8
    <3> QED BY <3>9
  <2> QED BY <2>1, <2>2
<1> HIDE DEF T
<1> HIDE DEF Good
<1>2. \A k \in 0 .. n : k \in T
  BY <1>1, UpTo
<1>3. n \in T BY <1>2
<1> QED BY <1>3 DEF T, Good, Defined

(* A function that satisfies its recursion has values of the type.           *)
LEMMA RecursionTyped ==
  ASSUME NEW n \in Nat, NEW V, NEW up, \A k \in 1 .. n : up[k] \in 0 .. k - 1,
         NEW f, f[0] \in V, \A k \in 1 .. n : f[up[k]] \in V => f[k] \in V
  PROVE  \A k \in 0 .. n : f[k] \in V
<1> DEFINE T == {k \in 0 .. n : f[k] \in V}
<1>1. ASSUME NEW k \in 0 .. n, \A j \in 0 .. n : j < k => j \in T PROVE k \in T
  <2>1. CASE k = 0 BY <2>1
  <2>2. CASE k > 0
    <3>1. k \in 1 .. n /\ up[k] \in 0 .. n /\ up[k] < k BY <2>2
    <3> QED BY <1>1, <3>1
  <2> QED BY <2>1, <2>2
<1> HIDE DEF T
<1>2. \A k \in 0 .. n : k \in T
  BY <1>1, UpTo
<1> QED BY <1>2 DEF T

(* Every earlier element of a sequence is in R with every later one.         *)
Pairwise(s, R) == \A i, j \in 1 .. Len(s) : i < j => <<s[i], s[j]>> \in R

(* Two sequences, one after the other.                                       *)
LEMMA ConcatPairs ==
  ASSUME NEW S, NEW a \in Seq(S), NEW b \in Seq(S)
  PROVE  /\ a \o b \in Seq(S) /\ L!ToSet(a \o b) = L!ToSet(a) \union L!ToSet(b)
         /\ \A R : /\ Pairwise(a, R) /\ Pairwise(b, R)
                   /\ \A x \in L!ToSet(a), y \in L!ToSet(b) : <<x, y>> \in R
                   => Pairwise(a \o b, R)
<1> DEFINE c == a \o b
<1>1. /\ c \in Seq(S) /\ Len(c) = Len(a) + Len(b) /\ Len(a) \in Nat /\ Len(b) \in Nat
      /\ \A i \in 1 .. Len(a) + Len(b) : c[i] = IF i <= Len(a) THEN a[i] ELSE b[i - Len(a)]
  BY ConcatProperties
<1>2. /\ L!ToSet(a) = {a[i] : i \in 1 .. Len(a)} /\ L!ToSet(b) = {b[i] : i \in 1 .. Len(b)}
      /\ L!ToSet(c) = {c[i] : i \in 1 .. Len(a) + Len(b)}
  <2> HIDE DEF c
  <2>1. DOMAIN a = 1 .. Len(a) /\ DOMAIN b = 1 .. Len(b) /\ DOMAIN c = 1 .. Len(a) + Len(b)
    BY <1>1
  <2> QED BY <2>1 DEF L!ToSet
<1> HIDE DEF c
<1>3. ASSUME NEW x \in L!ToSet(c) PROVE x \in L!ToSet(a) \union L!ToSet(b)
  <2>1. PICK i \in 1 .. Len(a) + Len(b) : x = c[i] BY <1>2
  <2>2. CASE i <= Len(a)
    <3>1. i \in 1 .. Len(a) /\ x = a[i] BY <1>1, <2>1, <2>2
    <3> QED BY <1>2, <3>1
  <2>3. CASE ~(i <= Len(a))
    <3>1. i - Len(a) \in 1 .. Len(b) /\ x = b[i - Len(a)] BY <1>1, <2>1, <2>3
    <3> QED BY <1>2, <3>1
  <2> QED BY <2>2, <2>3
<1>4. ASSUME NEW x \in L!ToSet(a) PROVE x \in L!ToSet(c)
  <2>1. PICK i \in 1 .. Len(a) : x = a[i] BY <1>2
  <2>2. i \in 1 .. Len(a) + Len(b) /\ i <= Len(a) BY <1>1
  <2>3. x = c[i] BY <1>1, <2>1, <2>2
  <2> QED BY <1>2, <2>2, <2>3
<1>5. ASSUME NEW x \in L!ToSet(b) PROVE x \in L!ToSet(c)
  <2>1. PICK i \in 1 .. Len(b) : x = b[i] BY <1>2
  <2>2. i + Len(a) \in 1 .. Len(a) + Len(b) /\ ~(i + Len(a) <= Len(a)) /\ i + Len(a) - Len(a) = i
    BY <1>1
  <2>3. x = c[i + Len(a)] BY <1>1, <2>1, <2>2
  <2> QED BY <1>2, <2>2, <2>3
<1>6. ASSUME NEW R, Pairwise(a, R), Pairwise(b, R),
             \A x \in L!ToSet(a), y \in L!ToSet(b) : <<x, y>> \in R,
             NEW i \in 1 .. Len(c), NEW j \in 1 .. Len(c), i < j
      PROVE  <<c[i], c[j]>> \in R
  <2>0. i \in 1 .. Len(a) + Len(b) /\ j \in 1 .. Len(a) + Len(b) BY <1>1
  <2>1. CASE j <= Len(a)
    <3>1. i \in 1 .. Len(a) /\ j \in 1 .. Len(a) /\ c[i] = a[i] /\ c[j] = a[j]
      BY <1>1, <1>6, <2>0, <2>1
    <3> QED BY <1>6, <3>1 DEF Pairwise
  <2>2. CASE ~(i <= Len(a))
    <3>1. /\ i - Len(a) \in 1 .. Len(b) /\ j - Len(a) \in 1 .. Len(b) /\ i - Len(a) < j - Len(a)
          /\ c[i] = b[i - Len(a)] /\ c[j] = b[j - Len(a)]
      BY <1>1, <1>6, <2>0, <2>2
    <3> QED BY <1>6, <3>1 DEF Pairwise
  <2>3. CASE i <= Len(a) /\ ~(j <= Len(a))
    <3>1. i \in 1 .. Len(a) /\ j - Len(a) \in 1 .. Len(b) /\ c[i] = a[i] /\ c[j] = b[j - Len(a)]
      BY <1>1, <2>0, <2>3
    <3>2. a[i] \in L!ToSet(a) /\ b[j - Len(a)] \in L!ToSet(b) BY <1>2, <3>1
    <3> QED BY <1>6, <3>1, <3>2
  <2> QED BY <2>1, <2>2, <2>3
<1>7. L!ToSet(c) = L!ToSet(a) \union L!ToSet(b) BY <1>3, <1>4, <1>5
<1> QED BY <1>1, <1>6, <1>7 DEF c, Pairwise

(* Among, step by step.                                                      *)
Picked(S, s, T) ==
  \E f \in [0 .. Len(s) -> Seq(S \intersect T)] :
    /\ f[0] = << >> /\ L!Among(s, T) = f[Len(s)]
    /\ \A k \in 1 .. Len(s) : f[k] = IF s[k] \in T THEN Append(f[k - 1], s[k]) ELSE f[k - 1]
LEMMA AmongSteps ==
  ASSUME NEW S, NEW s \in Seq(S), NEW T
  PROVE  Picked(S, s, T)
<1> DEFINE n == Len(s)
           V == Seq(S \intersect T)
           P(g) == g = [k \in 0 .. Len(s) |->
                          IF k = 0 THEN << >>
                          ELSE IF s[k] \in T THEN Append(g[k - 1], s[k]) ELSE g[k - 1]]
           F == CHOOSE g : P(g)
           up == [k \in 1 .. n |-> k - 1]
           st == [x \in (1 .. n) \X V |-> IF s[x[1]] \in T THEN Append(x[2], s[x[1]]) ELSE x[2]]
<1>0. n \in Nat OBVIOUS
<1>1. \A k \in 1 .. n : s[k] \in S
  OBVIOUS
<1>2. \A k \in 1 .. n : up[k] \in 0 .. k - 1
  BY <1>0
<1>3. \A k \in 1 .. n : \A v \in V : st[<<k, v>>] \in V
  BY <1>1
<1>4. << >> \in V OBVIOUS
<1>5. \A k \in 1 .. n : \A v \in V : st[<<k, v>>] = IF s[k] \in T THEN Append(v, s[k]) ELSE v
  OBVIOUS
<1>6. \A k \in 1 .. n : up[k] = k - 1 OBVIOUS
<1> HIDE DEF st, up, V, n
<1>a. Defined(n, V, << >>, up, st)
  BY <1>0, <1>2, <1>3, <1>4, Recursion, Zenon
<1>7. PICK f \in [0 .. n -> V] : f[0] = << >> /\ \A k \in 1 .. n : f[k] = st[<<k, f[up[k]]>>]
  BY <1>a DEF Defined
<1>8. \A k \in 0 .. n : f[k] = IF k = 0 THEN << >>
                          ELSE IF s[k] \in T THEN Append(f[k - 1], s[k]) ELSE f[k - 1]
  <2> TAKE k \in 0 .. n
  <2>1. CASE k = 0 BY <1>7, <2>1
  <2>2. CASE k # 0
    <3>1. k \in 1 .. n /\ k - 1 \in 0 .. n BY <1>0, <2>2
    <3>2. f[k] = st[<<k, f[k - 1]>>] /\ f[k - 1] \in V BY <1>6, <1>7, <3>1
    <3> QED BY <1>5, <2>2, <3>1, <3>2
  <2> QED BY <2>1, <2>2
<1>9. P(f) BY <1>7, <1>8 DEF n
<1> HIDE DEF P
<1>10. P(F) BY <1>9, Zenon
<1> HIDE DEF F
<1>11. \A k \in 1 .. n : F[k] = IF s[k] \in T THEN Append(F[k - 1], s[k]) ELSE F[k - 1]
  <2> TAKE k \in 1 .. n
  <2>1. k \in 0 .. n /\ k # 0 BY <1>0
  <2>2. F = [j \in 0 .. n |-> IF j = 0 THEN << >>
                 ELSE IF s[j] \in T THEN Append(F[j - 1], s[j]) ELSE F[j - 1]]
    BY <1>10 DEF P, n
  <2> QED BY <2>1, <2>2
<1>12. F[0] = << >>
  BY <1>0, <1>10 DEF P, n
<1>13. \A k \in 1 .. n : F[up[k]] \in V => F[k] \in V
  <2> TAKE k \in 1 .. n
  <2> HAVE F[up[k]] \in V
  <2>1. up[k] = k - 1 /\ s[k] \in S BY <1>1, <1>6
  <2>2. F[k] = IF s[k] \in T THEN Append(F[up[k]], s[k]) ELSE F[up[k]] BY <1>11, <2>1
  <2> QED BY <2>1, <2>2 DEF V
<1>14. \A k \in 0 .. n : F[k] \in V
  <2>1. F[0] \in V BY <1>4, <1>12
  <2> QED BY <1>0, <1>2, <1>13, <2>1, RecursionTyped, Zenon
<1>15. F \in [0 .. n -> V]
  <2>1. F = [j \in 0 .. n |-> IF j = 0 THEN << >>
                 ELSE IF s[j] \in T THEN Append(F[j - 1], s[j]) ELSE F[j - 1]]
    BY <1>10 DEF P, n
  <2> QED BY <1>14, <2>1
<1>16. L!Among(s, T) = F[n]
  BY Zenon DEF L!Among, F, P, n
<1> QED BY <1>11, <1>12, <1>15, <1>16 DEF n, V, Picked

(* The elements that are kept are those in T ...                             *)
LEMMA AmongElements ==
  ASSUME NEW S, NEW s \in Seq(S), NEW T
  PROVE  /\ L!Among(s, T) \in Seq(S \intersect T)
         /\ \A x : x \in L!ToSet(L!Among(s, T)) <=> x \in L!ToSet(s) /\ x \in T
<1>0. Picked(S, s, T) BY AmongSteps
<1>1. PICK f \in [0 .. Len(s) -> Seq(S \intersect T)] :
        /\ f[0] = << >> /\ L!Among(s, T) = f[Len(s)]
        /\ \A k \in 1 .. Len(s) : f[k] = IF s[k] \in T THEN Append(f[k - 1], s[k]) ELSE f[k - 1]
  BY <1>0 DEF Picked
<1>2. Len(s) \in Nat OBVIOUS
<1> DEFINE K == {k \in 0 .. Len(s) : L!ToSet(f[k]) = {s[i] : i \in {j \in 1 .. k : s[j] \in T}}}
<1>3. ASSUME NEW k \in 0 .. Len(s), \A j \in 0 .. Len(s) : j < k => j \in K PROVE k \in K
  <2>1. CASE k = 0
    BY <1>1, <2>1 DEF L!ToSet
  <2>2. CASE k # 0
    <3>1. k \in 1 .. Len(s) /\ k - 1 \in 0 .. Len(s) /\ k - 1 < k BY <1>2, <2>2
    <3>2. L!ToSet(f[k - 1]) = {s[i] : i \in {j \in 1 .. k - 1 : s[j] \in T}} BY <1>3, <3>1
    <3>3. f[k - 1] \in Seq(S \intersect T) BY <3>1
    <3>4. CASE s[k] \in T
      <4>1. PICK q \in Seq(S \intersect T) : q = f[k - 1] BY <3>3
      <4>2. f[k] = Append(q, s[k]) BY <1>1, <3>1, <3>4, <4>1
      <4>3. s[k] \in S \intersect T BY <3>1, <3>4
      <4>4. L!ToSet(Append(q, s[k])) = L!ToSet(q) \union {s[k]}
        <5>1. /\ DOMAIN q = 1 .. Len(q) /\ Len(q) \in Nat
              /\ DOMAIN Append(q, s[k]) = 1 .. Len(q) + 1
              /\ \A i \in 1 .. Len(q) : Append(q, s[k])[i] = q[i]
              /\ Append(q, s[k])[Len(q) + 1] = s[k]
          BY <4>3
        <5>2. 1 .. Len(q) + 1 = (1 .. Len(q)) \union {Len(q) + 1} BY <5>1
        <5> HIDE <4>2
        <5> QED BY <5>1, <5>2 DEF L!ToSet
      <4>5. {j \in 1 .. k : s[j] \in T} = {j \in 1 .. k - 1 : s[j] \in T} \union {k}
        BY <3>1, <3>4
      <4>6. L!ToSet(f[k]) = {s[i] : i \in {j \in 1 .. k - 1 : s[j] \in T}} \union {s[k]}
        BY <3>2, <4>1, <4>2, <4>4
      <4>7. L!ToSet(f[k]) = {s[i] : i \in {j \in 1 .. k - 1 : s[j] \in T} \union {k}}
        BY <4>6
      <4> QED BY <4>5, <4>7
    <3>5. CASE s[k] \notin T
      <4>1. f[k] = f[k - 1] BY <1>1, <3>1, <3>5
      <4>2. {j \in 1 .. k : s[j] \in T} = {j \in 1 .. k - 1 : s[j] \in T}
        BY <3>1, <3>5
      <4> QED BY <3>1, <3>2, <4>1, <4>2
    <3> QED BY <3>4, <3>5
  <2> QED BY <2>1, <2>2
<1> HIDE DEF K
<1>4. \A k \in 0 .. Len(s) : k \in K BY <1>2, <1>3, UpTo
<1>5. L!ToSet(L!Among(s, T)) = {s[i] : i \in {j \in 1 .. Len(s) : s[j] \in T}}
  BY <1>1, <1>2, <1>4 DEF K
<1>6. L!Among(s, T) \in Seq(S \intersect T) BY <1>1, <1>2
<1>7. L!ToSet(s) = {s[i] : i \in 1 .. Len(s)} BY DEF L!ToSet
<1> QED BY <1>5, <1>6, <1>7

-----------------------------------------------------------------------------
(* A log that can be read, and the rows it replays to.                       *)
Row(N) == [id : 1 .. N, message : H!Messages]

(* An entry of the log.                                                      *)
Entry ==
  [type : {"meta", "custom", "branch_summary"}, parent : Nat]
    \union [type : {"message"}, parent : Nat, message : H!Messages]
    \union [type : {"compaction"}, parent : Nat, replaces : SUBSET Nat]
    \union [type : {"leaf"}, parent : Nat, target : Nat]

(* Every entry is below an earlier one.                                      *)
Tree(entries) ==
  /\ entries \in Seq(Entry)
  /\ \A n \in 1 .. Len(entries) :
       /\ entries[n].parent \in 0 .. n - 1
       /\ entries[n].type = "leaf" => entries[n].target = entries[n].parent

(* The message a compaction or a branch summary replays to.                  *)
SummaryMessage == H!User(0, "summary")

(* What an entry makes of the rows above it.                                 *)
Grown(e, n, rows) ==
  IF e.type = "message" THEN Append(rows, [id |-> n, message |-> e.message])
  ELSE IF e.type = "compaction" THEN L!Compacted(rows, n, e.replaces)
  ELSE IF e.type = "branch_summary" THEN Append(rows, [id |-> n, message |-> SummaryMessage])
  ELSE rows

(* It is one a transcript may hold.                                          *)
LEMMA SummaryIsMessage == SummaryMessage \in H!Messages
BY DEF SummaryMessage, H!User, H!Messages, H!UserMessages, H!Via

(* The least of some numbers.                                                *)
LEMMA LeastOf ==
  ASSUME NEW T, T \subseteq Nat, T # {}
  PROVE  L!Min(T) \in T /\ \A x \in T : L!Min(T) <= x
BY LeastOne DEF L!Min

(* A compaction leaves rows: the summary, and some of those there were.      *)
LEMMA CompactedRows ==
  ASSUME NEW S, NEW rows \in Seq(S), NEW id, NEW ids, [id |-> id, message |-> SummaryMessage] \in S
  PROVE  L!Compacted(rows, id, ids) \in Seq(S)
<1> DEFINE replaced == {i \in DOMAIN rows : rows[i].id \in ids}
           kept == {r \in L!ToSet(rows) : r.id \notin ids}
           summary == [id |-> id, message |-> SummaryMessage]
<1>1. CASE replaced = {}
  BY <1>1 DEF L!Compacted, SummaryMessage
<1>2. CASE replaced # {}
  <2>1. L!Min(replaced) \in 1 .. Len(rows)
    <3>1. replaced \subseteq Nat /\ replaced \subseteq 1 .. Len(rows) OBVIOUS
    <3> HIDE DEF replaced
    <3> QED BY <1>2, <3>1, LeastOf
  <2> DEFINE m == L!Min(replaced)
             front == SubSeq(rows, 1, m - 1)
             back == SubSeq(rows, m + 1, Len(rows))
  <2>2. L!Compacted(rows, id, ids)
          = (L!Among(front, kept) \o <<summary>>) \o L!Among(back, kept)
    BY <1>2 DEF L!Compacted, SummaryMessage
  <2>3. front \in Seq(S) /\ back \in Seq(S)
    <3> HIDE DEF replaced
    <3>1. m \in 1 .. Len(rows) BY <2>1
    <3> HIDE DEF m
    <3> QED BY <3>1
  <2>4. /\ L!Among(front, kept) \in Seq(S \intersect kept)
        /\ L!Among(back, kept) \in Seq(S \intersect kept)
    <3> HIDE DEF front, back, kept
    <3> QED BY <2>3, AmongElements
  <2>5. L!Among(front, kept) \in Seq(S) /\ L!Among(back, kept) \in Seq(S) /\ <<summary>> \in Seq(S)
    <3> HIDE DEF front, back, kept
    <3> QED BY <2>4
  <2> HIDE DEF front, back, kept, summary
  <2> QED BY <2>2, <2>5
<1> QED BY <1>1, <1>2

(* What an entry makes of rows are rows.                                     *)
LEMMA GrownRows ==
  ASSUME NEW e \in Entry, NEW N \in Nat, NEW n \in 1 .. N, NEW rows \in Seq(Row(N))
  PROVE  Grown(e, n, rows) \in Seq(Row(N))
<1>1. [id |-> n, message |-> SummaryMessage] \in Row(N)
  BY SummaryIsMessage DEF Row
<1>2. e.type = "message" => e.message \in H!Messages
  BY DEF Entry
<1>3. CASE e.type = "message"
  <2>1. [id |-> n, message |-> e.message] \in Row(N) BY <1>2, <1>3 DEF Row
  <2> QED BY <1>3, <2>1 DEF Grown
<1>4. CASE e.type = "compaction"
  BY <1>1, <1>4, CompactedRows DEF Grown
<1>5. CASE e.type = "branch_summary"
  BY <1>1, <1>5 DEF Grown
<1>6. CASE e.type \notin {"message", "compaction", "branch_summary"}
  BY <1>6 DEF Grown
<1> QED BY <1>3, <1>4, <1>5, <1>6

(* Rows replays a log entry by entry.                                        *)
LEMMA RowsFacts ==
  ASSUME NEW entries, Tree(entries)
  PROVE  /\ L!Rows(entries, 0) = << >>
         /\ \A n \in 1 .. Len(entries) :
              L!Rows(entries, n) = Grown(entries[n], n, L!Rows(entries, entries[n].parent))
         /\ \A n \in 0 .. Len(entries) : L!Rows(entries, n) \in Seq(Row(Len(entries)))
<1> DEFINE n == Len(entries)
           V == Seq(Row(Len(entries)))
           P(g) == g = [k \in 0 .. Len(entries) |->
                          CASE k = L!None -> << >>
                            [] k # L!None /\ entries[k].type = "message" ->
                                 Append(g[entries[k].parent], [id |-> k, message |-> entries[k].message])
                            [] k # L!None /\ entries[k].type = "compaction" ->
                                 L!Compacted(g[entries[k].parent], k, entries[k].replaces)
                            [] k # L!None /\ entries[k].type = "branch_summary" ->
                                 Append(g[entries[k].parent], [id |-> k, message |-> H!User(0, "summary")])
                            [] OTHER -> g[entries[k].parent]]
           F == CHOOSE g : P(g)
           up == [k \in 1 .. n |-> entries[k].parent]
           st == [x \in (1 .. n) \X V |-> Grown(entries[x[1]], x[1], x[2])]
<1>0. n \in Nat BY DEF Tree
<1>1. \A k \in 1 .. n : entries[k] \in Entry /\ entries[k].parent \in 0 .. k - 1
  BY DEF Tree
<1>2. \A k \in 1 .. n : up[k] \in 0 .. k - 1
  BY <1>1
<1>3. \A k \in 1 .. n, v \in V : st[<<k, v>>] \in V
  <2> TAKE k \in 1 .. n, v \in V
  <2>1. k \in 1 .. n /\ entries[k] \in Entry BY <1>0, <1>1
  <2>2. Grown(entries[k], k, v) \in V BY <1>0, <2>1, GrownRows
  <2> QED BY <2>2
<1>4. << >> \in V OBVIOUS
<1>5. \A k \in 1 .. n : \A v \in V : st[<<k, v>>] = Grown(entries[k], k, v)
  OBVIOUS
<1>6. \A k \in 1 .. n : up[k] = entries[k].parent OBVIOUS
<1>7. \A g : P(g) <=> g = [k \in 0 .. n |-> IF k = 0 THEN << >>
                                            ELSE Grown(entries[k], k, g[entries[k].parent])]
  BY DEF Grown, SummaryMessage, L!None
<1>8. \A j \in 0 .. n : L!Rows(entries, j) = F[j]
  BY Zenon DEF L!Rows
<1> HIDE DEF st, up, V, n, P
<1>9. Defined(n, V, << >>, up, st)
  BY <1>0, <1>2, <1>3, <1>4, Recursion, Zenon
<1>10. PICK f \in [0 .. n -> V] : f[0] = << >> /\ \A k \in 1 .. n : f[k] = st[<<k, f[up[k]]>>]
  BY <1>9 DEF Defined
<1>11. f = [k \in 0 .. n |-> IF k = 0 THEN << >> ELSE Grown(entries[k], k, f[entries[k].parent])]
  <2>1. ASSUME NEW k \in 0 .. n
        PROVE  f[k] = IF k = 0 THEN << >> ELSE Grown(entries[k], k, f[entries[k].parent])
    <3>1. CASE k = 0 BY <1>10, <3>1
    <3>2. CASE k # 0
      <4>1. k \in 1 .. n BY <1>0, <3>2
      <4>2. entries[k].parent \in 0 .. n BY <1>0, <1>1, <4>1
      <4>3. f[k] = st[<<k, f[entries[k].parent]>>] /\ f[entries[k].parent] \in V
        BY <1>6, <1>10, <4>1, <4>2
      <4> QED BY <1>5, <3>2, <4>1, <4>3
    <3> QED BY <3>1, <3>2
  <2> QED BY <1>10, <2>1
<1>12. P(f) BY <1>7, <1>11
<1>13. P(F) BY <1>12, Zenon
<1> HIDE DEF F
<1>14. F = [k \in 0 .. n |-> IF k = 0 THEN << >> ELSE Grown(entries[k], k, F[entries[k].parent])]
  BY <1>7, <1>13
<1>15. F[0] = << >> BY <1>0, <1>14
<1>16. \A k \in 1 .. n : F[k] = Grown(entries[k], k, F[entries[k].parent])
  <2> TAKE k \in 1 .. n
  <2>1. k \in 0 .. n /\ k # 0 BY <1>0
  <2> QED BY <1>14, <2>1
<1>17. \A k \in 1 .. n : F[up[k]] \in V => F[k] \in V
  <2> TAKE k \in 1 .. n
  <2> HAVE F[up[k]] \in V
  <2>1. k \in 0 .. Len(entries) /\ Len(entries) \in Nat /\ entries[k] \in Entry
    BY <1>0, <1>1 DEF n
  <2>2. Grown(entries[k], k, F[up[k]]) \in V BY <2>1, GrownRows DEF V
  <2> QED BY <1>6, <1>16, <2>2
<1>18. F[0] \in V BY <1>4, <1>15
<1>19. \A k \in 0 .. n : F[k] \in V
  BY <1>0, <1>2, <1>17, <1>18, RecursionTyped, Zenon
<1>20. ASSUME NEW k \in 1 .. n
       PROVE  L!Rows(entries, k) = Grown(entries[k], k, L!Rows(entries, entries[k].parent))
  <2>1. k \in 0 .. n /\ entries[k].parent \in 0 .. n BY <1>0, <1>1
  <2> QED BY <1>8, <1>16, <2>1
<1>21. L!Rows(entries, 0) = << >> BY <1>0, <1>8, <1>15
<1> QED BY <1>8, <1>19, <1>20, <1>21 DEF n, V

(* What stands in a log replays to the same rows whatever is added.          *)
LEMMA SameRows ==
  ASSUME NEW a, NEW b, Tree(a), Tree(b), Len(a) <= Len(b), \A i \in 1 .. Len(a) : b[i] = a[i]
  PROVE  \A n \in 0 .. Len(a) : L!Rows(b, n) = L!Rows(a, n)
<1> DEFINE T == {n \in 0 .. Len(a) : L!Rows(b, n) = L!Rows(a, n)}
<1>0. Len(a) \in Nat /\ Len(b) \in Nat BY DEF Tree
<1>1. ASSUME NEW n \in 0 .. Len(a), \A j \in 0 .. Len(a) : j < n => j \in T PROVE n \in T
  <2>1. CASE n = 0 BY <2>1, RowsFacts
  <2>2. CASE n # 0
    <3>1. n \in 1 .. Len(a) /\ n \in 1 .. Len(b) /\ b[n] = a[n] BY <1>0, <2>2
    <3>2. a[n].parent \in 0 .. n - 1 BY <3>1 DEF Tree
    <3>3. a[n].parent \in 0 .. Len(a) /\ a[n].parent < n BY <1>0, <3>1, <3>2
    <3>4. L!Rows(b, a[n].parent) = L!Rows(a, a[n].parent) BY <1>1, <3>3
    <3>5. L!Rows(b, n) = Grown(b[n], n, L!Rows(b, b[n].parent)) BY <3>1, RowsFacts
    <3>6. L!Rows(a, n) = Grown(a[n], n, L!Rows(a, a[n].parent)) BY <3>1, RowsFacts
    <3> QED BY <3>1, <3>4, <3>5, <3>6
  <2> QED BY <2>1, <2>2
<1> HIDE DEF T
<1>2. \A n \in 0 .. Len(a) : n \in T
  BY <1>0, <1>1, UpTo
<1> QED BY <1>2 DEF T

(* What begins a readable log is one.                                        *)
LEMMA PrefixTree ==
  ASSUME NEW entries, Tree(entries), NEW n \in 0 .. Len(entries)
  PROVE  Tree(SubSeq(entries, 1, n)) /\ Len(SubSeq(entries, 1, n)) = n
<1> DEFINE front == SubSeq(entries, 1, n)
<1>1. /\ entries \in Seq(Entry) /\ Len(entries) \in Nat BY DEF Tree
<1>2. front \in Seq(Entry) /\ Len(front) = n /\ \A i \in 1 .. n : front[i] = entries[i]
  BY <1>1
<1> HIDE DEF front
<1>3. \A i \in 1 .. n : i \in 1 .. Len(entries) BY <1>1
<1>4. Tree(front) BY <1>2, <1>3 DEF Tree
<1> QED BY <1>2, <1>4 DEF front

(* The opening entry is there, and every place to write below.               *)
LEMMA OpenedFacts ==
  ASSUME NEW entries, Tree(entries)
  PROVE  /\ Tree(L!Opened(entries)) /\ Len(L!Opened(entries)) \in Nat \ {0}
         /\ Len(entries) \in Nat /\ Len(entries) <= Len(L!Opened(entries))
         /\ entries # << >> => L!Opened(entries) = entries
         /\ entries = << >> => Len(L!Opened(entries)) = 1
         /\ \A i \in 1 .. Len(entries) : L!Opened(entries)[i] = entries[i]
         /\ \A n \in 0 .. Len(L!Opened(entries)) : L!Rows(L!Opened(entries), n) = RowsOf(entries, n)
<1>1. CASE entries # << >>
  BY <1>1 DEF L!Opened, RowsOf, Tree
<1>2. CASE entries = << >>
  <2>1. L!Opened(entries) = <<L!Meta>> BY <1>2 DEF L!Opened
  <2>2. L!Meta \in Entry /\ L!Meta.parent = 0 /\ L!Meta.type = "meta"
    BY DEF L!Meta, L!None, Entry
  <2> DEFINE o == <<L!Meta>>
  <2>3. o \in Seq(Entry) /\ Len(o) = 1 /\ o[1] = L!Meta BY <2>2
  <2> HIDE DEF o
  <2>4. Tree(o) BY <2>2, <2>3 DEF Tree
  <2>5. L!Rows(o, 0) = << >> BY <2>4, RowsFacts
  <2>6. L!Rows(o, 1) = Grown(o[1], 1, L!Rows(o, o[1].parent))
    <3>1. 1 \in 1 .. Len(o) BY <2>3
    <3>2. \A n \in 1 .. Len(o) : L!Rows(o, n) = Grown(o[n], n, L!Rows(o, o[n].parent))
      BY <2>4, RowsFacts
    <3> QED BY <3>1, <3>2
  <2>7. L!Rows(o, 1) = << >> BY <2>2, <2>3, <2>5, <2>6 DEF Grown
  <2>8. \A n \in 0 .. 1 : L!Rows(o, n) = RowsOf(entries, n)
    BY <1>2, <2>5, <2>7 DEF RowsOf
  <2>9. Len(entries) = 0 BY <1>2
  <2>10. L!Opened(entries) = o BY <2>1 DEF o
  <2>11. \A n \in 0 .. Len(L!Opened(entries)) : L!Rows(L!Opened(entries), n) = RowsOf(entries, n)
    BY <2>3, <2>8, <2>10
  <2>12. Tree(L!Opened(entries)) /\ Len(L!Opened(entries)) = 1
    BY <2>3, <2>4, <2>10
  <2>13. \A i \in 1 .. Len(entries) : L!Opened(entries)[i] = entries[i]
    BY <2>9
  <2> QED BY <1>2, <2>9, <2>11, <2>12, <2>13
<1> QED BY <1>1, <1>2

(* The last leaf is the active one.                                          *)
LEMMA LastLeaf ==
  ASSUME NEW entries, Tree(entries), Len(entries) > 0, entries[Len(entries)].type = "leaf"
  PROVE  L!ActiveLeaf(entries) = entries[Len(entries)].target
<1> DEFINE leaves == {n \in DOMAIN entries : entries[n].type = "leaf"}
<1>1. /\ Len(entries) \in leaves
      /\ \A n \in leaves : n \in Nat /\ Len(entries) \in Nat /\ Len(entries) >= n
  BY DEF Tree
<1> HIDE DEF leaves
<1>2. L!Max(leaves) \in leaves /\ \A n \in leaves : L!Max(leaves) >= n
  BY <1>1 DEF L!Max
<1>3. L!Max(leaves) = Len(entries) BY <1>1, <1>2
<1> QED BY <1>1, <1>3 DEF L!ActiveLeaf, leaves

(* And in any log there is one that can be replayed.                         *)
LEMMA LeafThere ==
  ASSUME NEW entries, Tree(entries)
  PROVE  L!ActiveLeaf(entries) \in 0 .. Len(entries)
<1> DEFINE leaves == {n \in DOMAIN entries : entries[n].type = "leaf"}
<1>0. Len(entries) \in Nat BY DEF Tree
<1>1. CASE leaves = {} BY <1>0, <1>1 DEF L!ActiveLeaf
<1>2. CASE leaves # {}
  <2>1. leaves \subseteq 1 .. Len(entries) BY DEF Tree
  <2> DEFINE U == {Len(entries) - n : n \in leaves}
  <2>2. U \subseteq Nat /\ U # {} BY <1>0, <1>2, <2>1
  <2>3. \E u \in U : \A v \in U : u <= v
    <3> HIDE DEF U
    <3> QED BY <2>2, LeastOne
  <2>4. PICK x \in leaves : \A v \in U : Len(entries) - x <= v BY <2>3
  <2>5. \A y \in leaves : x >= y
    <3> TAKE y \in leaves
    <3>1. Len(entries) - x <= Len(entries) - y BY <2>4
    <3>2. x \in 1 .. Len(entries) /\ y \in 1 .. Len(entries) BY <2>1
    <3> QED BY <1>0, <3>1, <3>2
  <2> HIDE DEF leaves, U
  <2>6. L!Max(leaves) \in leaves BY <2>5 DEF L!Max
  <2>7. L!ActiveLeaf(entries) = entries[L!Max(leaves)].target
    BY <1>2, <2>6 DEF L!ActiveLeaf, leaves
  <2>8. /\ entries[L!Max(leaves)].target \in 0 .. L!Max(leaves) - 1
        /\ L!Max(leaves) \in 1 .. Len(entries)
    BY <2>1, <2>6 DEF Tree, leaves
  <2> QED BY <1>0, <2>7, <2>8
<1> QED BY <1>1, <1>2

(* An entry below another one, and the leaf that makes it the active one.    *)
LEMMA AppendedFacts ==
  ASSUME NEW entries, Tree(entries), NEW e \in Entry, e.type # "leaf",
         e.parent \in 0 .. Len(L!Opened(entries)), NEW N, N = Len(L!Opened(entries)) + 1
  PROVE  /\ Tree(L!Appended(entries, e)) /\ Len(L!Appended(entries, e)) = N + 1
         /\ L!ActiveLeaf(L!Appended(entries, e)) = N
         /\ L!Rows(L!Appended(entries, e), N) = Grown(e, N, RowsOf(entries, e.parent))
         /\ \A i \in 1 .. Len(entries) : L!Appended(entries, e)[i] = entries[i]
         /\ \A n \in 0 .. Len(L!Opened(entries)) :
              L!Rows(L!Appended(entries, e), n) = RowsOf(entries, n)
<1> DEFINE o == L!Opened(entries)
           t == <<e, L!LeafEntry(N)>>
           a == L!Appended(entries, e)
<1>1. /\ Tree(o) /\ Len(o) \in Nat \ {0} /\ o \in Seq(Entry) /\ N \in Nat /\ N = Len(o) + 1
      /\ Len(entries) \in Nat /\ Len(entries) <= Len(o)
      /\ \A i \in 1 .. Len(entries) : o[i] = entries[i]
      /\ \A n \in 0 .. Len(o) : L!Rows(o, n) = RowsOf(entries, n)
  BY OpenedFacts DEF Tree
<1>2. /\ L!LeafEntry(N) \in Entry /\ L!LeafEntry(N).parent = N /\ L!LeafEntry(N).target = N
      /\ L!LeafEntry(N).type = "leaf"
  BY <1>1 DEF L!LeafEntry, Entry
<1>3. t \in Seq(Entry) /\ Len(t) = 2 /\ t[1] = e /\ t[2] = L!LeafEntry(N)
  BY <1>2
<1>4. a = o \o t
  BY DEF L!Appended
<1>a. e.parent \in 0 .. Len(o) OBVIOUS
<1> HIDE DEF o, t, a
<1>5. /\ a \in Seq(Entry) /\ Len(a) = N + 1 /\ \A i \in 1 .. Len(o) : a[i] = o[i]
      /\ a[N] = e /\ a[N + 1] = L!LeafEntry(N)
  <2>1. /\ a \in Seq(Entry) /\ Len(a) = Len(o) + 2
        /\ \A i \in 1 .. Len(o) + 2 : a[i] = IF i <= Len(o) THEN o[i] ELSE t[i - Len(o)]
    <3>1. o \in Seq(Entry) /\ t \in Seq(Entry) BY <1>1, <1>3
    <3>2. /\ o \o t \in Seq(Entry) /\ Len(o \o t) = Len(o) + Len(t)
          /\ \A i \in 1 .. Len(o) + Len(t) : (o \o t)[i] = IF i <= Len(o) THEN o[i] ELSE t[i - Len(o)]
      BY <3>1, ConcatProperties
    <3> QED BY <1>3, <1>4, <3>2
  <2>2. N \in 1 .. Len(o) + 2 /\ N + 1 \in 1 .. Len(o) + 2 /\ N - Len(o) = 1 /\ N + 1 - Len(o) = 2
        /\ ~(N <= Len(o)) /\ ~(N + 1 <= Len(o)) /\ Len(o) + 2 = N + 1
    BY <1>1
  <2>3. a[N] = t[1] /\ a[N + 1] = t[2] BY <2>1, <2>2
  <2> QED BY <1>1, <1>3, <2>1, <2>2, <2>3
<1>6. Tree(a)
  <2>1. ASSUME NEW n \in 1 .. N + 1
        PROVE  a[n].parent \in 0 .. n - 1 /\ (a[n].type = "leaf" => a[n].target = a[n].parent)
    <3>1. CASE n \in 1 .. Len(o) BY <1>1, <1>5, <3>1 DEF Tree
    <3>2. CASE n = N BY <1>1, <1>5, <1>a, <3>2
    <3>3. CASE n = N + 1 BY <1>1, <1>2, <1>5, <3>3
    <3> QED BY <1>1, <3>1, <3>2, <3>3
  <2> QED BY <1>5, <2>1 DEF Tree
<1>7. L!ActiveLeaf(a) = N
  <2>1. Len(a) > 0 /\ a[Len(a)].type = "leaf" /\ a[Len(a)].target = N BY <1>1, <1>2, <1>5
  <2> QED BY <1>6, <2>1, LastLeaf
<1>8. \A n \in 0 .. Len(o) : L!Rows(a, n) = L!Rows(o, n)
  BY <1>1, <1>5, <1>6, SameRows
<1>9. L!Rows(a, N) = Grown(e, N, L!Rows(o, e.parent))
  <2>1. N \in 1 .. Len(a) BY <1>1, <1>5
  <2>2. \A n \in 1 .. Len(a) : L!Rows(a, n) = Grown(a[n], n, L!Rows(a, a[n].parent))
    BY <1>6, RowsFacts
  <2>3. L!Rows(a, N) = Grown(e, N, L!Rows(a, e.parent)) BY <1>5, <2>1, <2>2
  <2> QED BY <1>8, <1>a, <2>3
<1>10. L!Rows(a, N) = Grown(e, N, RowsOf(entries, e.parent))
  BY <1>1, <1>9, <1>a
<1>11. \A n \in 0 .. Len(o) : L!Rows(a, n) = RowsOf(entries, n)
  BY <1>1, <1>8
<1>12. \A i \in 1 .. Len(entries) : a[i] = entries[i]
  BY <1>1, <1>5
<1> QED BY <1>5, <1>6, <1>7, <1>10, <1>11, <1>12 DEF a, o

(* The leaf moves.                                                           *)
LEMMA MovedFacts ==
  ASSUME NEW entries, Tree(entries), NEW target \in 0 .. Len(entries)
  PROVE  /\ Tree(L!MovedTo(entries, target)) /\ L!ActiveLeaf(L!MovedTo(entries, target)) = target
         /\ Len(L!MovedTo(entries, target)) = Len(entries) + 1
         /\ \A i \in 1 .. Len(entries) : L!MovedTo(entries, target)[i] = entries[i]
<1> DEFINE l == L!LeafEntry(target)
           a == L!MovedTo(entries, target)
<1>1. entries \in Seq(Entry) /\ Len(entries) \in Nat BY DEF Tree
<1>2. l \in Entry /\ l.parent = target /\ l.target = target /\ l.type = "leaf"
  BY <1>1 DEF L!LeafEntry, Entry
<1>3. a = Append(entries, l) BY DEF L!MovedTo
<1> HIDE DEF a, l
<1>4. /\ a \in Seq(Entry) /\ Len(a) = Len(entries) + 1 /\ a[Len(a)] = l
      /\ \A i \in 1 .. Len(entries) : a[i] = entries[i]
  BY <1>1, <1>2, <1>3
<1>5. Tree(a)
  <2>1. ASSUME NEW n \in 1 .. Len(a)
        PROVE  a[n].parent \in 0 .. n - 1 /\ (a[n].type = "leaf" => a[n].target = a[n].parent)
    <3>1. CASE n \in 1 .. Len(entries) BY <1>4, <3>1 DEF Tree
    <3>2. CASE n = Len(a) BY <1>1, <1>2, <1>4, <3>2
    <3> QED BY <1>1, <1>4, <3>1, <3>2
  <2> QED BY <1>4, <2>1 DEF Tree
<1>6. L!ActiveLeaf(a) = target
  <2>1. Len(a) > 0 BY <1>1, <1>4
  <2> QED BY <1>2, <1>4, <1>5, <2>1, LastLeaf
<1> QED BY <1>4, <1>5, <1>6 DEF a

(* The messages of rows.                                                     *)
LEMMA MessagesFacts ==
  ASSUME NEW N, NEW rows \in Seq(Row(N))
  PROVE  /\ L!MessagesOf(rows) \in Seq(H!Messages) /\ Len(L!MessagesOf(rows)) = Len(rows)
         /\ \A i \in 1 .. Len(rows) : L!MessagesOf(rows)[i] = rows[i].message
<1>1. \A i \in 1 .. Len(rows) : rows[i].message \in H!Messages
  <2>1. \A i \in 1 .. Len(rows) : rows[i] \in Row(N) OBVIOUS
  <2> QED BY <2>1 DEF Row
<1>2. L!MessagesOf(rows) = [i \in 1 .. Len(rows) |-> rows[i].message]
  BY DEF L!MessagesOf
<1>3. Len(rows) \in Nat OBVIOUS
<1> QED BY <1>1, <1>2, <1>3

(* One message more of a sequence added to another one.                      *)
LEMMA OneMore ==
  ASSUME NEW S, NEW old \in Seq(S), NEW s \in Seq(S), NEW m \in 1 .. Len(s)
  PROVE  Append(old \o SubSeq(s, 1, m - 1), s[m]) = old \o SubSeq(s, 1, m)
<1> DEFINE a == SubSeq(s, 1, m - 1)
           c == SubSeq(s, 1, m)
<1>1. a \in Seq(S) /\ Len(a) = m - 1 /\ \A i \in 1 .. m - 1 : a[i] = s[i]
  <2>1. CASE m = 1
    <3>1. a = << >> BY <2>1
    <3> QED BY <2>1, <3>1
  <2>2. CASE m > 1 BY <2>2
  <2> QED BY <2>1, <2>2
<1>2. c \in Seq(S) /\ Len(c) = m /\ \A i \in 1 .. m : c[i] = s[i]
  OBVIOUS
<1> HIDE DEF a, c
<1>3. /\ old \o a \in Seq(S) /\ Len(old \o a) = Len(old) + Len(a)
      /\ \A i \in 1 .. Len(old) + Len(a) :
           (old \o a)[i] = IF i <= Len(old) THEN old[i] ELSE a[i - Len(old)]
  BY <1>1, ConcatProperties
<1>4. /\ old \o c \in Seq(S) /\ Len(old \o c) = Len(old) + Len(c)
      /\ \A i \in 1 .. Len(old) + Len(c) :
           (old \o c)[i] = IF i <= Len(old) THEN old[i] ELSE c[i - Len(old)]
  BY <1>2, ConcatProperties
<1> DEFINE x == old \o a
           y == old \o c
<1>5. s[m] \in S /\ Len(old) \in Nat /\ m \in Nat OBVIOUS
<1>6. Append(x, s[m]) \in Seq(S) /\ Len(Append(x, s[m])) = Len(old) + m
      /\ \A i \in 1 .. Len(old) + m : Append(x, s[m])[i] = IF i = Len(old) + m THEN s[m] ELSE x[i]
  <2> HIDE DEF x
  <2> QED BY <1>1, <1>3, <1>5 DEF x
<1>7. \A i \in 1 .. Len(old) + m : Append(x, s[m])[i] = y[i]
  <2> TAKE i \in 1 .. Len(old) + m
  <2>1. CASE i = Len(old) + m
    <3>1. i - Len(old) = m /\ ~(i <= Len(old)) /\ m \in 1 .. m BY <1>5, <2>1
    <3> QED BY <1>2, <1>4, <1>6, <2>1, <3>1
  <2>2. CASE i # Len(old) + m /\ i <= Len(old)
    <3>1. i \in 1 .. Len(old) + Len(a) /\ i \in 1 .. Len(old) + Len(c)
      BY <1>1, <1>2, <1>5, <2>2
    <3> QED BY <1>3, <1>4, <1>6, <2>2, <3>1
  <2>3. CASE i # Len(old) + m /\ ~(i <= Len(old))
    <3>0. Len(a) = m - 1 /\ Len(c) = m BY <1>1, <1>2
    <3>1. /\ i \in 1 .. Len(old) + Len(a) /\ i \in 1 .. Len(old) + Len(c)
          /\ i - Len(old) \in 1 .. m - 1 /\ i - Len(old) \in 1 .. m
      <4>1. i \in Nat /\ i > Len(old) /\ i < Len(old) + m BY <1>5, <2>3
      <4> HIDE DEF x, y
      <4> QED BY <1>5, <3>0, <4>1
    <3>2. a[i - Len(old)] = c[i - Len(old)] BY <1>1, <1>2, <3>1
    <3> QED BY <1>3, <1>4, <1>6, <2>3, <3>1, <3>2
  <2> QED BY <2>1, <2>2, <2>3
<1>8. y \in Seq(S) /\ Len(y) = Len(old) + m BY <1>2, <1>4
<1> HIDE DEF x, y
<1>9. Append(x, s[m]) = y BY <1>6, <1>7, <1>8
<1> QED BY <1>9 DEF x, y, a, c

(* A chain of message entries from b + 1 on, each with its leaf.             *)
Chain(w, b, parent, msgs) ==
  \A m \in 1 .. Len(msgs) :
    /\ w[b + 2 * m - 1] = L!MessageEntry(IF m = 1 THEN parent ELSE b + 2 * m - 3, msgs[m])
    /\ w[b + 2 * m] = L!LeafEntry(b + 2 * m - 1)

(* Entry by entry, what _persist_messages_since writes.                      *)
LEMMA WrittenEntries ==
  ASSUME NEW entries, Tree(entries), NEW parent \in 0 .. Len(L!Opened(entries)),
         NEW msgs \in Seq(H!Messages), msgs # << >>,
         NEW b, b = Len(L!Opened(entries)), NEW k, k = Len(msgs),
         NEW w, w = L!WithMessages(entries, parent, msgs)
  PROVE  /\ w \in Seq(Entry) /\ Len(w) = b + 2 * k /\ k \in Nat \ {0} /\ b \in Nat \ {0}
         /\ \A i \in 1 .. b : w[i] = L!Opened(entries)[i]
         /\ Chain(w, b, parent, msgs)
<1> DEFINE o == L!Opened(entries)
           above(m) == IF m = 1 THEN parent ELSE b + 2 * m - 3
           entry(n) == LET m == (n + 1) \div 2
                       IN IF n % 2 = 1 THEN L!MessageEntry(above(m), msgs[m])
                                       ELSE L!LeafEntry(b + n - 1)
           t == [n \in 1 .. 2 * k |-> entry(n)]
<1>1. o \in Seq(Entry) /\ b \in Nat \ {0} /\ b = Len(o)
  BY OpenedFacts DEF Tree
<1>2. k \in Nat \ {0} /\ \A m \in 1 .. k : msgs[m] \in H!Messages
  OBVIOUS
<1>3. w = o \o t
  BY DEF L!WithMessages
<1>4. ASSUME NEW m \in 1 .. k
      PROVE  above(m) \in Nat /\ b + 2 * m - 1 \in Nat
  BY <1>1, <1>2
<1>5. ASSUME NEW m \in 1 .. k
      PROVE  /\ entry(2 * m - 1) = L!MessageEntry(above(m), msgs[m])
             /\ entry(2 * m) = L!LeafEntry(b + 2 * m - 1)
  <2>1. m \in Nat /\ ((2 * m - 1) + 1) \div 2 = m /\ (2 * m - 1) % 2 = 1 /\ (2 * m) % 2 = 0
    BY <1>2
  <2> HIDE DEF above
  <2> QED BY <2>1
<1>6. \A m \in 1 .. k : entry(2 * m - 1) \in Entry /\ entry(2 * m) \in Entry
  <2> TAKE m \in 1 .. k
  <2>1. L!MessageEntry(above(m), msgs[m]) \in Entry
    <3> HIDE DEF above
    <3> QED BY <1>2, <1>4 DEF L!MessageEntry, Entry
  <2>2. L!LeafEntry(b + 2 * m - 1) \in Entry
    BY <1>4 DEF L!LeafEntry, Entry
  <2> HIDE DEF entry, above
  <2> QED BY <1>5, <2>1, <2>2
<1>7. \A n \in 1 .. 2 * k : \E m \in 1 .. k : n = 2 * m - 1 \/ n = 2 * m
  <2> TAKE n \in 1 .. 2 * k
  <2>1. (n + 1) \div 2 \in 1 .. k /\ (n = 2 * ((n + 1) \div 2) - 1 \/ n = 2 * ((n + 1) \div 2))
    BY <1>2
  <2> QED BY <2>1
<1> HIDE DEF entry, above
<1>8. t \in Seq(Entry) /\ Len(t) = 2 * k
  <2>1. \A n \in 1 .. 2 * k : entry(n) \in Entry BY <1>6, <1>7
  <2>2. 2 * k \in Nat BY <1>2
  <2> QED BY <2>1, <2>2
<1>9. \A m \in 1 .. k : t[2 * m - 1] = entry(2 * m - 1) /\ t[2 * m] = entry(2 * m)
  <2> TAKE m \in 1 .. k
  <2>1. 2 * m - 1 \in 1 .. 2 * k /\ 2 * m \in 1 .. 2 * k BY <1>2
  <2> QED BY <2>1
<1> HIDE DEF t, o
<1>10. /\ o \o t \in Seq(Entry) /\ Len(o \o t) = Len(o) + Len(t)
       /\ \A i \in 1 .. Len(o) + Len(t) : (o \o t)[i] = IF i <= Len(o) THEN o[i] ELSE t[i - Len(o)]
  BY <1>1, <1>8, ConcatProperties
<1>11. w \in Seq(Entry) /\ Len(w) = b + 2 * k /\ \A i \in 1 .. b : w[i] = o[i]
  BY <1>1, <1>2, <1>3, <1>8, <1>10
<1>12. ASSUME NEW m \in 1 .. k
       PROVE  w[b + 2 * m - 1] = t[2 * m - 1] /\ w[b + 2 * m] = t[2 * m]
  <2>1. /\ b + 2 * m - 1 \in 1 .. b + 2 * k /\ ~(b + 2 * m - 1 <= b)
        /\ b + 2 * m - 1 - b = 2 * m - 1
        /\ b + 2 * m \in 1 .. b + 2 * k /\ ~(b + 2 * m <= b) /\ b + 2 * m - b = 2 * m
    BY <1>1, <1>2
  <2> QED BY <1>1, <1>3, <1>8, <1>10, <2>1
<1>13. \A m \in 1 .. k :
         /\ w[b + 2 * m - 1] = L!MessageEntry(above(m), msgs[m])
         /\ w[b + 2 * m] = L!LeafEntry(b + 2 * m - 1)
  BY <1>5, <1>9, <1>12
<1>14. Chain(w, b, parent, msgs)
  BY <1>13 DEF Chain, above
<1> QED BY <1>1, <1>2, <1>11, <1>14 DEF o

(* A log w in which messages were written below `parent`, the last of them   *)
(* as `last`: its branch replays to the old one's messages and these.        *)
Wrote(entries, parent, msgs, w, last) ==
  /\ Tree(w) /\ last \in 1 .. Len(w) /\ L!ActiveLeaf(w) = last
  /\ Len(entries) <= Len(w) /\ \A i \in 1 .. Len(entries) : w[i] = entries[i]
  /\ L!MessagesOf(L!Rows(w, last)) = L!MessagesOf(RowsOf(entries, parent)) \o msgs
  /\ Chain(w, Len(L!Opened(entries)), parent, msgs)
  /\ Len(w) = Len(L!Opened(entries)) + 2 * Len(msgs)

(* The log and the replay after messages were written: a chain below         *)
(* `parent`, whose end is active, that replays to the messages.              *)
LEMMA WrittenFacts ==
  ASSUME NEW entries, Tree(entries), NEW parent \in 0 .. Len(L!Opened(entries)),
         NEW msgs \in Seq(H!Messages), msgs # << >>,
         NEW w, w = L!WithMessages(entries, parent, msgs),
         NEW last, last = L!LastMessageId(entries, msgs)
  PROVE  Wrote(entries, parent, msgs, w, last)
<1> DEFINE o == L!Opened(entries)
           b == Len(L!Opened(entries))
           k == Len(msgs)
           at(m) == b + 2 * m - 1
           above(m) == IF m = 1 THEN parent ELSE b + 2 * m - 3
<1>1. /\ Tree(o) /\ Len(entries) \in Nat /\ Len(entries) <= b
      /\ \A i \in 1 .. Len(entries) : o[i] = entries[i]
      /\ \A n \in 0 .. b : L!Rows(o, n) = RowsOf(entries, n)
  BY OpenedFacts
<1>0. /\ w \in Seq(Entry) /\ Len(w) = b + 2 * k /\ k \in Nat \ {0} /\ b \in Nat \ {0}
       /\ \A i \in 1 .. b : w[i] = L!Opened(entries)[i]
       /\ Chain(w, b, parent, msgs)
  <2>1. b = Len(L!Opened(entries)) /\ k = Len(msgs) OBVIOUS
  <2> HIDE DEF b, k
  <2> QED BY <2>1, WrittenEntries
<1>2. /\ w \in Seq(Entry) /\ Len(w) = b + 2 * k /\ k \in Nat \ {0} /\ b \in Nat \ {0}
      /\ \A i \in 1 .. b : w[i] = o[i]
      /\ \A m \in 1 .. k : /\ w[at(m)] = L!MessageEntry(above(m), msgs[m])
                           /\ w[b + 2 * m] = L!LeafEntry(at(m))
  BY <1>0 DEF Chain
<1>3. last = at(k) /\ last + 1 = Len(w)
  BY <1>2 DEF L!LastMessageId
<1> HIDE DEF o, b, k
<1>4. \A n \in 1 .. Len(w) : n \in 1 .. b \/ \E m \in 1 .. k : n = at(m) \/ n = b + 2 * m
  <2> TAKE n \in 1 .. Len(w)
  <2>1. CASE n <= b BY <1>2, <2>1
  <2>2. CASE n > b
    <3>1. (n - b + 1) \div 2 \in 1 .. k
          /\ (n = at((n - b + 1) \div 2) \/ n = b + 2 * ((n - b + 1) \div 2))
      BY <1>2, <2>2
    <3> QED BY <3>1
  <2> QED BY <1>2, <2>1, <2>2
<1>5. \A m \in 1 .. k : at(m) \in 1 .. Len(w) /\ above(m) \in 0 .. at(m) - 1
  BY <1>2 DEF b
<1>6. Tree(w)
  <2>1. ASSUME NEW n \in 1 .. Len(w)
        PROVE  w[n].parent \in 0 .. n - 1 /\ (w[n].type = "leaf" => w[n].target = w[n].parent)
    <3>1. CASE n \in 1 .. b
      BY <1>1, <1>2, <3>1 DEF Tree, b, o
    <3>2. ASSUME NEW m \in 1 .. k, n = at(m)
          PROVE  w[n].parent \in 0 .. n - 1 /\ (w[n].type = "leaf" => w[n].target = w[n].parent)
      <4>1. w[n] = L!MessageEntry(above(m), msgs[m]) BY <1>2, <3>2
      <4>2. above(m) \in 0 .. n - 1 BY <1>5, <3>2
      <4> HIDE DEF above, at
      <4> QED BY <4>1, <4>2 DEF L!MessageEntry
    <3>3. ASSUME NEW m \in 1 .. k, n = b + 2 * m
          PROVE  w[n].parent \in 0 .. n - 1 /\ (w[n].type = "leaf" => w[n].target = w[n].parent)
      <4>1. w[n] = L!LeafEntry(at(m)) BY <1>2, <3>3
      <4>2. at(m) \in 0 .. n - 1 BY <1>2, <3>3
      <4> HIDE DEF above, at
      <4> QED BY <4>1, <4>2 DEF L!LeafEntry
    <3> QED BY <1>4, <3>1, <3>2, <3>3
  <2> QED BY <1>2, <2>1 DEF Tree
<1>7. L!ActiveLeaf(w) = last
  <2>1. w[Len(w)] = L!LeafEntry(last)
    <3>1. k \in 1 .. k /\ Len(w) = b + 2 * k BY <1>2
    <3> QED BY <1>2, <1>3, <3>1
  <2>2. Len(w) > 0 BY <1>2
  <2> QED BY <1>6, <2>1, <2>2, LastLeaf DEF L!LeafEntry
<1>8. \A i \in 1 .. Len(entries) : w[i] = entries[i]
  <2> TAKE i \in 1 .. Len(entries)
  <2>1. i \in 1 .. b BY <1>1, <1>2
  <2> QED BY <1>1, <1>2, <2>1
<1>9. \A n \in 0 .. b : L!Rows(w, n) = RowsOf(entries, n)
  <2>1. Len(o) = b /\ Len(o) <= Len(w) /\ \A i \in 1 .. Len(o) : w[i] = o[i]
    BY <1>2 DEF b, o
  <2>2. \A n \in 0 .. Len(o) : L!Rows(w, n) = L!Rows(o, n)
    BY <1>1, <1>6, <2>1, SameRows
  <2> QED BY <1>1, <2>1, <2>2
<1> DEFINE old == L!MessagesOf(RowsOf(entries, parent))
           T == {m \in 0 .. k : m > 0 => L!MessagesOf(L!Rows(w, at(m))) = old \o SubSeq(msgs, 1, m)}
<1>10. RowsOf(entries, parent) \in Seq(Row(Len(w))) /\ old \in Seq(H!Messages)
  <2>1. parent \in 0 .. b /\ parent \in 0 .. Len(w) BY <1>2 DEF b
  <2>2. L!Rows(w, parent) \in Seq(Row(Len(w))) BY <1>6, <2>1, RowsFacts
  <2> QED BY <1>9, <2>1, <2>2, MessagesFacts
<1>11. ASSUME NEW m \in 1 .. k, NEW r \in Seq(Row(Len(w))), r = L!Rows(w, above(m))
       PROVE  L!MessagesOf(L!Rows(w, at(m))) = Append(L!MessagesOf(r), msgs[m])
  <2>1. w[at(m)] = L!MessageEntry(above(m), msgs[m]) /\ at(m) \in 1 .. Len(w) BY <1>2, <1>5
  <2>2. L!Rows(w, at(m)) = Grown(w[at(m)], at(m), L!Rows(w, w[at(m)].parent))
    BY <1>6, <2>1, RowsFacts
  <2> HIDE DEF at, above
  <2> DEFINE q == [id |-> at(m), message |-> msgs[m]]
  <2>3. L!Rows(w, at(m)) = Append(r, q)
    BY <1>11, <2>1, <2>2 DEF Grown, L!MessageEntry
  <2>4. msgs[m] \in H!Messages BY DEF k
  <2>5. q \in Row(Len(w)) BY <2>1, <2>4 DEF Row
  <2>6. q.message = msgs[m] OBVIOUS
  <2> HIDE DEF q
  <2>7. /\ Append(r, q) \in Seq(Row(Len(w))) /\ Len(Append(r, q)) = Len(r) + 1
        /\ Append(r, q)[Len(r) + 1] = q /\ \A i \in 1 .. Len(r) : Append(r, q)[i] = r[i]
    BY <2>5
  <2> DEFINE x == L!MessagesOf(Append(r, q))
             y == L!MessagesOf(r)
  <2>8. x \in Seq(H!Messages) /\ Len(x) = Len(r) + 1
        /\ \A i \in 1 .. Len(r) + 1 : x[i] = Append(r, q)[i].message
    <3> HIDE DEF q
    <3> QED BY <2>7, MessagesFacts
  <2>9. y \in Seq(H!Messages) /\ Len(y) = Len(r) /\ \A i \in 1 .. Len(r) : y[i] = r[i].message
    BY MessagesFacts
  <2> HIDE DEF x, y
  <2>10. x = Append(y, msgs[m])
    <3>1. \A i \in 1 .. Len(r) + 1 : x[i] = Append(y, msgs[m])[i]
      BY <2>4, <2>6, <2>7, <2>8, <2>9
    <3>2. Append(y, msgs[m]) \in Seq(H!Messages) /\ Len(Append(y, msgs[m])) = Len(r) + 1
      BY <2>4, <2>9
    <3> QED BY <2>8, <3>1, <3>2
  <2> QED BY <2>3, <2>10 DEF x, y
<1>12. ASSUME NEW m \in 0 .. k, \A j \in 0 .. k : j < m => j \in T PROVE m \in T
  <2>1. CASE m = 0 BY <1>2, <2>1
  <2>2. CASE m = 1
    <3>1. above(m) = parent /\ parent \in 0 .. b /\ m \in 1 .. k BY <1>2, <2>2 DEF b
    <3>2. L!Rows(w, above(m)) = RowsOf(entries, parent) BY <1>9, <3>1
    <3>3. L!MessagesOf(L!Rows(w, at(m))) = Append(old, msgs[m])
      BY <1>10, <1>11, <3>1, <3>2
    <3> HIDE DEF old
    <3>4. Append(old \o SubSeq(msgs, 1, m - 1), msgs[m]) = old \o SubSeq(msgs, 1, m)
      <4>1. m \in 1 .. Len(msgs) BY <3>1 DEF k
      <4> QED BY <1>10, <4>1, OneMore
    <3>5. old \o SubSeq(msgs, 1, m - 1) = old
      <4>1. SubSeq(msgs, 1, m - 1) = << >> BY <2>2
      <4> QED BY <1>10, <4>1, ConcatEmptySeq
    <3>6. Append(old, msgs[m]) = old \o SubSeq(msgs, 1, m) BY <3>4, <3>5
    <3> QED BY <2>2, <3>3, <3>6 DEF T, old
  <2>3. CASE m > 1
    <3>1. m - 1 \in 1 .. k /\ m \in 1 .. k /\ m - 1 \in 0 .. k /\ m - 1 < m BY <1>2, <2>3
    <3>2. above(m) = at(m - 1) BY <2>3
    <3>3. L!MessagesOf(L!Rows(w, at(m - 1))) = old \o SubSeq(msgs, 1, m - 1)
      BY <1>12, <3>1
    <3>4. L!Rows(w, above(m)) \in Seq(Row(Len(w)))
      <4>1. above(m) \in 0 .. Len(w) BY <1>5, <3>1
      <4> HIDE DEF above
      <4> QED BY <1>6, <4>1, RowsFacts
    <3>5. L!MessagesOf(L!Rows(w, at(m))) = Append(L!MessagesOf(L!Rows(w, at(m - 1))), msgs[m])
      BY <1>11, <3>1, <3>2, <3>4
    <3> HIDE DEF old
    <3>6. Append(old \o SubSeq(msgs, 1, m - 1), msgs[m]) = old \o SubSeq(msgs, 1, m)
      <4>1. m \in 1 .. Len(msgs) BY <3>1 DEF k
      <4> QED BY <1>10, <4>1, OneMore
    <3>7. L!MessagesOf(L!Rows(w, at(m))) = old \o SubSeq(msgs, 1, m)
      BY <3>3, <3>5, <3>6
    <3> QED BY <2>3, <3>7 DEF T
  <2> QED BY <2>1, <2>2, <2>3
<1> HIDE DEF T
<1>13. \A m \in 0 .. k : m \in T
  BY <1>2, <1>12, UpTo
<1>14. k \in T /\ k > 0 BY <1>2, <1>13
<1>15. L!MessagesOf(L!Rows(w, at(k))) = old \o SubSeq(msgs, 1, k)
  BY <1>14 DEF T
<1>16. SubSeq(msgs, 1, k) = msgs BY DEF k
<1>18. /\ Tree(w) /\ last \in 1 .. Len(w) /\ L!ActiveLeaf(w) = last
       /\ Len(entries) <= Len(w) /\ \A i \in 1 .. Len(entries) : w[i] = entries[i]
       /\ L!MessagesOf(L!Rows(w, last)) = L!MessagesOf(RowsOf(entries, parent)) \o msgs
  BY <1>1, <1>2, <1>3, <1>5, <1>6, <1>7, <1>8, <1>15, <1>16
<1>19. /\ Chain(w, Len(L!Opened(entries)), parent, msgs)
       /\ Len(w) = Len(L!Opened(entries)) + 2 * Len(msgs)
  BY <1>0 DEF b, k
<1> QED BY <1>18, <1>19, Zenon DEF Wrote

(* FlattenSeq, step by step.                                                 *)
Joined(S, seqs) ==
  \E f \in [0 .. Len(seqs) -> Seq(S)] :
    /\ f[0] = << >> /\ L!FlattenSeq(seqs) = f[Len(seqs)]
    /\ \A k \in 1 .. Len(seqs) : f[k] = f[k - 1] \o seqs[k]
LEMMA FlattenSteps ==
  ASSUME NEW S, NEW seqs \in Seq(Seq(S))
  PROVE  Joined(S, seqs)
<1> DEFINE n == Len(seqs)
           V == Seq(S)
           P(g) == g = [i \in 1 .. Len(seqs) |-> IF i = 1 THEN seqs[i] ELSE g[i - 1] \o seqs[i]]
           F == CHOOSE g : P(g)
           up == [k \in 1 .. n |-> k - 1]
           st == [x \in (1 .. n) \X V |-> x[2] \o seqs[x[1]]]
<1>0. n \in Nat OBVIOUS
<1>1. \A k \in 1 .. n : seqs[k] \in V
  OBVIOUS
<1>2. \A k \in 1 .. n : up[k] \in 0 .. k - 1
  BY <1>0
<1>3. \A k \in 1 .. n : \A v \in V : st[<<k, v>>] \in V
  <2> TAKE k \in 1 .. n
  <2> TAKE v \in V
  <2>1. st[<<k, v>>] = v \o seqs[k] OBVIOUS
  <2> QED BY <1>1, <2>1
<1>4. << >> \in V OBVIOUS
<1>5. \A k \in 1 .. n : \A v \in V : st[<<k, v>>] = v \o seqs[k]
  OBVIOUS
<1>6. \A k \in 1 .. n : up[k] = k - 1 OBVIOUS
<1>e. \A s \in V : << >> \o s = s BY ConcatEmptySeq
<1>c. \A s, t \in V : s \o t \in V OBVIOUS
<1> HIDE DEF st, up, V, n
<1>a. Defined(n, V, << >>, up, st)
  BY <1>0, <1>2, <1>3, <1>4, Recursion, Zenon
<1>7. PICK f \in [0 .. n -> V] : f[0] = << >> /\ \A k \in 1 .. n : f[k] = st[<<k, f[up[k]]>>]
  BY <1>a DEF Defined
<1>8. \A k \in 1 .. n : f[k] = (IF k = 1 THEN seqs[k] ELSE f[k - 1] \o seqs[k]) /\ f[k] \in V
  <2> TAKE k \in 1 .. n
  <2>1. k \in 0 .. n /\ k - 1 \in 0 .. n BY <1>0
  <2>2. f[k] = f[k - 1] \o seqs[k] /\ f[k - 1] \in V BY <1>5, <1>6, <1>7, <2>1
  <2>3. CASE k = 1
    <3>0. k - 1 = 0 BY <2>3
    <3>1. f[k] = << >> \o seqs[k] BY <1>7, <2>2, <3>0, Zenon
    <3> QED BY <1>1, <1>e, <2>3, <3>1
  <2>4. CASE k # 1 BY <1>1, <1>c, <2>2, <2>4
  <2> QED BY <2>3, <2>4
<1> DEFINE h == [k \in 1 .. n |-> f[k]]
<1>9. h = [i \in 1 .. n |-> IF i = 1 THEN seqs[i] ELSE h[i - 1] \o seqs[i]]
  <2>1. ASSUME NEW i \in 1 .. n PROVE h[i] = IF i = 1 THEN seqs[i] ELSE h[i - 1] \o seqs[i]
    <3>1. i # 1 => i - 1 \in 1 .. n BY <1>0
    <3> QED BY <1>8, <3>1
  <2> QED BY <2>1
<1>10. P(h) BY <1>9 DEF n
<1> HIDE DEF h, P
<1>11. P(F) BY <1>10, Zenon
<1> HIDE DEF F
<1>12. \A i \in 1 .. n : F[i] = IF i = 1 THEN seqs[i] ELSE F[i - 1] \o seqs[i]
  <2> TAKE i \in 1 .. n
  <2>1. F = [j \in 1 .. n |-> IF j = 1 THEN seqs[j] ELSE F[j - 1] \o seqs[j]]
    BY <1>11 DEF P, n
  <2> QED BY <2>1
<1> DEFINE g == [k \in 0 .. n |-> IF k = 0 THEN << >> ELSE F[k]]
<1>13. g[0] = << >> /\ \A k \in 0 .. n : k # 0 => g[k] = F[k]
  BY <1>0
<1>14. \A k \in 1 .. n : g[k] = g[k - 1] \o seqs[k]
  <2> TAKE k \in 1 .. n
  <2>1. k \in 0 .. n /\ k # 0 /\ k - 1 \in 0 .. n BY <1>0
  <2>2. g[k] = F[k] BY <1>13, <2>1
  <2>3. CASE k = 1
    <3>1. F[k] = seqs[k] /\ << >> \o seqs[k] = seqs[k] BY <1>1, <1>12, <1>e, <2>3
    <3>2. g[k - 1] = << >>
      <4>1. k - 1 = 0 BY <2>3
      <4> HIDE DEF g
      <4> QED BY <1>13, <4>1
    <3> HIDE DEF g
    <3> QED BY <2>2, <3>1, <3>2
  <2>4. CASE k # 1
    <3>1. k - 1 # 0 BY <2>1, <2>4
    <3>2. g[k - 1] = F[k - 1] BY <1>13, <2>1, <3>1
    <3>3. F[k] = F[k - 1] \o seqs[k] BY <1>12, <2>4, Zenon
    <3> HIDE DEF g
    <3> QED BY <2>2, <3>2, <3>3
  <2> QED BY <2>3, <2>4
<1>15. DOMAIN g = 0 .. n OBVIOUS
<1>b. g = [k \in 0 .. n |-> g[k]] OBVIOUS
<1> HIDE DEF g
<1> DEFINE T == {k \in 0 .. n : g[k] \in V}
<1>16. ASSUME NEW k \in 0 .. n, \A j \in 0 .. n : j < k => j \in T PROVE k \in T
  <2>1. CASE k = 0 BY <1>4, <1>13, <2>1
  <2>2. CASE k # 0
    <3>1. k - 1 \in 0 .. n /\ k - 1 < k /\ k \in 1 .. n BY <1>0, <2>2
    <3>2. g[k - 1] \in V BY <1>16, <3>1
    <3> QED BY <1>1, <1>14, <1>c, <3>1, <3>2
  <2> QED BY <2>1, <2>2
<1> HIDE DEF T
<1>17. \A k \in 0 .. n : k \in T BY <1>0, <1>16, UpTo
<1>18. \A k \in 0 .. n : g[k] \in V BY <1>17 DEF T
<1>19. g \in [0 .. n -> V] BY <1>b, <1>18
<1>20. L!FlattenSeq(seqs) = g[n]
  <2>1. CASE n = 0
    <3>1. seqs = << >> BY <2>1 DEF n
    <3> QED BY <1>13, <2>1, <3>1 DEF L!FlattenSeq, n
  <2>2. CASE n # 0
    <3>1. L!FlattenSeq(seqs) = F[n] BY <2>2, Zenon DEF L!FlattenSeq, F, P, n
    <3>2. n \in 0 .. n BY <1>0
    <3> QED BY <1>13, <2>2, <3>1, <3>2
  <2> QED BY <2>1, <2>2
<1> QED BY <1>13, <1>14, <1>19, <1>20 DEF Joined, n, V

(* The elements of sequences one after the other ...                         *)
LEMMA FlattenElements ==
  ASSUME NEW S, NEW seqs \in Seq(Seq(S))
  PROVE  /\ L!FlattenSeq(seqs) \in Seq(S)
         /\ \A x : x \in L!ToSet(L!FlattenSeq(seqs)) <=>
                     \E k \in 1 .. Len(seqs) : x \in L!ToSet(seqs[k])
<1>0. Joined(S, seqs) BY FlattenSteps
<1>1. PICK f \in [0 .. Len(seqs) -> Seq(S)] :
        /\ f[0] = << >> /\ L!FlattenSeq(seqs) = f[Len(seqs)]
        /\ \A k \in 1 .. Len(seqs) : f[k] = f[k - 1] \o seqs[k]
  BY <1>0 DEF Joined
<1>2. Len(seqs) \in Nat OBVIOUS
<1> DEFINE K == {k \in 0 .. Len(seqs) : \A x : x \in L!ToSet(f[k]) <=>
                                          \E j \in 1 .. k : x \in L!ToSet(seqs[j])}
<1>3. ASSUME NEW k \in 0 .. Len(seqs), \A j \in 0 .. Len(seqs) : j < k => j \in K PROVE k \in K
  <2>1. CASE k = 0
    <3>1. L!ToSet(f[k]) = {} BY <1>1, <2>1 DEF L!ToSet
    <3> QED BY <2>1, <3>1
  <2>2. CASE k # 0
    <3>1. k \in 1 .. Len(seqs) /\ k - 1 \in 0 .. Len(seqs) /\ k - 1 < k /\ k \in Nat
      BY <1>2, <2>2
    <3>2. \A x : x \in L!ToSet(f[k - 1]) <=> \E j \in 1 .. k - 1 : x \in L!ToSet(seqs[j])
      BY <1>3, <3>1
    <3>3. PICK a \in Seq(S) : a = f[k - 1] BY <1>1, <3>1
    <3>4. PICK b \in Seq(S) : b = seqs[k] BY <3>1
    <3>5. L!ToSet(a \o b) = L!ToSet(a) \union L!ToSet(b) BY ConcatPairs
    <3>6. L!ToSet(f[k]) = L!ToSet(f[k - 1]) \union L!ToSet(seqs[k])
      BY <1>1, <3>1, <3>3, <3>4, <3>5
    <3>7. 1 .. k = (1 .. k - 1) \union {k} BY <3>1
    <3> QED BY <3>2, <3>6, <3>7
  <2> QED BY <2>1, <2>2
<1> HIDE DEF K
<1>4. \A k \in 0 .. Len(seqs) : k \in K BY <1>2, <1>3, UpTo
<1>5. \A x : x \in L!ToSet(f[Len(seqs)]) <=> \E j \in 1 .. Len(seqs) : x \in L!ToSet(seqs[j])
  BY <1>2, <1>4 DEF K
<1>6. f[Len(seqs)] \in Seq(S) BY <1>1, <1>2
<1> QED BY <1>1, <1>5, <1>6

(* What a load writes for calls that were interrupted.                       *)
LEMMA SuffixTyped ==
  ASSUME NEW N, NEW rows \in Seq(Row(N)), L!RepairNeeded(rows)
  PROVE  /\ L!RepairPoint(rows) \in 1 .. Len(rows)
         /\ L!RepairSuffix(rows) \in Seq(H!Messages)
<1> DEFINE p == L!RepairPoint(rows)
           at(i) == L!InterruptedAt(rows, i)
           repaired(i) == (IF i = p THEN << >> ELSE <<rows[i].message>>) \o L!Synthetic(at(i))
           pieces == [k \in 1 .. Len(rows) - p + 1 |-> repaired(p + k - 1)]
<1>1. p \in 1 .. Len(rows)
  <2> DEFINE U == {i \in DOMAIN rows : L!InterruptedAt(rows, i) # << >>}
  <2>1. U # {} BY DEF L!RepairNeeded
  <2>2. U \subseteq 1 .. Len(rows) /\ U \subseteq Nat OBVIOUS
  <2>3. p = L!Min(U) BY DEF L!RepairPoint
  <2> HIDE DEF U, p
  <2> QED BY <2>1, <2>2, <2>3, LeastOf
<1>2. ASSUME NEW i \in 1 .. Len(rows) PROVE rows[i].message \in H!Messages
  <2>1. rows[i] \in Row(N) OBVIOUS
  <2> QED BY <2>1 DEF Row
<1>3. ASSUME NEW i \in 1 .. Len(rows) PROVE at(i) \in Seq(H!CallIds)
  <2>1. CASE rows[i].message.role # "assistant"
    BY <2>1 DEF L!InterruptedAt
  <2>2. CASE rows[i].message.role = "assistant"
    <3> DEFINE calls == rows[i].message.calls
               those == {c \in L!ToSet(calls) :
                           ~L!HasResult(rows, c) /\ \A j \in 1 .. i - 1 : ~L!IsCall(rows, j, c)}
    <3>1. calls \in Seq(H!CallIds)
      BY <1>2, <2>2 DEF H!Messages, H!UserMessages, H!AssistantMessages, H!ToolResults
    <3>2. at(i) = L!Among(calls, those)
      BY <2>2 DEF L!InterruptedAt
    <3> HIDE DEF calls, those
    <3>3. at(i) \in Seq(H!CallIds \intersect those) BY <3>1, <3>2, AmongElements
    <3> QED BY <3>3
  <2> QED BY <2>1, <2>2
<1>4. ASSUME NEW i \in 1 .. Len(rows) PROVE repaired(i) \in Seq(H!Messages)
  <2> DEFINE calls == at(i)
  <2>1. calls \in Seq(H!CallIds) BY <1>3
  <2> HIDE DEF calls
  <2>2. L!Synthetic(calls) \in Seq(H!Messages)
    <3>1. \A j \in 1 .. Len(calls) :
            [role |-> "toolResult", call |-> calls[j], how |-> "interrupted"] \in H!Messages
      BY <2>1 DEF H!Messages, H!ToolResults, H!Outcomes
    <3>2. L!Synthetic(calls) = [j \in 1 .. Len(calls) |->
             [role |-> "toolResult", call |-> calls[j], how |-> "interrupted"]]
      BY <2>1 DEF L!Synthetic
    <3>3. Len(calls) \in Nat BY <2>1
    <3> QED BY <3>1, <3>2, <3>3
  <2>3. (IF i = p THEN << >> ELSE <<rows[i].message>>) \in Seq(H!Messages)
    BY <1>2
  <2> QED BY <2>2, <2>3 DEF calls
<1>5. pieces \in Seq(Seq(H!Messages))
  <2> HIDE DEF p, repaired
  <2>1. Len(rows) \in Nat OBVIOUS
  <2>2. \A k \in 1 .. Len(rows) - p + 1 : p + k - 1 \in 1 .. Len(rows) /\ Len(rows) - p + 1 \in Nat
    BY <1>1, <2>1
  <2>3. \A k \in 1 .. Len(rows) - p + 1 : repaired(p + k - 1) \in Seq(H!Messages)
    BY <1>4, <2>2
  <2>4. Len(rows) - p + 1 \in Nat BY <1>1, <2>1
  <2> QED BY <2>3, <2>4
<1>6. L!RepairSuffix(rows) = L!FlattenSeq(pieces)
  BY DEF L!RepairSuffix
<1> HIDE DEF pieces
<1>7. L!FlattenSeq(pieces) \in Seq(H!Messages) BY <1>5, FlattenElements
<1> HIDE DEF p
<1> QED BY <1>1, <1>6, <1>7 DEF p

(* A load keeps the log and adds to it.                                      *)
LEMMA RepairKeepsLog ==
  ASSUME NEW entries, Tree(entries), NEW leaf \in 0 .. Len(entries)
  PROVE  /\ Tree(L!Repair(entries, leaf)) /\ Len(entries) <= Len(L!Repair(entries, leaf))
         /\ \A i \in 1 .. Len(entries) : L!Repair(entries, leaf)[i] = entries[i]
<1> DEFINE rows == L!Rows(entries, leaf)
           suffix == L!RepairSuffix(rows)
           n == Len(entries)
           k == Len(suffix)
           new == L!Repair(entries, leaf)
           entry(j) == L!MessageEntry(IF j = 1 THEN rows[L!RepairPoint(rows)].id ELSE n + j - 1,
                                      suffix[j])
           a == [j \in 1 .. k |-> entry(j)]
           z == L!LeafEntry(n + k)
<1>1. n \in Nat /\ entries \in Seq(Entry) BY DEF Tree
<1>2. rows \in Seq(Row(n)) BY RowsFacts
<1>3. CASE ~L!RepairNeeded(rows)
  <2>1. new = entries BY <1>3 DEF L!Repair
  <2> QED BY <1>1, <2>1
<1>4. CASE L!RepairNeeded(rows)
  <2> HIDE DEF rows, n
  <2>1. L!RepairPoint(rows) \in 1 .. Len(rows) /\ suffix \in Seq(H!Messages)
    BY <1>2, <1>4, SuffixTyped
  <2>2. rows[L!RepairPoint(rows)].id \in 0 .. n
    <3>1. rows[L!RepairPoint(rows)] \in Row(n) BY <1>2, <2>1
    <3> QED BY <3>1 DEF Row
  <2>3. new = (entries \o a) \o <<z>>
    <3>1. DOMAIN suffix = 1 .. k BY <2>1
    <3> QED BY <1>4, <3>1 DEF L!Repair, rows, n
  <2> HIDE DEF new, suffix
  <2>4. k \in Nat /\ \A j \in 1 .. k : suffix[j] \in H!Messages BY <2>1
  <2> HIDE DEF k
  <2>5. ASSUME NEW j \in 1 .. k
        PROVE  entry(j) \in Entry /\ entry(j).parent \in 0 .. n + j - 1 /\ entry(j).type # "leaf"
    <3> DEFINE q == IF j = 1 THEN rows[L!RepairPoint(rows)].id ELSE n + j - 1
    <3>1. q \in 0 .. n + j - 1 /\ q \in Nat BY <1>1, <2>2, <2>4
    <3> HIDE DEF q
    <3>2. L!MessageEntry(q, suffix[j]) \in Entry /\ L!MessageEntry(q, suffix[j]).parent = q
          /\ L!MessageEntry(q, suffix[j]).type # "leaf"
      BY <2>4, <3>1 DEF L!MessageEntry, Entry
    <3> QED BY <3>1, <3>2 DEF q
  <2>6. z \in Entry /\ z.parent = n + k /\ z.target = n + k
    BY <1>1, <2>4 DEF L!LeafEntry, Entry
  <2> HIDE DEF entry, z
  <2>7. a \in Seq(Entry) /\ Len(a) = k /\ \A j \in 1 .. k : a[j] = entry(j)
    BY <2>4, <2>5
  <2> HIDE DEF a
  <2> DEFINE b == entries \o a
  <2>8. b \in Seq(Entry) /\ Len(b) = n + k
        /\ \A i \in 1 .. n + k : b[i] = IF i <= n THEN entries[i] ELSE a[i - n]
    BY <1>1, <2>7, ConcatProperties DEF n
  <2> HIDE DEF b
  <2>9. new = Append(b, z)
    <3>1. new = b \o <<z>> BY <2>3 DEF b
    <3> QED BY <2>6, <2>8, <3>1
  <2>10. new \in Seq(Entry) /\ Len(new) = n + k + 1 /\ new[n + k + 1] = z
         /\ \A i \in 1 .. n + k : new[i] = b[i]
    BY <1>1, <2>4, <2>6, <2>8, <2>9
  <2>11. \A i \in 1 .. n : new[i] = entries[i]
    <3> TAKE i \in 1 .. n
    <3>1. i \in 1 .. n + k /\ i <= n BY <1>1, <2>4
    <3> QED BY <2>8, <2>10, <3>1
  <2>12. ASSUME NEW i \in 1 .. n + k + 1
         PROVE  new[i].parent \in 0 .. i - 1 /\ (new[i].type = "leaf" => new[i].target = new[i].parent)
    <3>1. CASE i \in 1 .. n BY <2>11, <3>1 DEF Tree, n
    <3>2. CASE i \in n + 1 .. n + k
      <4>1. i - n \in 1 .. k /\ i \in 1 .. n + k /\ ~(i <= n) BY <1>1, <2>4, <3>2
      <4>2. new[i] = entry(i - n) BY <2>7, <2>8, <2>10, <4>1
      <4>3. n + (i - n) - 1 = i - 1 BY <1>1, <4>1
      <4> QED BY <2>5, <4>1, <4>2, <4>3
    <3>3. CASE i = n + k + 1 BY <1>1, <2>4, <2>6, <2>10, <3>3
    <3> QED BY <1>1, <2>4, <3>1, <3>2, <3>3
  <2>13. Tree(new) BY <1>1, <2>4, <2>10, <2>12 DEF Tree
  <2>14. n <= Len(new) BY <1>1, <2>4, <2>10
  <2> QED BY <2>11, <2>13, <2>14 DEF n, new
<1> QED BY <1>3, <1>4

(* A transcript with nothing taken from it.                                  *)
Extends(a, b) ==
  b \in Seq(H!Messages) /\ Len(a) <= Len(b) /\ \A i \in 1 .. Len(a) : b[i] = a[i]

(* What one message, or one result after another, adds to a transcript.      *)
LEMMA AppendExtends ==
  ASSUME NEW m \in Seq(H!Messages), NEW x \in H!Messages
  PROVE  Extends(m, Append(m, x)) /\ Extends(m, m)
BY DEF Extends

(* What the repair of a transcript adds to it.                               *)
LEMMA RepairAdds ==
  ASSUME NEW m \in Seq(H!Messages), NEW r \in H!Repaired(m)
  PROVE  /\ H!Unanswered(m) \subseteq H!CallIds
         /\ \E N \in Nat : \E s \in [1 .. N -> H!Unanswered(m)] : r = m \o H!Interrupted(s)
<1> DEFINE U == H!Unanswered(m)
           J == {j \in 1 .. Len(m) : m[j].role = "assistant"}
           N == H!Cardinality(U)
<1>0. Len(m) \in Nat /\ DOMAIN m = 1 .. Len(m) /\ \A j \in 1 .. Len(m) : m[j] \in H!Messages
  OBVIOUS
<1>1. \A j \in J : m[j].calls \in Seq(H!CallIds)
  BY <1>0 DEF H!Messages, H!UserMessages, H!AssistantMessages, H!ToolResults
<1>2. \A j \in J : IsFiniteSet(H!Elements(m[j].calls))
  <2> TAKE j \in J
  <2> DEFINE s == m[j].calls
  <2>1. s \in Seq(H!CallIds) BY <1>1
  <2> HIDE DEF s
  <2>2. s \in Surjection(1 .. Len(s), H!Elements(s))
    BY <2>1 DEF Surjection, H!Elements
  <2>3. IsFiniteSet(1 .. Len(s))
    <3>1. Len(s) \in Int /\ 1 \in Int BY <2>1
    <3> QED BY <3>1, FS_Interval
  <2>4. IsFiniteSet(H!Elements(s)) BY <2>2, <2>3, FS_Surjection
  <2> QED BY <2>4 DEF s
<1> DEFINE f == [j \in J |-> H!Elements(m[j].calls)]
           W == {H!Elements(m[j].calls) : j \in J}
<1>3. IsFiniteSet(J)
  <2>1. IsFiniteSet(1 .. Len(m))
    <3>1. Len(m) \in Int /\ 1 \in Int OBVIOUS
    <3> QED BY <3>1, FS_Interval
  <2>2. J \subseteq 1 .. Len(m) OBVIOUS
  <2> HIDE DEF J
  <2> QED BY <2>1, <2>2, FS_Subset
<1>4. IsFiniteSet(W)
  <2>1. f \in Surjection(J, W) BY DEF Surjection
  <2> HIDE DEF f, W, J
  <2> QED BY <1>3, <2>1, FS_Surjection
<1>5. H!Called(m) = UNION W /\ H!Called(m) \subseteq H!CallIds
  <2>1. H!Called(m) = UNION W BY <1>0 DEF H!Called
  <2>2. \A j \in J : H!Elements(m[j].calls) \subseteq H!CallIds
    <3> TAKE j \in J
    <3> DEFINE s == m[j].calls
    <3>1. s \in Seq(H!CallIds) BY <1>1
    <3> HIDE DEF s
    <3>2. H!Elements(s) \subseteq H!CallIds BY <3>1 DEF H!Elements
    <3> QED BY <3>2 DEF s
  <2> QED BY <2>1, <2>2
<1>6. IsFiniteSet(H!Called(m))
  <2>1. \A T \in W : IsFiniteSet(T) BY <1>2
  <2> HIDE DEF W
  <2> QED BY <1>4, <1>5, <2>1, FS_UNION
<1>7. IsFiniteSet(U) /\ U \subseteq H!CallIds
  <2>1. U \subseteq H!Called(m) BY DEF H!Unanswered
  <2> QED BY <1>5, <1>6, <2>1, FS_Subset
<1> HIDE DEF U, J, W, f
<1>8. N \in Nat
  <2>1. Cardinality(U) \in Nat BY <1>7, FS_CardinalityType
  <2>2. N = Cardinality(U) BY DEF H!Cardinality, Cardinality
  <2> QED BY <2>1, <2>2
<1>9. PICK s \in [1 .. N -> U] : r = m \o H!Interrupted(s)
  BY DEF H!Repaired, H!InterruptedCalls, U
<1>10. U \subseteq H!CallIds BY <1>7
<1> HIDE DEF N
<1> QED BY <1>8, <1>9, <1>10 DEF U

(* The repair of a transcript ends, and adds messages to it.                 *)
LEMMA RepairedExtends ==
  ASSUME NEW m \in Seq(H!Messages), NEW r \in H!Repaired(m)
  PROVE  Extends(m, r)
<1>1. \E N \in Nat : \E s \in [1 .. N -> H!Unanswered(m)] : r = m \o H!Interrupted(s)
  BY RepairAdds
<1>2. PICK N \in Nat : \E s \in [1 .. N -> H!Unanswered(m)] : r = m \o H!Interrupted(s)
  BY <1>1
<1>3. PICK s \in [1 .. N -> H!Unanswered(m)] : r = m \o H!Interrupted(s)
  BY <1>2
<1>4. PICK t \in Seq(H!Messages) : t = H!Interrupted(s)
  <2>1. \A i \in 1 .. N : H!ToolResult(s[i], "interrupted") \in H!Messages
    <3> TAKE i \in 1 .. N
    <3>1. s[i] \in H!CallIds BY <1>3, RepairAdds
    <3> QED BY <3>1 DEF H!ToolResult, H!Messages, H!ToolResults, H!Outcomes
  <2>2. H!Interrupted(s) = [i \in 1 .. N |-> H!ToolResult(s[i], "interrupted")]
    BY <1>3 DEF H!Interrupted
  <2> QED BY <2>1, <2>2
<1>5. /\ m \o t \in Seq(H!Messages) /\ Len(m \o t) = Len(m) + Len(t)
      /\ \A i \in 1 .. Len(m) + Len(t) : (m \o t)[i] = IF i <= Len(m) THEN m[i] ELSE t[i - Len(m)]
  BY ConcatProperties
<1>6. r = m \o t /\ Len(m) \in Nat /\ Len(t) \in Nat BY <1>3, <1>4
<1>7. \A i \in 1 .. Len(m) : i \in 1 .. Len(m) + Len(t) /\ i <= Len(m)
  BY <1>6
<1> QED BY <1>5, <1>6, <1>7 DEF Extends


-----------------------------------------------------------------------------
(* What the harness's steps keep: its types, and what is in the transcript.  *)

(* What a user, an extension or the session puts in is a message.            *)
LEMMA UserTyped ==
  ASSUME NEW id \in Nat, NEW via \in H!Via
  PROVE  H!User(id, via) \in H!UserMessages /\ H!User(id, via) \in H!Messages
BY DEF H!User, H!UserMessages, H!Messages

(* What a queue gives and what it keeps.                                     *)
LEMMA QueueTyped ==
  ASSUME NEW q \in Seq(H!UserMessages)
  PROVE  H!Drained(q) \in Seq(H!UserMessages) /\ H!Undrained(q) \in Seq(H!UserMessages)
<1>1. CASE q = << >>
  BY <1>1 DEF H!Drained, H!Undrained
<1>2. CASE q # << >>
  <2>1. Head(q) \in H!UserMessages /\ Tail(q) \in Seq(H!UserMessages)
    BY <1>2, HeadTailProperties
  <2>2. <<Head(q)>> \in Seq(H!UserMessages) /\ << >> \in Seq(H!UserMessages)
    BY <2>1
  <2> QED BY <2>1, <2>2 DEF H!Drained, H!Undrained
<1> QED BY <1>1, <1>2

(* The reply of a run that made none.                                        *)
LEMMA ErrorTyped == H!ErrorMessage \in H!AssistantMessages /\ H!ErrorMessage \in H!Messages
<1>1. << >> \in Seq(H!CallIds) OBVIOUS
<1> QED BY <1>1 DEF H!ErrorMessage, H!Assistant, H!AssistantMessages, H!Messages

(* A prompt on a transcript: repaired, it is longer by one message.          *)
LEMMA PromptTyped ==
  ASSUME H!TypeOK, NEW t \in Seq(H!Messages), H!PromptOn(t)
  PROVE  H!TypeOK' /\ Extends(t, messages')
<1>1. PICK r \in H!Repaired(t) : messages' = Append(r, H!User(submitted + 1, "prompt"))
  BY DEF H!PromptOn
<1>2. Extends(t, r)
  BY RepairedExtends
<1>3. H!User(submitted + 1, "prompt") \in H!Messages
  <2>1. submitted + 1 \in Nat /\ "prompt" \in H!Via BY DEF H!TypeOK, H!Via
  <2> QED BY <2>1, UserTyped
<1>4. Extends(t, messages')
  <2> DEFINE u == H!User(submitted + 1, "prompt")
  <2>1. u \in H!Messages /\ messages' = Append(r, u) BY <1>1, <1>3
  <2> HIDE DEF u
  <2> QED BY <1>2, <2>1 DEF Extends
<1>5. H!TypeOK'
  BY <1>4 DEF Extends, H!PromptOn, H!HandIn, H!TypeOK, H!PCs, H!Running, H!queueVars
<1> QED BY <1>4, <1>5

(* continue_, and what the `finally` of a run does.                          *)
LEMMA ResumeTyped ==
  ASSUME H!TypeOK, H!Resume
  PROVE  H!TypeOK' /\ Extends(messages, messages')
<1>1. messages \in Seq(H!Messages) BY DEF H!TypeOK
<1>2. Extends(messages, messages') BY <1>1, RepairedExtends DEF H!Resume
<1>3. H!TypeOK'
  BY <1>2 DEF Extends, H!Resume, H!TypeOK, H!PCs, H!Running, H!queueVars
<1> QED BY <1>2, <1>3

(* However a run ends, the harness's cleanup only adds to the transcript.    *)
LEMMA FinallyTyped ==
  ASSUME H!TypeOK, H!Finally
  PROVE  H!TypeOK' /\ Extends(messages, messages')
<1>1. messages \in Seq(H!Messages) BY DEF H!TypeOK
<1>2. Extends(messages, messages')
  <2>1. CASE signal BY <1>1, <2>1, RepairedExtends DEF H!Finally
  <2>2. CASE ~signal BY <1>1, <2>2 DEF H!Finally, Extends
  <2> QED BY <2>1, <2>2
<1>3. << >> \in Seq(H!UserMessages) /\ << >> \in Seq(H!CallIds) OBVIOUS
<1>4. H!TypeOK'
  BY <1>2, <1>3, ErrorTyped
     DEF Extends, H!Finally, H!TypeOK, H!PCs, H!Outcomes, H!queueVars
<1> QED BY <1>2, <1>4

(* The turn from its injections to the request.                              *)
LEMMA TurnBodyTyped ==
  ASSUME NEW queue \in Seq(H!UserMessages), H!TurnBody(queue), messages \in Seq(H!Messages)
  PROVE  /\ Extends(messages, messages') /\ pending' \in Seq(H!UserMessages)
         /\ pc' \in {"inject", "stopping", "stream"}
         /\ pc' # "inject" => pending' = << >>
<1>1. CASE queue # << >> /\ messages' = Append(messages, Head(queue))
           /\ pending' = Tail(queue) /\ pc' = "inject"
  <2>1. Head(queue) \in H!UserMessages /\ Tail(queue) \in Seq(H!UserMessages)
    BY <1>1, HeadTailProperties
  <2>2. Head(queue) \in H!Messages BY <2>1 DEF H!Messages
  <2> QED BY <1>1, <2>1, <2>2, AppendExtends
<1>2. CASE messages' = Append(messages, H!ErrorMessage)
           /\ pending' = << >> /\ pc' = "stopping"
  BY <1>2, ErrorTyped, AppendExtends
<1>3. CASE messages' = messages /\ pending' = << >> /\ pc' = "stream"
  BY <1>3, ErrorTyped, AppendExtends
<1> QED BY <1>1, <1>2, <1>3 DEF H!TurnBody

(* The steps of a run.                                                       *)
LEMMA RunTyped ==
  ASSUME H!TypeOK,
         \/ H!LeaveStart \/ H!LeaveTurnStart \/ H!ProviderEnds \/ H!LeaveAssistantEnd
         \/ H!ToolRefused \/ H!ToolRuns \/ H!ToolReturns \/ H!LeaveToolEnd \/ H!LeaveTurnEnd
  PROVE  H!TypeOK' /\ Extends(messages, messages')
<1> USE DEF H!queueVars, H!runVars
<1>a. /\ issued \in Nat /\ submitted \in Nat /\ turn \in Nat /\ messages \in Seq(H!Messages)
      /\ steering \in Seq(H!UserMessages) /\ followUp \in Seq(H!UserMessages)
      /\ pending \in Seq(H!UserMessages) /\ Extends(messages, messages)
  BY DEF H!TypeOK, Extends
<1>1. CASE H!LeaveStart \/ H!LeaveTurnStart
  <2>1. /\ Extends(messages, messages')
        /\ pending' \in Seq(H!UserMessages) /\ steering' \in Seq(H!UserMessages)
        /\ pc' \in {"inject", "stopping", "stream"}
        /\ pc' # "inject" => pending' = << >>
    <3>1. CASE H!LeaveStart /\ MaxTurns < 1
      <4>1. messages' = Append(messages, H!ErrorMessage) /\ pc' = "stopping"
            /\ pending' = pending /\ steering' = steering
        BY <3>1, SessionAssumption DEF H!LeaveStart
      <4>2. pending = << >> BY <3>1 DEF H!LeaveStart, H!TypeOK
      <4> QED BY <1>a, <4>1, <4>2, ErrorTyped, AppendExtends
    <3>2. CASE H!LeaveStart /\ MaxTurns >= 1
      <4>1. H!TurnBody(H!Drained(steering)) /\ steering' = H!Undrained(steering)
        BY <3>2, SessionAssumption DEF H!LeaveStart
      <4>2. H!Drained(steering) \in Seq(H!UserMessages)
            /\ H!Undrained(steering) \in Seq(H!UserMessages)
        BY <1>a, QueueTyped
      <4> QED BY <1>a, <4>1, <4>2, TurnBodyTyped
    <3>3. CASE H!LeaveTurnStart
      <4>1. H!TurnBody(pending) /\ steering' = steering BY <3>3 DEF H!LeaveTurnStart
      <4> QED BY <1>a, <4>1, TurnBodyTyped
    <3> QED BY <1>1, <3>1, <3>2, <3>3, SessionAssumption
  <2>2. H!TypeOK'
    BY <1>1, <2>1, <1>a DEF H!LeaveStart, H!LeaveTurnStart, H!TypeOK, H!PCs, Extends
  <2> QED BY <2>1, <2>2
<1>2. CASE H!ProviderEnds
  <2>1. PICK n \in 0 .. MaxBatch, failed \in BOOLEAN :
          reply' = H!Assistant(H!NewCalls(n), failed) /\ issued' = issued + n
    BY <1>2 DEF H!ProviderEnds
  <2>2. n \in Nat /\ issued' \in Nat BY <1>a, <2>1, SessionAssumption
  <2>3. H!NewCalls(n) \in Seq(H!CallIds)
    <3>1. \A i \in 1 .. n : (IF FreshCallIds THEN issued + i ELSE i) \in H!CallIds
      BY <1>a, <2>2 DEF H!CallIds
    <3> QED BY <2>2, <3>1 DEF H!NewCalls
  <2>4. reply' \in H!AssistantMessages
    BY <2>1, <2>3 DEF H!Assistant, H!AssistantMessages
  <2>5. H!TypeOK'
    BY <1>2, <2>2, <2>4, <1>a DEF H!ProviderEnds, H!TypeOK, H!PCs
  <2> QED BY <1>a, <1>2, <2>5 DEF H!ProviderEnds
<1>3. CASE H!LeaveAssistantEnd
  <2>1. reply \in H!AssistantMessages /\ reply \in H!Messages
        /\ messages' = Append(messages, reply)
    BY <1>a, <1>3 DEF H!LeaveAssistantEnd, H!TypeOK, H!Messages
  <2>2. Extends(messages, messages') BY <1>a, <2>1, AppendExtends
  <2>3. reply.calls \in Seq(H!CallIds) BY <2>1 DEF H!AssistantMessages
  <2>4. /\ todo' \in Seq(H!CallIds) /\ pc' \in {"stopping", "turnEnd", "toolStart"}
        /\ pc' = "toolStart" => todo' # << >>
    BY <1>a, <1>3, <2>3 DEF H!LeaveAssistantEnd, H!TypeOK
  <2>5. H!TypeOK'
    BY <1>3, <2>2, <2>4, <1>a DEF H!LeaveAssistantEnd, H!TypeOK, H!PCs, Extends
  <2> QED BY <2>2, <2>5
<1>4. CASE H!ToolRefused \/ H!ToolRuns \/ H!ToolReturns
  <2>1. H!TypeOK'
    BY <1>4, <1>a DEF H!ToolRefused, H!ToolRuns, H!ToolReturns, H!TypeOK, H!PCs, H!Outcomes
  <2>2. messages' = messages BY <1>4 DEF H!ToolRefused, H!ToolRuns, H!ToolReturns
  <2> QED BY <1>a, <2>1, <2>2
<1>5. CASE H!LeaveToolEnd
  <2>1. todo # << >> /\ todo \in Seq(H!CallIds) /\ outcome \in H!Outcomes
    BY <1>a, <1>5 DEF H!LeaveToolEnd, H!TypeOK
  <2>2. Head(todo) \in H!CallIds /\ Tail(todo) \in Seq(H!CallIds)
    BY <2>1, HeadTailProperties
  <2>3. H!ToolResult(Head(todo), outcome) \in H!Messages
    BY <2>1, <2>2 DEF H!ToolResult, H!ToolResults, H!Messages
  <2>4. Extends(messages, messages')
    BY <1>a, <1>5, <2>3, AppendExtends DEF H!LeaveToolEnd
  <2>5. H!TypeOK'
    BY <1>5, <2>2, <2>4, <1>a DEF H!LeaveToolEnd, H!TypeOK, H!PCs, Extends
  <2> QED BY <2>4, <2>5
<1>6. CASE H!LeaveTurnEnd
  <2>1. /\ H!Drained(steering) \in Seq(H!UserMessages)
        /\ H!Undrained(steering) \in Seq(H!UserMessages)
        /\ H!Drained(followUp) \in Seq(H!UserMessages)
        /\ H!Undrained(followUp) \in Seq(H!UserMessages)
    BY <1>a, QueueTyped
  <2>2. /\ pending' \in Seq(H!UserMessages)
        /\ steering' \in Seq(H!UserMessages) /\ followUp' \in Seq(H!UserMessages)
        /\ pc' \in {"turnStart", "stopping"}
        /\ pc' = "stopping" => pending' = << >>
    BY <1>a, <1>6, <2>1 DEF H!LeaveTurnEnd
  <2>3. H!TypeOK' BY <1>6, <2>2, <1>a DEF H!LeaveTurnEnd, H!TypeOK, H!PCs
  <2>4. messages' = messages BY <1>6 DEF H!LeaveTurnEnd
  <2> QED BY <1>a, <2>3, <2>4
<1> QED BY <1>1, <1>2, <1>3, <1>4, <1>5, <1>6

(* The caller's operations beside a run.                                     *)
LEMMA CallerTyped ==
  ASSUME H!TypeOK, H!Steer \/ H!FollowUp \/ H!Cancel \/ H!AppendMessage
  PROVE  H!TypeOK' /\ Extends(messages, messages')
<1> USE DEF H!queueVars, H!runVars
<1>a. /\ submitted + 1 \in Nat /\ messages \in Seq(H!Messages)
      /\ steering \in Seq(H!UserMessages) /\ followUp \in Seq(H!UserMessages)
      /\ Extends(messages, messages)
      /\ {"steer", "followUp", "append"} \subseteq H!Via
  BY DEF H!TypeOK, Extends, H!Via
<1>1. CASE H!Steer \/ H!FollowUp
  <2>1. steering' \in Seq(H!UserMessages) /\ followUp' \in Seq(H!UserMessages)
    <3>1. /\ H!User(submitted + 1, "steer") \in H!UserMessages
          /\ H!User(submitted + 1, "followUp") \in H!UserMessages
      BY <1>a, UserTyped
    <3>2. CASE H!Steer BY <1>a, <3>1, <3>2 DEF H!Steer
    <3>3. CASE H!FollowUp BY <1>a, <3>1, <3>3 DEF H!FollowUp
    <3> QED BY <1>1, <3>2, <3>3
  <2>2. H!TypeOK' /\ messages' = messages
    BY <1>1, <2>1, <1>a DEF H!Steer, H!FollowUp, H!HandIn, H!TypeOK
  <2> QED BY <1>a, <2>2
<1>2. CASE H!Cancel
  BY <1>2, <1>a DEF H!Cancel, H!TypeOK, H!Running
<1>3. CASE H!AppendMessage
  <2>1. H!User(submitted + 1, "append") \in H!Messages BY <1>a, UserTyped
  <2>2. Extends(messages, messages') BY <1>3, <1>a, <2>1, AppendExtends DEF H!AppendMessage
  <2>3. H!TypeOK'
    BY <1>3, <2>2, <1>a DEF H!AppendMessage, H!HandIn, H!TypeOK, Extends
  <2> QED BY <2>2, <2>3
<1> QED BY <1>1, <1>2, <1>3

(* A transcript replaced between runs.                                       *)
LEMMA ReplacedTyped ==
  ASSUME H!TypeOK, messages' \in Seq(H!Messages),
         UNCHANGED <<steering, followUp, signal, pc, pending, reply, todo, outcome, turn,
                     issued, submitted>>
  PROVE  H!TypeOK'
BY DEF H!TypeOK

-----------------------------------------------------------------------------
(* What the session's own writes do to the log and to what it replays to.    *)

(* The leaf below which a load of this log would go on writing.              *)
LeafOf(entries) == IF entries = << >> THEN 1 ELSE L!ActiveLeaf(entries)

(* What the branch that ends in `leaf` replays to.                           *)
Replayed(entries, leaf) == L!MessagesOf(RowsOf(entries, leaf))

(* A log that can be read, and a place in it to write below.                 *)
Placed(entries, leaf) == Tree(entries) /\ leaf \in 0 .. Len(L!Opened(entries))

(* A log to which entries were only added.                                   *)
Keeps(a, b) == Len(a) <= Len(b) /\ \A i \in 1 .. Len(a) : b[i] = a[i]

(* What is replayed is a transcript.                                         *)
LEMMA ReplayedTyped ==
  ASSUME NEW entries, NEW leaf, Placed(entries, leaf)
  PROVE  /\ Replayed(entries, leaf) \in Seq(H!Messages)
         /\ entries # << >> => Replayed(entries, leaf) = L!MessagesOf(L!Rows(entries, leaf))
<1>1. /\ Tree(L!Opened(entries)) /\ leaf \in 0 .. Len(L!Opened(entries))
      /\ L!Rows(L!Opened(entries), leaf) = RowsOf(entries, leaf)
  BY OpenedFacts DEF Placed
<1>2. L!Rows(L!Opened(entries), leaf) \in Seq(Row(Len(L!Opened(entries))))
  BY <1>1, RowsFacts
<1>3. Replayed(entries, leaf) \in Seq(H!Messages)
  BY <1>1, <1>2, MessagesFacts DEF Replayed
<1> QED BY <1>3 DEF Replayed, RowsOf

(* Messages of two transcripts, one after the other.                         *)
LEMMA SetOfBoth ==
  ASSUME NEW a \in Seq(H!Messages), NEW b \in Seq(H!Messages)
  PROVE  MessageSet(a \o b) = MessageSet(a) \union MessageSet(b)
<1> DEFINE c == a \o b
<1>1. /\ c \in Seq(H!Messages) /\ Len(c) = Len(a) + Len(b)
      /\ \A i \in 1 .. Len(a) + Len(b) : c[i] = IF i <= Len(a) THEN a[i] ELSE b[i - Len(a)]
  BY ConcatProperties
<1> HIDE DEF c
<1>2. /\ Len(a) \in Nat /\ Len(b) \in Nat
      /\ DOMAIN a = 1 .. Len(a) /\ DOMAIN b = 1 .. Len(b) /\ DOMAIN c = 1 .. Len(a) + Len(b)
  BY <1>1
<1>3. MessageSet(c) \subseteq MessageSet(a) \union MessageSet(b)
  <2> SUFFICES ASSUME NEW i \in 1 .. Len(a) + Len(b)
               PROVE  c[i] \in MessageSet(a) \union MessageSet(b)
    BY <1>2 DEF MessageSet
  <2>1. CASE i <= Len(a) BY <1>1, <1>2, <2>1 DEF MessageSet
  <2>2. CASE ~(i <= Len(a))
    <3>1. i - Len(a) \in 1 .. Len(b) BY <1>2, <2>2
    <3> QED BY <1>1, <1>2, <2>2, <3>1 DEF MessageSet
  <2> QED BY <2>1, <2>2
<1>4. MessageSet(a) \subseteq MessageSet(c)
  <2> SUFFICES ASSUME NEW i \in 1 .. Len(a) PROVE a[i] \in MessageSet(c)
    BY <1>2 DEF MessageSet
  <2>1. i \in 1 .. Len(a) + Len(b) /\ i <= Len(a) BY <1>2
  <2>2. c[i] = a[i] BY <1>1, <2>1
  <2> QED BY <1>2, <2>1, <2>2 DEF MessageSet
<1>5. MessageSet(b) \subseteq MessageSet(c)
  <2> SUFFICES ASSUME NEW i \in 1 .. Len(b) PROVE b[i] \in MessageSet(c)
    BY <1>2 DEF MessageSet
  <2>1. Len(a) + i \in 1 .. Len(a) + Len(b) /\ ~(Len(a) + i <= Len(a)) /\ Len(a) + i - Len(a) = i
    BY <1>2
  <2>2. c[Len(a) + i] = b[i] BY <1>1, <2>1
  <2> QED BY <1>2, <2>1, <2>2 DEF MessageSet
<1> QED BY <1>3, <1>4, <1>5 DEF c

(* The messages from `count` on.                                             *)
LEMMA UnwrittenFacts ==
  ASSUME NEW msgs \in Seq(H!Messages), NEW count \in Nat
  PROVE  /\ Unwritten(msgs, count) \in Seq(H!Messages)
         /\ MessageSet(Unwritten(msgs, count)) = {msgs[i] : i \in count + 1 .. Len(msgs)}
         /\ count <= Len(msgs) => SubSeq(msgs, 1, count) \in Seq(H!Messages)
                                  /\ Len(SubSeq(msgs, 1, count)) = count
                                  /\ SubSeq(msgs, 1, count) \o Unwritten(msgs, count) = msgs
<1> DEFINE u == Unwritten(msgs, count)
           k == Len(msgs) - count
<1>0. Len(msgs) \in Nat /\ \A i \in 1 .. Len(msgs) : msgs[i] \in H!Messages
  OBVIOUS
<1>1. CASE count < Len(msgs)
  <2>1. /\ u \in Seq(H!Messages) /\ Len(u) = k
        /\ \A i \in 1 .. k : u[i] = msgs[count + i]
    <3>1. count + 1 \in 1 .. Len(msgs) + 1 /\ Len(msgs) \in count .. Len(msgs) BY <1>0, <1>1
    <3> QED BY <1>0, <1>1, <3>1, SubSeqProperties DEF Unwritten
  <2> HIDE DEF u
  <2>2. DOMAIN u = 1 .. k /\ k \in Nat BY <1>0, <1>1, <2>1
  <2>3. MessageSet(u) = {msgs[i] : i \in count + 1 .. Len(msgs)}
    <3>1. \A i \in 1 .. k : count + i \in count + 1 .. Len(msgs) BY <1>0, <2>2
    <3>2. \A i \in count + 1 .. Len(msgs) : i - count \in 1 .. k /\ count + (i - count) = i
      BY <1>0, <2>2
    <3> QED BY <2>1, <2>2, <3>1, <3>2 DEF MessageSet
  <2>4. /\ SubSeq(msgs, 1, count) \in Seq(H!Messages) /\ Len(SubSeq(msgs, 1, count)) = count
        /\ \A i \in 1 .. count : SubSeq(msgs, 1, count)[i] = msgs[i]
    BY <1>0, <1>1
  <2> DEFINE f == SubSeq(msgs, 1, count)
  <2>5. f \in Seq(H!Messages) /\ Len(f) = count /\ \A i \in 1 .. count : f[i] = msgs[i]
    BY <2>4
  <2> HIDE DEF f
  <2>6. /\ f \o u \in Seq(H!Messages) /\ Len(f \o u) = count + k
        /\ \A i \in 1 .. count + k : (f \o u)[i] = IF i <= count THEN f[i] ELSE u[i - count]
    BY <2>1, <2>5, ConcatProperties
  <2>7. count + k = Len(msgs) BY <1>0
  <2>8. \A i \in 1 .. Len(msgs) : (f \o u)[i] = msgs[i]
    <3> TAKE i \in 1 .. Len(msgs)
    <3>1. CASE i <= count
      <4>1. i \in 1 .. count BY <1>0, <3>1
      <4> QED BY <2>5, <2>6, <2>7, <3>1, <4>1
    <3>2. CASE ~(i <= count)
      <4>1. i - count \in 1 .. k /\ count + (i - count) = i BY <1>0, <3>2
      <4>2. (f \o u)[i] = u[i - count] BY <2>6, <2>7, <3>2
      <4>3. u[i - count] = msgs[count + (i - count)] BY <2>1, <4>1
      <4> QED BY <4>1, <4>2, <4>3
    <3> QED BY <3>1, <3>2
  <2>9. f \o u = msgs
    <3> DEFINE c == f \o u
    <3>1. c \in Seq(H!Messages) /\ Len(c) = Len(msgs) /\ \A i \in 1 .. Len(msgs) : c[i] = msgs[i]
      BY <2>6, <2>7, <2>8
    <3> HIDE DEF c
    <3>2. c = msgs BY <3>1, SeqEqual
    <3> QED BY <3>2 DEF c
  <2> QED BY <2>1, <2>3, <2>5, <2>9 DEF u, f
<1>2. CASE ~(count < Len(msgs))
  <2>1. u = << >> BY <1>0, <1>2, SubSeqProperties DEF Unwritten
  <2>2. {msgs[i] : i \in count + 1 .. Len(msgs)} = {}
    <3>1. count + 1 .. Len(msgs) = {} BY <1>0, <1>2
    <3> QED BY <3>1
  <2>3. MessageSet(<< >>) = {} BY DEF MessageSet
  <2>4. ASSUME count <= Len(msgs)
        PROVE  SubSeq(msgs, 1, count) = msgs
    <3>1. count = Len(msgs) BY <1>0, <1>2, <2>4
    <3>2. /\ SubSeq(msgs, 1, count) \in Seq(H!Messages) /\ Len(SubSeq(msgs, 1, count)) = Len(msgs)
          /\ \A i \in 1 .. Len(msgs) : SubSeq(msgs, 1, count)[i] = msgs[i]
      BY <1>0, <3>1
    <3> QED BY <3>2, SeqEqual
  <2>5. msgs \o << >> = msgs BY ConcatEmptySeq
  <2> QED BY <1>0, <1>2, <2>1, <2>2, <2>3, <2>4, <2>5
<1> QED BY <1>0, <1>1, <1>2

(* The same of the place the session writes at.                              *)
Below(entries, leaf, u, w, last) ==
  /\ Placed(w, last) /\ last = LeafOf(w) /\ Keeps(entries, w)
  /\ Replayed(w, last) = Replayed(entries, leaf) \o u
  /\ u # << >> => /\ Chain(w, Len(L!Opened(entries)), leaf, u)
                  /\ Len(w) = Len(L!Opened(entries)) + 2 * Len(u)

(* One message or more are written.                                          *)
LEMMA WrittenBelow ==
  ASSUME NEW entries, NEW leaf, Placed(entries, leaf), NEW u \in Seq(H!Messages), u # << >>,
         NEW w, w = L!WithMessages(entries, leaf, u),
         NEW last, last = L!LastMessageId(entries, u)
  PROVE  Below(entries, leaf, u, w, last)
<1>1. Tree(entries) /\ leaf \in 0 .. Len(L!Opened(entries)) BY DEF Placed
<1>a. Wrote(entries, leaf, u, w, last)
  BY <1>1, WrittenFacts, Zenon
<1>2. /\ Tree(w) /\ last \in 1 .. Len(w) /\ L!ActiveLeaf(w) = last
      /\ Len(entries) <= Len(w) /\ \A i \in 1 .. Len(entries) : w[i] = entries[i]
      /\ L!MessagesOf(L!Rows(w, last)) = L!MessagesOf(RowsOf(entries, leaf)) \o u
  BY <1>a DEF Wrote
<1>3. w # << >> /\ L!Opened(w) = w
  <2>1. w \in Seq(Entry) BY <1>2 DEF Tree
  <2>2. Len(<< >>) = 0 OBVIOUS
  <2>3. w # << >> BY <1>2, <2>1, <2>2
  <2> QED BY <2>3 DEF L!Opened
<1>6. /\ Chain(w, Len(L!Opened(entries)), leaf, u)
      /\ Len(w) = Len(L!Opened(entries)) + 2 * Len(u)
  BY <1>a DEF Wrote
<1>7. Len(w) \in Nat BY <1>2 DEF Tree
<1>8. Placed(w, last)
  <2>1. last \in 0 .. Len(w) BY <1>2, <1>7
  <2> QED BY <1>2, <1>3, <2>1 DEF Placed
<1>9. Replayed(w, last) = Replayed(entries, leaf) \o u
  BY <1>2, <1>3, Zenon DEF Replayed, RowsOf
<1>10. last = LeafOf(w) /\ Keeps(entries, w) BY <1>2, <1>3, Zenon DEF LeafOf, Keeps
<1> QED BY <1>6, <1>8, <1>9, <1>10, Zenon DEF Below

(* _persist_messages_since: the rest of the transcript is added to the       *)
(* branch, and where it ends is where a load would go on.                    *)
LEMMA PersistFacts ==
  ASSUME NEW entries, NEW leaf, Placed(entries, leaf), leaf = LeafOf(entries),
         NEW u \in Seq(H!Messages), NEW w, w = L!WithMessages(entries, leaf, u),
         NEW last, last = IF u = << >> THEN leaf ELSE L!LastMessageId(entries, u)
  PROVE  Below(entries, leaf, u, w, last)
<1>1. CASE u = << >>
  <2>1. w = entries /\ last = leaf BY <1>1 DEF L!WithMessages
  <2>2. Replayed(entries, leaf) \o << >> = Replayed(entries, leaf)
    BY ReplayedTyped, ConcatEmptySeq
  <2>3. Keeps(entries, entries)
    <3>1. Len(entries) \in Nat BY DEF Placed, Tree
    <3> QED BY <3>1 DEF Keeps
  <2> QED BY <1>1, <2>1, <2>2, <2>3 DEF Below
<1>2. CASE u # << >>
  <2>1. last = L!LastMessageId(entries, u) BY <1>2
  <2> QED BY <1>2, <2>1, WrittenBelow, Zenon
<1> QED BY <1>1, <1>2

(* An entry that replays to nothing changes no transcript.                   *)
LEMMA CustomFacts ==
  ASSUME NEW entries, NEW leaf, Placed(entries, leaf),
         NEW w, w = L!Appended(entries, L!CustomEntry(leaf)),
         NEW last, last = Len(L!Opened(entries)) + 1
  PROVE  /\ Placed(w, last) /\ last = LeafOf(w) /\ Keeps(entries, w)
         /\ Replayed(w, last) = Replayed(entries, leaf) /\ w # << >>
<1>1. Tree(entries) /\ leaf \in 0 .. Len(L!Opened(entries)) /\ Len(L!Opened(entries)) \in Nat
  BY OpenedFacts DEF Placed
<1> DEFINE e == L!CustomEntry(leaf)
<1>2. e \in Entry /\ e.type = "custom" /\ e.parent = leaf
  BY <1>1 DEF L!CustomEntry, Entry
<1>3. w = L!Appended(entries, e) OBVIOUS
<1> HIDE DEF e
<1>4. /\ Tree(w) /\ Len(w) = last + 1 /\ L!ActiveLeaf(w) = last
      /\ L!Rows(w, last) = Grown(e, last, RowsOf(entries, e.parent))
      /\ \A i \in 1 .. Len(entries) : w[i] = entries[i]
  BY <1>1, <1>2, <1>3, AppendedFacts
<1>5. L!Rows(w, last) = RowsOf(entries, leaf) BY <1>2, <1>4 DEF Grown
<1>6. Len(entries) \in Nat /\ Len(entries) <= Len(L!Opened(entries)) BY <1>1, OpenedFacts
<1>7. w # << >> /\ L!Opened(w) = w
  <2>1. Len(<< >>) = 0 OBVIOUS
  <2>2. w # << >> BY <1>1, <1>4, <2>1
  <2> QED BY <2>2 DEF L!Opened
<1> QED BY <1>1, <1>4, <1>5, <1>6, <1>7 DEF Placed, LeafOf, Keeps, Replayed, RowsOf

(* A compaction, or the summary of a branch, below any entry there is.       *)
LEMMA SummaryFacts ==
  ASSUME NEW entries, Tree(entries), entries # << >>, NEW e \in Entry, e.type # "leaf",
         e.parent \in 0 .. Len(entries), NEW w, w = L!Appended(entries, e),
         NEW last, last = Len(entries) + 1
  PROVE  Placed(w, last) /\ last = LeafOf(w) /\ Keeps(entries, w) /\ w # << >>
<1>1. L!Opened(entries) = entries /\ Len(entries) \in Nat BY OpenedFacts
<1>2. /\ Tree(w) /\ Len(w) = last + 1 /\ L!ActiveLeaf(w) = last
      /\ \A i \in 1 .. Len(entries) : w[i] = entries[i]
  BY <1>1, AppendedFacts
<1>3. w # << >> /\ L!Opened(w) = w
  <2>1. Len(<< >>) = 0 OBVIOUS
  <2>2. w # << >> BY <1>1, <1>2, <2>1
  <2> QED BY <2>2 DEF L!Opened
<1> QED BY <1>1, <1>2, <1>3 DEF Placed, LeafOf, Keeps

(* A leaf moved to any entry.                                                *)
LEMMA LeafMoved ==
  ASSUME NEW entries, Tree(entries), NEW target \in 0 .. Len(entries),
         NEW w, w = L!MovedTo(entries, target)
  PROVE  Placed(w, target) /\ target = LeafOf(w) /\ Keeps(entries, w) /\ w # << >>
<1>1. /\ Tree(w) /\ L!ActiveLeaf(w) = target /\ Len(w) = Len(entries) + 1
      /\ \A i \in 1 .. Len(entries) : w[i] = entries[i]
  BY MovedFacts
<1>2. Len(entries) \in Nat BY DEF Tree
<1>3. w # << >> /\ L!Opened(w) = w
  <2>1. Len(<< >>) = 0 OBVIOUS
  <2>2. w # << >> BY <1>1, <1>2, <2>1
  <2> QED BY <2>2 DEF L!Opened
<1> QED BY <1>1, <1>2, <1>3 DEF Placed, LeafOf, Keeps

(* A process that dies leaves a part of what it wrote.                       *)
LEMMA CutFacts ==
  ASSUME NEW entries, Tree(entries), entries # << >>, NEW w, Tree(w), Keeps(entries, w),
         NEW n \in Len(entries) .. Len(w), NEW v, v = SubSeq(w, 1, n)
  PROVE  Placed(v, 1) /\ Keeps(entries, v) /\ v # << >>
<1>1. Len(entries) \in Nat /\ Len(w) \in Nat /\ entries \in Seq(Entry) /\ w \in Seq(Entry)
  BY DEF Tree
<1>2. Len(entries) > 0
  <2>1. Len(entries) = 0 => entries = << >> BY <1>1
  <2> QED BY <1>1, <2>1
<1>3. n \in 0 .. Len(w) /\ n \in Nat /\ n >= 1 BY <1>1, <1>2
<1>4. Tree(v) /\ Len(v) = n BY <1>3, PrefixTree
<1>5. \A i \in 1 .. n : v[i] = w[i] BY <1>1, <1>3
<1>6. \A i \in 1 .. Len(entries) : v[i] = entries[i]
  <2> TAKE i \in 1 .. Len(entries)
  <2>1. i \in 1 .. n BY <1>1
  <2> QED BY <1>5, <2>1 DEF Keeps
<1>7. v # << >> /\ L!Opened(v) = v
  <2>1. Len(<< >>) = 0 OBVIOUS
  <2>2. v # << >> BY <1>3, <1>4, <2>1
  <2> QED BY <2>2 DEF L!Opened
<1> QED BY <1>1, <1>3, <1>4, <1>6, <1>7 DEF Placed, Keeps

(* A compaction needs rows to replace, and so a log.                         *)
LEMMA PlanFacts ==
  ASSUME NEW entries, NEW leaf, Placed(entries, leaf)
  PROVE  /\ \A i \in DOMAIN RowsOf(entries, leaf) : RowsOf(entries, leaf)[i].id \in Nat
         /\ \A i \in DOMAIN RowsOf(entries, leaf) : RowsOf(entries, leaf)[i].id \in 1 .. Len(entries)
         /\ \A p \in L!CompactionPlans(RowsOf(entries, leaf)) :
              p \subseteq Nat /\ p \subseteq 1 .. Len(entries) /\ entries # << >>
<1> DEFINE rows == RowsOf(entries, leaf)
<1>1. /\ Tree(L!Opened(entries)) /\ Len(L!Opened(entries)) \in Nat
      /\ L!Rows(L!Opened(entries), leaf) = rows /\ leaf \in 0 .. Len(L!Opened(entries))
  BY OpenedFacts DEF Placed
<1>2. rows \in Seq(Row(Len(L!Opened(entries)))) BY <1>1, RowsFacts
<1>3. entries = << >> => rows = << >> BY DEF RowsOf
<1> HIDE DEF rows
<1>4. \A i \in 1 .. Len(rows) : rows[i].id \in Nat /\ rows[i].id \in 1 .. Len(entries)
  <2> TAKE i \in 1 .. Len(rows)
  <2>1. rows[i] \in Row(Len(L!Opened(entries))) BY <1>2
  <2>2. entries # << >> BY <1>3
  <2>3. L!Opened(entries) = entries BY <2>2 DEF L!Opened
  <2> QED BY <1>1, <2>1, <2>3 DEF Row
<1>5. DOMAIN rows = 1 .. Len(rows) /\ Len(rows) \in Nat BY <1>2
<1>6. ASSUME NEW p \in L!CompactionPlans(rows)
      PROVE  p \subseteq Nat /\ p \subseteq 1 .. Len(entries) /\ entries # << >>
  <2>1. ~(Len(rows) < 2) BY DEF L!CompactionPlans
  <2>2. entries # << >> BY <1>3, <2>1
  <2>3. PICK i \in DOMAIN rows : p = {rows[j].id : j \in 1 .. L!ReplacedRows(rows, i)}
    BY <2>1 DEF L!CompactionPlans
  <2>4. L!ReplacedRows(rows, i) <= Len(rows) /\ L!ReplacedRows(rows, i) \in Int
    <3> DEFINE users(from) == {j \in from .. Len(rows) : rows[j].message.role = "user"}
               others(from) == {j \in from .. Len(rows) : rows[j].message.role # "toolResult"}
               U2 == users(2)
               Ui == users(i + 1)
               Oi == others(i)
    <3>1. i \in 1 .. Len(rows) BY <1>5
    <3>2. U2 # {} => L!Min(U2) \in 1 .. Len(rows)
      <4>1. U2 \subseteq 1 .. Len(rows) /\ U2 \subseteq Nat BY <1>5
      <4> HIDE DEF U2
      <4> QED BY <4>1, LeastOf
    <3>3. Ui # {} => L!Min(Ui) \in 1 .. Len(rows)
      <4>1. Ui \subseteq 1 .. Len(rows) /\ Ui \subseteq Nat BY <1>5, <3>1
      <4> HIDE DEF Ui
      <4> QED BY <4>1, LeastOf
    <3>4. Oi # {} => L!Min(Oi) \in 1 .. Len(rows)
      <4>1. Oi \subseteq 1 .. Len(rows) /\ Oi \subseteq Nat BY <1>5, <3>1
      <4> HIDE DEF Oi
      <4> QED BY <4>1, LeastOf
    <3>5. L!ReplacedRows(rows, i) =
            (IF rows[i].message.role = "user"
             THEN IF i > 1 THEN i ELSE IF U2 = {} THEN 1 ELSE L!Min(U2)
             ELSE IF Ui # {} THEN L!Min(Ui)
                  ELSE IF Oi # {} THEN L!Min(Oi) ELSE Len(rows) + 1) - 1
      BY DEF L!ReplacedRows
    <3> HIDE DEF U2, Ui, Oi
    <3> QED BY <1>5, <3>1, <3>2, <3>3, <3>4, <3>5
  <2> QED BY <1>4, <1>5, <2>2, <2>3, <2>4
<1> QED BY <1>4, <1>5, <1>6 DEF rows

-----------------------------------------------------------------------------
(* The inductive invariant.  LeafIsLive and DurableIsLive say where the      *)
(* session writes and what it has written; that a step keeps them needs a    *)
(* log that can be replayed at all, entries that a compaction or a summary   *)
(* under way can be put below, and a branch that waits beside no run.        *)
Waits ==
  branch # NoBranch =>
    /\ branch.from \in 1 .. Len(log) /\ call \in {"idle", "manualCompact"}
    /\ "from" \in DOMAIN branch

(* A message's end is with the listeners of a run only.                      *)
Heard == due => call \in Runs

(* LeafIsLive and DurableIsLive, and all they rest on.                       *)
IInv ==
  /\ H!TypeOK
  /\ Placed(log, lastParent)
  /\ persisted \in Nat /\ plan \subseteq Nat
  /\ call \in Compactions \cup {"down"} => log # << >>
  /\ Waits /\ Heard
  /\ call # "down" => lastParent = LeafOf(log)
  /\ call # "down" => MessageSet(Replayed(log, lastParent)) \subseteq MessageSet(messages)

(* A transcript that only grew holds what it held.                           *)
LEMMA ExtendsHolds ==
  ASSUME NEW a \in Seq(H!Messages), NEW b, Extends(a, b)
  PROVE  MessageSet(a) \subseteq MessageSet(b)
<1>1. DOMAIN a = 1 .. Len(a) /\ DOMAIN b = 1 .. Len(b) /\ Len(a) \in Nat /\ Len(b) \in Nat
  BY DEF Extends
<1>2. \A i \in 1 .. Len(a) : i \in 1 .. Len(b) /\ b[i] = a[i]
  BY <1>1 DEF Extends
<1> QED BY <1>1, <1>2 DEF MessageSet

(* A step that writes nothing and takes nothing from the transcript.         *)
LEMMA NothingWritten ==
  ASSUME IInv, H!TypeOK', Extends(messages, messages'), UNCHANGED logVars,
         persisted' \in Nat, plan' \subseteq Nat, Waits', Heard', call # "down", call' # "down",
         call' \in Compactions => log # << >>
  PROVE  IInv'
<1>1. messages \in Seq(H!Messages) BY DEF IInv, H!TypeOK
<1>2. MessageSet(messages) \subseteq MessageSet(messages') BY <1>1, ExtendsHolds
<1>3. log' = log /\ lastParent' = lastParent BY DEF logVars
<1>4. MessageSet(Replayed(log', lastParent')) \subseteq MessageSet(messages')
  BY <1>2, <1>3 DEF IInv
<1>5. /\ Placed(log', lastParent') /\ lastParent' = LeafOf(log')
      /\ call' \in Compactions \cup {"down"} => log' # << >>
  BY <1>3 DEF IInv
<1> QED BY <1>4, <1>5 DEF IInv

(* A step that writes the transcript from `count` on.                        *)
LEMMA RestWritten ==
  ASSUME Placed(log, lastParent), lastParent = LeafOf(log), messages' \in Seq(H!Messages),
         NEW count \in Nat, PersistSince(messages', count)
  PROVE  Below(log, lastParent, Unwritten(messages', count), log', lastParent')
<1>1. PICK msgs \in Seq(H!Messages) : msgs = messages' OBVIOUS
<1>2. PICK u : u = Unwritten(msgs, count) OBVIOUS
<1>3. u \in Seq(H!Messages) BY <1>1, <1>2, UnwrittenFacts
<1>4. PICK entries : entries = log OBVIOUS
<1>5. PICK leaf : leaf = lastParent OBVIOUS
<1>6. PICK w : w = log' OBVIOUS
<1>7. PICK last : last = lastParent' OBVIOUS
<1>8. w = L!WithMessages(entries, leaf, u)
  BY <1>1, <1>2, <1>4, <1>5, <1>6, Zenon DEF PersistSince
<1>9. last = IF u = << >> THEN leaf ELSE L!LastMessageId(entries, u)
  BY <1>1, <1>2, <1>4, <1>5, <1>7, Zenon DEF PersistSince
<1>10. Placed(entries, leaf) /\ leaf = LeafOf(entries) BY <1>4, <1>5
<1>11. Below(entries, leaf, u, w, last) BY <1>3, <1>8, <1>9, <1>10, PersistFacts, Zenon
<1> QED BY <1>1, <1>2, <1>4, <1>5, <1>6, <1>7, <1>11

(* A step that wrote the transcript from `count` on keeps the invariant:     *)
(* what is added to the replay is live.                                      *)
LEMMA WrittenKept ==
  ASSUME IInv, H!TypeOK', Extends(messages, messages'), NEW count \in Nat,
         Below(log, lastParent, Unwritten(messages', count), log', lastParent'),
         persisted' \in Nat, plan' \subseteq Nat, call # "down", call' # "down",
         call' \in Compactions => log' # << >>, Waits', Heard'
  PROVE  IInv'
<1>1. messages \in Seq(H!Messages) /\ messages' \in Seq(H!Messages) BY DEF IInv, H!TypeOK
<1>2. MessageSet(messages) \subseteq MessageSet(messages') BY <1>1, ExtendsHolds
<1>3. /\ Placed(log', lastParent') /\ lastParent' = LeafOf(log')
      /\ Replayed(log', lastParent')
           = Replayed(log, lastParent) \o Unwritten(messages', count)
  BY DEF Below
<1>4. Replayed(log, lastParent) \in Seq(H!Messages) BY ReplayedTyped DEF IInv
<1>5. /\ Unwritten(messages', count) \in Seq(H!Messages)
      /\ MessageSet(Unwritten(messages', count)) \subseteq MessageSet(messages')
  <2>1. PICK msgs \in Seq(H!Messages) : msgs = messages' BY <1>1
  <2>2. /\ Unwritten(msgs, count) \in Seq(H!Messages)
        /\ MessageSet(Unwritten(msgs, count)) = {msgs[i] : i \in count + 1 .. Len(msgs)}
    BY UnwrittenFacts
  <2>3. {msgs[i] : i \in count + 1 .. Len(msgs)} \subseteq MessageSet(msgs)
    <3>1. DOMAIN msgs = 1 .. Len(msgs) /\ Len(msgs) \in Nat OBVIOUS
    <3>2. \A i \in count + 1 .. Len(msgs) : i \in DOMAIN msgs BY <3>1
    <3> QED BY <3>2 DEF MessageSet
  <2> QED BY <2>1, <2>2, <2>3
<1>6. MessageSet(Replayed(log', lastParent'))
        = MessageSet(Replayed(log, lastParent)) \union MessageSet(Unwritten(messages', count))
  <2>1. PICK a \in Seq(H!Messages) : a = Replayed(log, lastParent) BY <1>4
  <2>2. PICK b \in Seq(H!Messages) : b = Unwritten(messages', count) BY <1>5
  <2>3. MessageSet(a \o b) = MessageSet(a) \union MessageSet(b) BY SetOfBoth
  <2> QED BY <1>3, <2>1, <2>2, <2>3
<1>7. MessageSet(Replayed(log, lastParent)) \subseteq MessageSet(messages) BY DEF IInv
<1>8. MessageSet(Replayed(log', lastParent')) \subseteq MessageSet(messages')
  BY <1>2, <1>5, <1>6, <1>7
<1> QED BY <1>3, <1>8 DEF IInv

(* A step after which the transcript begins with what the log replays to.    *)
LEMMA ReplayKept ==
  ASSUME H!TypeOK', Placed(log', lastParent'), log' # << >>,
         Extends(Replayed(log', lastParent'), messages'),
         persisted' \in Nat, plan' \subseteq Nat, Waits', Heard', lastParent' = LeafOf(log')
  PROVE  IInv'
<1>1. Replayed(log', lastParent') \in Seq(H!Messages) BY ReplayedTyped
<1>2. MessageSet(Replayed(log', lastParent')) \subseteq MessageSet(messages')
  <2>1. PICK a \in Seq(H!Messages) : a = Replayed(log', lastParent') BY <1>1
  <2>2. PICK b : b = messages' OBVIOUS
  <2>3. MessageSet(a) \subseteq MessageSet(b) BY <2>1, <2>2, ExtendsHolds
  <2> QED BY <2>1, <2>2, <2>3
<1> QED BY <1>2 DEF IInv

-----------------------------------------------------------------------------
(* Every step preserves the invariant.                                       *)

(* A session that was never prompted.                                        *)
LEMMA InitInvariant == Init => IInv
<1> SUFFICES ASSUME Init PROVE IInv
  OBVIOUS
<1>1. H!TypeOK
  <2>1. << >> \in Seq(H!Messages) /\ << >> \in Seq(H!UserMessages) /\ << >> \in Seq(H!CallIds)
    OBVIOUS
  <2> QED BY <2>1, ErrorTyped DEF Init, H!Init, H!TypeOK, H!PCs, H!Outcomes
<1>2. log = << >> /\ lastParent = 1 BY DEF Init
<1>3. Tree(<< >>)
  <2>1. << >> \in Seq(Entry) /\ Len(<< >>) = 0 OBVIOUS
  <2> QED BY <2>1 DEF Tree
<1>4. Placed(<< >>, 1)
  <2>1. Len(L!Opened(<< >>)) = 1 BY <1>3, OpenedFacts
  <2> QED BY <1>3, <2>1 DEF Placed
<1>5. MessageSet(Replayed(<< >>, 1)) = {}
  BY DEF MessageSet, Replayed, RowsOf, L!MessagesOf
<1> QED BY <1>1, <1>2, <1>4, <1>5 DEF Init, IInv, Waits, Heard, LeafOf, Compactions

(* A prompt on the transcript as it stands.                                  *)
LEMMA PromptKeeps ==
  ASSUME H!TypeOK, H!Prompt
  PROVE  H!TypeOK' /\ Extends(messages, messages')
<1>1. PICK t \in Seq(H!Messages) : t = messages BY DEF H!TypeOK
<1>2. H!PromptOn(t) BY <1>1 DEF H!Prompt, H!PromptOn
<1> QED BY <1>1, <1>2, PromptTyped

(* A transcript nobody touches.                                              *)
LEMMA Untouched ==
  ASSUME H!TypeOK, UNCHANGED harnessVars
  PROVE  H!TypeOK' /\ Extends(messages, messages')
BY DEF H!TypeOK, harnessVars, Extends

(* A run that starts, goes on or is torn down writes nothing.                *)
LEMMA RunKeeps ==
  ASSUME IInv, SendPrompt \/ SendContinue \/ RunStep \/ RetryRun \/ Abandon
  PROVE  /\ Extends(messages, messages') /\ UNCHANGED logVars
         /\ call # "down" /\ call' # "down" /\ IInv'
<1>1. H!TypeOK /\ messages \in Seq(H!Messages) /\ Len(messages) \in Nat
  BY DEF IInv, H!TypeOK
<1>2. H!TypeOK' /\ Extends(messages, messages')
  <2>1. CASE SendPrompt BY <1>1, <2>1, PromptKeeps DEF SendPrompt
  <2>2. CASE SendContinue BY <1>1, <2>2, ResumeTyped DEF SendContinue, H!Continue
  <2>3. CASE RunStep BY <1>1, <2>3, RunTyped DEF RunStep
  <2>4. CASE RetryRun BY <1>1, <2>4, ResumeTyped DEF RetryRun
  <2>5. CASE Abandon BY <1>1, <2>5, FinallyTyped DEF Abandon, H!Close
  <2> QED BY <2>1, <2>2, <2>3, <2>4, <2>5
<1>3. /\ log' = log /\ lastParent' = lastParent /\ plan' = plan /\ persisted' \in Nat
      /\ call # "down" /\ call' \in {"run", "continue", "retry", "idle"}
  BY <1>1 DEF SendPrompt, SendContinue, RunStep, RetryRun, Abandon, logVars, IInv, Runs
<1>4. Waits'
  <2>1. branch = NoBranch \/ branch' = NoBranch
    BY DEF SendPrompt, SendContinue, RunStep, RetryRun, Abandon, CancelsBranch, IInv, Waits, Runs
  <2>2. branch' \in {branch, NoBranch}
    BY DEF SendPrompt, SendContinue, RunStep, RetryRun, Abandon, CancelsBranch
  <2> QED BY <2>1, <2>2 DEF Waits
<1>5. call' # "down" /\ call' \notin Compactions BY <1>3 DEF Compactions
<1>6. plan' \subseteq Nat BY <1>3 DEF IInv
<1>7. UNCHANGED logVars BY <1>3 DEF logVars
<1>8. Heard'
  BY <1>3 DEF SendPrompt, SendContinue, RunStep, RetryRun, Abandon, IInv, Heard, Runs
<1> QED BY <1>2, <1>3, <1>4, <1>5, <1>6, <1>7, <1>8, NothingWritten

(* The session writes what it sees the end of.                               *)
LEMMA HandleKeeps ==
  ASSUME IInv, HandleMessageEnd
  PROVE  /\ messages' = messages /\ call \in Runs /\ call' = call
         /\ Below(log, lastParent, Unwritten(messages', persisted), log', lastParent')
         /\ IInv'
<1>0. Heard' /\ call \in Runs /\ call # "down" BY DEF HandleMessageEnd, IInv, Heard, Runs
<1>1. H!TypeOK /\ messages \in Seq(H!Messages) /\ persisted \in Nat /\ Len(messages) \in Nat
  BY DEF IInv, H!TypeOK
<1>2. H!TypeOK' /\ Extends(messages, messages') /\ messages' = messages
  BY <1>1, Untouched DEF HandleMessageEnd, harnessVars
<1>3. PersistSince(messages', persisted)
  BY <1>2 DEF HandleMessageEnd, PersistSince
<1>4. Below(log, lastParent, Unwritten(messages', persisted), log', lastParent')
  BY <1>1, <1>2, <1>3, <1>0, RestWritten DEF IInv
<1>5. log # << >> => log' # << >>
  <2>1. Tree(log) /\ Tree(log') /\ Len(log) <= Len(log')
    BY <1>4 DEF IInv, Placed, Below, Keeps
  <2> QED BY <2>1 DEF Tree
<1>6. /\ persisted' = Len(messages) /\ plan' = plan /\ call' = call /\ branch' = branch
  BY DEF HandleMessageEnd
<1>7. Waits'
  <2>1. Len(log) <= Len(log') /\ Len(log) \in Nat /\ Len(log') \in Nat
    BY <1>4 DEF IInv, Placed, Below, Keeps, Tree
  <2> QED BY <1>6, <2>1 DEF IInv, Waits
<1>8. /\ persisted' \in Nat /\ plan' \subseteq Nat /\ call' # "down"
      /\ call' \in Compactions => log' # << >>
  BY <1>1, <1>5, <1>6 DEF IInv, Heard, HandleMessageEnd, Runs
<1>9. IInv' BY <1>1, <1>2, <1>4, <1>7, <1>8, <1>0, WrittenKept
<1> QED BY <1>2, <1>4, <1>6, <1>0, <1>9

(* What the plan of a compaction needs.                                      *)
LEMMA PlanNeedsLog ==
  ASSUME Placed(log, lastParent), NEW p \in L!CompactionPlans(RowsOf(log, lastParent))
  PROVE  p \subseteq Nat /\ p \subseteq 1 .. Len(log) /\ log # << >>
<1>1. PICK entries : entries = log OBVIOUS
<1>2. PICK leaf : leaf = lastParent OBVIOUS
<1>3. Placed(entries, leaf) /\ p \in L!CompactionPlans(RowsOf(entries, leaf)) BY <1>1, <1>2
<1>4. p \subseteq Nat /\ p \subseteq 1 .. Len(entries) /\ entries # << >> BY <1>3, PlanFacts
<1> QED BY <1>1, <1>4

(* What a run leaves unwritten is written when it ends.                      *)
LEMMA FinishKeeps ==
  ASSUME IInv, FinishRun
  PROVE  /\ Extends(messages, messages') /\ call' \notin Runs \cup {"down"}
         /\ Below(log, lastParent, Unwritten(messages', persisted), log', lastParent')
         /\ IInv'
<1>1. H!TypeOK /\ messages \in Seq(H!Messages) /\ persisted \in Nat /\ call # "down"
  BY DEF IInv, H!TypeOK, FinishRun, Runs
<1>2. H!TypeOK' /\ Extends(messages, messages')
  BY <1>1, FinallyTyped DEF FinishRun, H!Finish
<1>3. PersistSince(messages', persisted) BY DEF FinishRun
<1>4. Below(log, lastParent, Unwritten(messages', persisted), log', lastParent')
  BY <1>1, <1>2, <1>3, RestWritten DEF IInv, H!TypeOK
<1>5. /\ persisted' = 0 /\ call' \in {"idle", "overflow", "postCompact"} /\ branch' = branch
      /\ branch = NoBranch
  BY DEF FinishRun, IInv, Waits, Runs
<1>6. plan' \subseteq Nat /\ (call' = "postCompact" => log' # << >>)
  <2>1. CASE plan' = plan /\ call' \in {"idle", "overflow"} BY <2>1 DEF IInv
  <2>2. CASE plan' \in L!CompactionPlans(RowsOf(log', lastParent')) /\ call' = "postCompact"
    <3>1. PICK entries : entries = log' OBVIOUS
    <3>2. PICK leaf : leaf = lastParent' OBVIOUS
    <3>3. PICK p : p = plan' OBVIOUS
    <3>4. Placed(entries, leaf) BY <1>4, <3>1, <3>2 DEF Below
    <3>5. p \in L!CompactionPlans(RowsOf(entries, leaf)) BY <2>2, <3>1, <3>2, <3>3
    <3>6. p \subseteq Nat /\ entries # << >> BY <3>4, <3>5, PlanFacts
    <3> QED BY <3>1, <3>3, <3>6
  <2> QED BY <2>1, <2>2 DEF FinishRun
<1>7. Waits' /\ Heard' BY <1>5 DEF Waits, Heard, FinishRun
<1>8. /\ persisted' \in Nat /\ call' # "down" /\ call' \notin Runs \cup {"down"}
      /\ call' \in Compactions => log' # << >>
  BY <1>5, <1>6 DEF Compactions, Runs
<1>9. IInv' BY <1>1, <1>2, <1>4, <1>6, <1>7, <1>8, WrittenKept
<1> QED BY <1>2, <1>4, <1>8, <1>9

(* Queueing and cancelling touch neither the transcript nor the log.         *)
LEMMA CallerKeeps ==
  ASSUME IInv, Queue \/ Cancel
  PROVE  /\ messages' = messages /\ UNCHANGED logVars /\ UNCHANGED <<persisted, call>> /\ IInv'
<1>1. H!TypeOK /\ call # "down" BY DEF IInv, Queue, Cancel, Runs
<1>2. /\ messages' = messages /\ log' = log /\ lastParent' = lastParent
      /\ plan' = plan /\ persisted' = persisted /\ call' = call /\ branch' = branch /\ due' = due
  BY DEF Queue, Cancel, H!Steer, H!FollowUp, H!Cancel, logVars
<1>3. H!TypeOK' /\ Extends(messages, messages')
  BY <1>1, CallerTyped DEF Queue, Cancel
<1>4. Waits' /\ Heard' BY <1>2 DEF IInv, Waits, Heard
<1>5. UNCHANGED logVars /\ UNCHANGED <<persisted, call>> BY <1>2 DEF logVars
<1>6. /\ persisted' \in Nat /\ plan' \subseteq Nat /\ call' # "down"
      /\ call' \in Compactions => log # << >>
  BY <1>1, <1>2 DEF IInv
<1>7. IInv' BY <1>1, <1>3, <1>4, <1>5, <1>6, NothingWritten
<1> QED BY <1>2, <1>5, <1>7

(* A terminal command's output is the last of the transcript and is written  *)
(* alone, whatever a run has not written yet.                                *)
LEMMA TerminalKeeps ==
  ASSUME IInv, TerminalCommand
  PROVE  /\ Extends(messages, messages')
         /\ messages' = Append(messages, H!User(submitted + 1, "append"))
         /\ UNCHANGED <<persisted, call>> /\ call # "down"
         /\ Below(log, lastParent, Unwritten(messages', Len(messages)), log', lastParent')
         /\ IInv'
<1>1. H!TypeOK /\ call # "down" /\ messages \in Seq(H!Messages) /\ Len(messages) \in Nat
  BY DEF IInv, H!TypeOK, TerminalCommand
<1>2. H!TypeOK' /\ Extends(messages, messages')
  BY <1>1, CallerTyped DEF TerminalCommand
<1>3. /\ plan' = plan /\ persisted' = persisted /\ call' = call /\ branch' = branch /\ due' = due
      /\ messages' = Append(messages, H!User(submitted + 1, "append"))
  BY DEF TerminalCommand, H!AppendMessage
<1>4. PICK count \in Nat : count = Len(messages) BY <1>1
<1>5. PersistSince(messages', count) BY <1>4 DEF TerminalCommand
<1>6. Below(log, lastParent, Unwritten(messages', count), log', lastParent')
  BY <1>1, <1>2, <1>5, RestWritten DEF IInv, H!TypeOK
<1>7. Len(log) <= Len(log') /\ Len(log) \in Nat /\ Len(log') \in Nat
      /\ Tree(log) /\ Tree(log')
  <2>1. Tree(log) /\ Tree(log') /\ Len(log) <= Len(log')
    BY <1>6 DEF IInv, Placed, Below, Keeps
  <2> QED BY <2>1 DEF Tree
<1>8. log # << >> => log' # << >> BY <1>7 DEF Tree
<1>9. Waits' /\ Heard' BY <1>3, <1>7 DEF IInv, Waits, Heard
<1>10. /\ persisted' \in Nat /\ plan' \subseteq Nat /\ call' # "down"
       /\ call' \in Compactions => log' # << >>
  BY <1>1, <1>3, <1>8 DEF IInv
<1>11. IInv' BY <1>1, <1>2, <1>6, <1>9, <1>10, WrittenKept
<1> QED BY <1>1, <1>2, <1>3, <1>4, <1>6, <1>11

(* The session's own call goes on to, or away from, a compaction.            *)
LEMMA CallKeeps ==
  ASSUME IInv, OverflowCompaction \/ StartPreCompaction \/ StartManualCompaction
               \/ AbandonCompaction \/ StartBranchSummary
  PROVE  /\ messages' = messages /\ UNCHANGED logVars /\ UNCHANGED persisted
         /\ {call, call'} \cap (Runs \cup {"down"}) = {} /\ IInv'
<1>1. H!TypeOK /\ Placed(log, lastParent) BY DEF IInv
<1>2. /\ UNCHANGED harnessVars /\ messages' = messages
      /\ log' = log /\ lastParent' = lastParent /\ persisted' = persisted /\ due' = due
      /\ call \in {"idle", "overflow", "retryStart"} \cup Compactions
      /\ call' \in {"idle"} \cup Compactions
      /\ call' \in Compactions => call' # call
  BY DEF OverflowCompaction, StartPreCompaction, StartManualCompaction, AbandonCompaction,
         StartBranchSummary, harnessVars, logVars, Compactions, MayBranchFrom
<1>3. H!TypeOK' /\ Extends(messages, messages') BY <1>1, <1>2, Untouched
<1>4. {call, call'} \cap (Runs \cup {"down"}) = {} BY <1>2 DEF Compactions, Runs
<1>5. plan' \subseteq Nat /\ (call' \in Compactions => log # << >>)
  <2>1. CASE plan' \in L!CompactionPlans(ActiveRows)
    <3>1. PICK p : p = plan' OBVIOUS
    <3>2. p \in L!CompactionPlans(RowsOf(log, lastParent)) BY <2>1, <3>1 DEF ActiveRows
    <3>3. p \subseteq Nat /\ log # << >> BY <1>1, <3>2, PlanNeedsLog
    <3> QED BY <3>1, <3>3
  <2>2. CASE plan' = plan /\ call' = "idle" BY <2>2 DEF IInv, Compactions
  <2>3. CASE plan' = {} /\ call' = "idle" BY <2>3 DEF Compactions
  <2>4. CASE StartManualCompaction
    <3>1. ActiveRows # << >> /\ plan' = {ActiveRows[i].id : i \in DOMAIN ActiveRows}
      BY <2>4 DEF StartManualCompaction
    <3>2. log # << >> BY <3>1 DEF ActiveRows, RowsOf
    <3>3. PICK entries : entries = log OBVIOUS
    <3>4. PICK leaf : leaf = lastParent OBVIOUS
    <3>5. \A i \in DOMAIN RowsOf(entries, leaf) : RowsOf(entries, leaf)[i].id \in Nat
      BY <1>1, <3>3, <3>4, PlanFacts
    <3>6. \A i \in DOMAIN ActiveRows : ActiveRows[i].id \in Nat
      BY <3>3, <3>4, <3>5 DEF ActiveRows
    <3> QED BY <3>1, <3>2, <3>6
  <2> QED BY <2>1, <2>2, <2>3, <2>4
          DEF OverflowCompaction, StartPreCompaction, AbandonCompaction, StartBranchSummary,
              MayBranchFrom
<1>6. Waits'
  <2>1. CASE StartBranchSummary
    <3>1. PICK n \in DOMAIN log :
            branch' = [from |-> n, covers |-> L!Abandoned(log, n, lastParent), overtaken |-> FALSE]
            /\ call = "idle"
      BY <2>1 DEF StartBranchSummary, MayBranchFrom
    <3>2. DOMAIN log = 1 .. Len(log) BY <1>1 DEF Placed, Tree
    <3>3. call' = "idle" BY <2>1, <3>1 DEF StartBranchSummary
    <3> QED BY <1>2, <3>1, <3>2, <3>3 DEF Waits
  <2>2. CASE StartPreCompaction BY <2>2 DEF StartPreCompaction, CancelsBranch, Waits
  <2>3. CASE OverflowCompaction BY <2>3 DEF OverflowCompaction, IInv, Waits
  <2>4. CASE StartManualCompaction \/ AbandonCompaction
    <3>1. branch' = branch /\ call' \in {"idle", "manualCompact"}
      BY <2>4 DEF StartManualCompaction, AbandonCompaction
    <3> QED BY <1>2, <3>1 DEF IInv, Waits
  <2> QED BY <2>1, <2>2, <2>3, <2>4
<1>7. Heard' BY <1>2, <1>4 DEF IInv, Heard
<1>8. UNCHANGED logVars /\ call # "down" /\ call' # "down" /\ persisted' \in Nat
  BY <1>2, <1>4 DEF logVars, IInv
<1>9. IInv' BY <1>3, <1>5, <1>6, <1>7, <1>8, NothingWritten
<1> QED BY <1>2, <1>4, <1>8, <1>9

(* An entry that replays to nothing moves the place below which is written.  *)
LEMMA CustomKeeps ==
  ASSUME IInv, AppendCustomEntry
  PROVE  /\ messages' = messages /\ UNCHANGED <<persisted, call>> /\ call # "down"
         /\ Replayed(log', lastParent') = Replayed(log, lastParent) /\ Keeps(log, log') /\ IInv'
<1>1. /\ H!TypeOK /\ Placed(log, lastParent) /\ UNCHANGED harnessVars
      /\ messages' = messages /\ persisted' = persisted /\ call' = call /\ call # "down"
      /\ plan' = plan /\ due' = due /\ branch' = branch
  BY DEF IInv, AppendCustomEntry, harnessVars
<1>2. H!TypeOK' BY <1>1, Untouched
<1>3. PICK entries : entries = log OBVIOUS
<1>4. PICK leaf : leaf = lastParent OBVIOUS
<1>5. PICK w : w = log' OBVIOUS
<1>6. PICK last : last = lastParent' OBVIOUS
<1>7. w = L!Appended(entries, L!CustomEntry(leaf))
      /\ last = Len(L!Opened(entries)) + 1 /\ Placed(entries, leaf)
  BY <1>1, <1>3, <1>4, <1>5, <1>6 DEF AppendCustomEntry
<1>8. /\ Placed(w, last) /\ last = LeafOf(w) /\ Keeps(entries, w)
      /\ Replayed(w, last) = Replayed(entries, leaf) /\ w # << >>
  BY <1>7, CustomFacts
<1>9. /\ Placed(log', lastParent') /\ lastParent' = LeafOf(log') /\ Keeps(log, log')
      /\ Replayed(log', lastParent') = Replayed(log, lastParent) /\ log' # << >>
  BY <1>3, <1>4, <1>5, <1>6, <1>8
<1>10. Waits' /\ Heard'
  <2>1. Len(log) <= Len(log') /\ Len(log) \in Nat /\ Len(log') \in Nat
    BY <1>9 DEF IInv, Placed, Keeps, Tree
  <2> QED BY <1>1, <2>1 DEF IInv, Waits, Heard
<1>11. IInv' BY <1>1, <1>2, <1>9, <1>10 DEF IInv
<1> QED BY <1>1, <1>9, <1>11

(* A compaction that is written: the transcript is the log's replay, and the *)
(* prompt that waited for it follows.                                        *)
LEMMA CompactKeeps ==
  ASSUME IInv, Compact
  PROVE  /\ call' \in {"run", "retryStart", "idle"}
         /\ call' # "run" => messages' = Replayed(log', lastParent')
         /\ call' = "run" => /\ Extends(Replayed(log', lastParent'), messages')
                             /\ persisted' = Len(Replayed(log', lastParent'))
         /\ Keeps(log, log') /\ IInv'
<1>1. H!TypeOK /\ Placed(log, lastParent) /\ log # << >> /\ plan \subseteq Nat
  BY DEF IInv, Compact
<1> DEFINE t == L!MessagesOf(L!Rows(log', lastParent'))
<1>2. /\ Placed(log', lastParent') /\ lastParent' = LeafOf(log') /\ Keeps(log, log')
      /\ log' # << >>
  <2>1. PICK entries : entries = log OBVIOUS
  <2>2. PICK leaf : leaf = lastParent OBVIOUS
  <2>3. PICK w : w = log' OBVIOUS
  <2>4. PICK last : last = lastParent' OBVIOUS
  <2>5. PICK ids : ids = plan OBVIOUS
  <2>6. PICK e : e = L!CompactionEntry(leaf, ids) OBVIOUS
  <2>7. Tree(entries) /\ entries # << >> /\ leaf \in 0 .. Len(entries)
    BY <1>1, <2>1, <2>2 DEF Placed, L!Opened
  <2>8. e \in Entry /\ e.type # "leaf" /\ e.parent \in 0 .. Len(entries)
    <3>1. leaf \in Nat BY <2>7 DEF Tree
    <3> QED BY <1>1, <2>5, <2>6, <2>7, <3>1 DEF L!CompactionEntry, Entry
  <2>9. w = L!Appended(entries, e) /\ last = Len(entries) + 1
    BY <2>1, <2>2, <2>3, <2>4, <2>5, <2>6 DEF Compact
  <2>10. Placed(w, last) /\ last = LeafOf(w) /\ Keeps(entries, w) /\ w # << >>
    BY <2>7, <2>8, <2>9, SummaryFacts
  <2> QED BY <2>1, <2>3, <2>4, <2>10
<1>3. t = Replayed(log', lastParent') /\ t \in Seq(H!Messages)
  <2>1. PICK w : w = log' OBVIOUS
  <2>2. PICK last : last = lastParent' OBVIOUS
  <2>3. Placed(w, last) /\ w # << >> BY <1>2, <2>1, <2>2
  <2>4. Replayed(w, last) \in Seq(H!Messages) /\ Replayed(w, last) = L!MessagesOf(L!Rows(w, last))
    BY <2>3, ReplayedTyped
  <2> QED BY <2>1, <2>2, <2>4
<1>4. CASE call = "preCompact"
  <2>1. /\ H!PromptOn(t) /\ persisted' = Len(t) /\ due' = TRUE /\ call' = "run"
        /\ plan' = {} /\ branch' = branch
    BY <1>4 DEF Compact
  <2> HIDE DEF t
  <2>2. PICK x \in Seq(H!Messages) : x = t BY <1>3
  <2>3. H!PromptOn(x) BY <2>1, <2>2
  <2>4. H!TypeOK' /\ Extends(x, messages') BY <1>1, <2>3, PromptTyped
  <2>5. Waits' /\ Heard' BY <1>4, <2>1 DEF IInv, Waits, Heard, Runs
  <2>6. persisted' \in Nat /\ plan' \subseteq Nat BY <2>1, <1>3
  <2>7. Extends(Replayed(log', lastParent'), messages') BY <1>3, <2>2, <2>4
  <2>8. IInv' BY <1>2, <2>4, <2>5, <2>6, <2>7, ReplayKept
  <2> QED BY <1>2, <1>3, <2>1, <2>7, <2>8
<1>5. CASE call # "preCompact"
  <2>1. /\ messages' = t /\ call' = AfterCompaction /\ plan' = {} /\ branch' = branch
        /\ UNCHANGED <<steering, followUp, signal, pc, pending, reply, todo, outcome,
                       turn, issued, submitted>>
        /\ persisted' = persisted /\ due' = due
    BY <1>5 DEF Compact
  <2>2. /\ call' \in {"retryStart", "idle"} /\ call \in Compactions
        /\ call = "manualCompact" => call' = "idle"
    BY <2>1 DEF AfterCompaction, Compact, Compactions
  <2> HIDE DEF t
  <2>3. messages' \in Seq(H!Messages) BY <1>3, <2>1
  <2>4. H!TypeOK' BY <1>1, <2>1, <2>3, ReplacedTyped
  <2>5. Waits' /\ Heard'
    <3>1. Len(log) <= Len(log') /\ Len(log) \in Nat /\ Len(log') \in Nat
      BY <1>1, <1>2 DEF Placed, Keeps, Tree
    <3>2. due = FALSE \/ ~due' BY <2>1, <2>2 DEF IInv, Heard, Runs, Compactions
    <3> QED BY <2>1, <2>2, <3>1, <3>2 DEF IInv, Waits, Heard, Compactions
  <2>6. persisted' \in Nat /\ plan' \subseteq Nat BY <2>1 DEF IInv
  <2>7. Extends(Replayed(log', lastParent'), messages') BY <1>3, <2>1 DEF Extends
  <2>8. IInv' BY <1>2, <2>4, <2>5, <2>6, <2>7, ReplayKept
  <2> QED BY <1>2, <1>3, <2>1, <2>2, <2>8
<1> QED BY <1>4, <1>5

(* A compaction that fails writes nothing; a prompt that waited for it       *)
(* starts on the transcript as it is.                                        *)
LEMMA FailKeeps ==
  ASSUME IInv, CompactionFails
  PROVE  /\ Extends(messages, messages') /\ UNCHANGED logVars
         /\ call \in Compactions
         /\ \/ call' = "run" /\ persisted' = Len(messages)
            \/ call' = "idle" /\ messages' = messages
         /\ IInv'
<1>1. H!TypeOK /\ messages \in Seq(H!Messages) /\ Len(messages) \in Nat
      /\ call \in Compactions /\ call # "down"
  BY DEF IInv, H!TypeOK, CompactionFails, Compactions
<1>2. /\ log' = log /\ lastParent' = lastParent /\ plan' = {} /\ branch' = branch
  BY DEF CompactionFails, logVars
<1>3. /\ H!TypeOK' /\ Extends(messages, messages') /\ Waits' /\ Heard' /\ persisted' \in Nat
      /\ \/ call' = "run" /\ persisted' = Len(messages)
         \/ call' = "idle" /\ messages' = messages
  <2>1. CASE call = "preCompact"
    <3>1. H!Prompt /\ persisted' = Len(messages) /\ due' = TRUE /\ call' = "run"
      BY <2>1 DEF CompactionFails
    <3>2. Waits' /\ Heard' BY <1>2, <2>1, <3>1 DEF IInv, Waits, Heard, Runs
    <3> QED BY <1>1, <3>1, <3>2, PromptKeeps
  <2>2. CASE call # "preCompact"
    <3>1. call' = "idle" /\ UNCHANGED harnessVars /\ persisted' = persisted /\ due' = due
          /\ messages' = messages
      BY <2>2 DEF CompactionFails, harnessVars
    <3>2. Waits' BY <1>2, <3>1 DEF IInv, Waits
    <3>3. Heard' BY <1>1, <3>1 DEF IInv, Heard, Compactions, Runs
    <3>4. persisted' \in Nat BY <3>1 DEF IInv
    <3> QED BY <1>1, <3>1, <3>2, <3>3, <3>4, Untouched
  <2> QED BY <2>1, <2>2
<1>4. UNCHANGED logVars /\ plan' \subseteq Nat /\ call' # "down" /\ call' \notin Compactions
  BY <1>2, <1>3 DEF logVars, Compactions
<1>5. IInv' BY <1>1, <1>3, <1>4, NothingWritten
<1> QED BY <1>1, <1>3, <1>4, <1>5

(* A branch: the transcript is what the new leaf replays to.                 *)
LEMMA ReplaysAt ==
  ASSUME H!TypeOK, NEW leaf, Placed(log', leaf), log' # << >>, ReplayAt(leaf)
  PROVE  /\ H!TypeOK' /\ lastParent' = leaf /\ messages' = Replayed(log', leaf)
         /\ Extends(Replayed(log', leaf), messages')
         /\ UNCHANGED <<persisted, due, call, plan>>
<1>1. PICK w : w = log' OBVIOUS
<1>2. Placed(w, leaf) /\ w # << >> BY <1>1
<1>3. Replayed(w, leaf) \in Seq(H!Messages) /\ Replayed(w, leaf) = L!MessagesOf(L!Rows(w, leaf))
  BY <1>2, ReplayedTyped
<1>4. messages' = Replayed(log', leaf) /\ messages' \in Seq(H!Messages)
  BY <1>1, <1>3 DEF ReplayAt
<1>5. H!TypeOK' BY <1>4, ReplacedTyped DEF ReplayAt
<1>6. Extends(Replayed(log', leaf), messages') BY <1>4 DEF Extends
<1> QED BY <1>4, <1>5, <1>6 DEF ReplayAt

(* A branch, with a summary or without, makes the new leaf's replay the      *)
(* transcript.                                                               *)
LEMMA BranchKeeps ==
  ASSUME IInv, BranchToEntry \/ BranchSummarized
  PROVE  /\ messages' = Replayed(log', lastParent') /\ UNCHANGED <<persisted, call>>
         /\ call \in {"idle", "manualCompact"} /\ Keeps(log, log') /\ IInv'
<1>1. H!TypeOK /\ Placed(log, lastParent) /\ Tree(log) BY DEF IInv, Placed
<1>2. CASE BranchToEntry
  <2>1. PICK n \in DOMAIN log : \E target \in {L!BranchTarget(log, n), n} :
          /\ call = "idle" /\ log' = L!MovedTo(log, target) /\ ReplayAt(target)
    BY <1>2, Zenon DEF BranchToEntry, MayBranchFrom
  <2>a. PICK target \in {L!BranchTarget(log, n), n} :
          /\ call = "idle" /\ log' = L!MovedTo(log, target) /\ ReplayAt(target)
    BY <2>1
  <2>2. PICK entries : entries = log OBVIOUS
  <2>3. PICK w : w = log' OBVIOUS
  <2>4. Tree(entries) /\ n \in 1 .. Len(entries) /\ Len(entries) \in Nat
    BY <1>1, <2>2 DEF Tree
  <2>5. target \in 0 .. Len(entries)
    <3>1. L!BranchTarget(entries, n) \in {entries[n].parent, n} BY DEF L!BranchTarget
    <3>2. entries[n].parent \in 0 .. n - 1 BY <2>4 DEF Tree
    <3> QED BY <2>a, <2>2, <2>4, <3>1, <3>2
  <2>6. w = L!MovedTo(entries, target) BY <2>a, <2>2, <2>3
  <2>7. Placed(w, target) /\ target = LeafOf(w) /\ Keeps(entries, w) /\ w # << >>
    BY <2>4, <2>5, <2>6, LeafMoved
  <2>8. Placed(log', target) /\ target = LeafOf(log') /\ Keeps(log, log') /\ log' # << >>
    BY <2>2, <2>3, <2>7
  <2>9. /\ H!TypeOK' /\ lastParent' = target /\ messages' = Replayed(log', target)
        /\ Extends(Replayed(log', target), messages')
        /\ UNCHANGED <<persisted, due, call, plan>>
    BY <1>1, <2>a, <2>8, ReplaysAt
  <2>10. Waits' /\ Heard'
    <3>1. Len(log) <= Len(log') /\ Len(log) \in Nat /\ Len(log') \in Nat
      <4>1. Tree(log') BY <2>8 DEF Placed
      <4> QED BY <1>1, <2>8, <4>1 DEF Keeps, Tree
    <3>2. branch' = IF branch = NoBranch THEN branch ELSE [branch EXCEPT !.overtaken = TRUE]
      BY <1>2 DEF BranchToEntry
    <3>3. Waits'
      <4>1. CASE branch = NoBranch BY <3>2, <4>1 DEF Waits
      <4>2. CASE branch # NoBranch
        <5>1. branch.from \in 1 .. Len(log) /\ "from" \in DOMAIN branch
          BY <4>2 DEF IInv, Waits
        <5>2. branch' = [branch EXCEPT !.overtaken = TRUE] BY <3>2, <4>2
        <5>3. branch'.from \in 1 .. Len(log) /\ "from" \in DOMAIN branch' BY <5>1, <5>2
        <5> QED BY <2>a, <2>9, <3>1, <5>3 DEF Waits
      <4> QED BY <4>1, <4>2
    <3> QED BY <2>9, <3>3 DEF IInv, Heard
  <2>11. persisted' \in Nat /\ plan' \subseteq Nat BY <2>9 DEF IInv
  <2>12. IInv' BY <2>8, <2>9, <2>10, <2>11, ReplayKept
  <2> QED BY <2>a, <2>8, <2>9, <2>12
<1>3. CASE BranchSummarized
  <2>1. /\ branch # NoBranch /\ log' = Summarized /\ ReplayAt(Len(log) + 1)
        /\ branch' = NoBranch
    BY <1>3 DEF BranchSummarized
  <2>2. branch.from \in 1 .. Len(log) /\ call \in {"idle", "manualCompact"}
    BY <2>1 DEF IInv, Waits
  <2>3. PICK entries : entries = log OBVIOUS
  <2>4. PICK w : w = log' OBVIOUS
  <2>5. PICK from : from = branch.from OBVIOUS
  <2>6. PICK e : e = L!BranchSummaryEntry(from) OBVIOUS
  <2>7. PICK last : last = Len(entries) + 1 OBVIOUS
  <2>8. Tree(entries) /\ from \in 1 .. Len(entries) /\ Len(entries) \in Nat /\ entries # << >>
    <3>1. Tree(entries) /\ from \in 1 .. Len(entries) BY <1>1, <2>2, <2>3, <2>5
    <3> QED BY <3>1 DEF Tree
  <2>9. e \in Entry /\ e.type # "leaf" /\ e.parent \in 0 .. Len(entries)
    BY <2>6, <2>8 DEF L!BranchSummaryEntry, Entry
  <2>10. w = L!Appended(entries, e)
    BY <2>1, <2>3, <2>4, <2>5, <2>6 DEF Summarized
  <2>11. Placed(w, last) /\ last = LeafOf(w) /\ Keeps(entries, w) /\ w # << >>
    BY <2>7, <2>8, <2>9, <2>10, SummaryFacts
  <2>12. Placed(log', last) /\ last = LeafOf(log') /\ Keeps(log, log') /\ log' # << >>
    BY <2>3, <2>4, <2>11
  <2>13. ReplayAt(last) BY <2>1, <2>3, <2>7
  <2>14. /\ H!TypeOK' /\ lastParent' = last /\ messages' = Replayed(log', last)
         /\ Extends(Replayed(log', last), messages')
         /\ UNCHANGED <<persisted, due, call, plan>>
    BY <1>1, <2>12, <2>13, ReplaysAt
  <2>15. Waits' /\ Heard' BY <2>1, <2>14 DEF IInv, Waits, Heard
  <2>16. persisted' \in Nat /\ plan' \subseteq Nat BY <2>14 DEF IInv
  <2>17. IInv' BY <2>12, <2>14, <2>15, <2>16, ReplayKept
  <2> QED BY <2>2, <2>12, <2>14, <2>17
<1> QED BY <1>2, <1>3

(* What a write in progress would leave is a log that kept what was there.   *)
LEMMA NextLogsKeep ==
  ASSUME IInv, call # "down", log # << >>, NEW next \in NextLogs
  PROVE  Tree(next) /\ Keeps(log, next)
<1>1. Tree(log) /\ Placed(log, lastParent) /\ lastParent = LeafOf(log) /\ plan \subseteq Nat
      /\ messages \in Seq(H!Messages) /\ persisted \in Nat
  BY DEF IInv, Placed, H!TypeOK
<1>2. PICK entries : entries = log OBVIOUS
<1>3. PICK leaf : leaf = lastParent OBVIOUS
<1>4. Tree(entries) /\ entries # << >> /\ Placed(entries, leaf) /\ leaf = LeafOf(entries)
      /\ leaf \in 0 .. Len(entries) /\ leaf \in Nat
  <2>1. Tree(entries) /\ entries # << >> /\ Placed(entries, leaf) /\ leaf = LeafOf(entries)
    BY <1>1, <1>2, <1>3
  <2>2. leaf \in 0 .. Len(entries) BY <2>1 DEF Placed, L!Opened
  <2> QED BY <2>1, <2>2 DEF Tree
<1>5. CASE next = log
  <2>1. Len(log) \in Nat BY <1>1 DEF Tree
  <2> QED BY <1>1, <1>5, <2>1 DEF Keeps
<1>6. CASE next = L!WithMessages(log, lastParent, Unwritten(messages, persisted))
  <2>1. PICK msgs \in Seq(H!Messages) : msgs = messages BY <1>1
  <2>2. PICK count \in Nat : count = persisted BY <1>1
  <2>3. PICK u : u = Unwritten(msgs, count) OBVIOUS
  <2>4. u \in Seq(H!Messages) BY <2>3, UnwrittenFacts
  <2>5. PICK last : last = IF u = << >> THEN leaf ELSE L!LastMessageId(entries, u) OBVIOUS
  <2>6. next = L!WithMessages(entries, leaf, u) BY <1>2, <1>3, <1>6, <2>1, <2>2, <2>3, Zenon
  <2>7. Below(entries, leaf, u, next, last) BY <1>4, <2>4, <2>5, <2>6, PersistFacts, Zenon
  <2> QED BY <1>2, <2>7 DEF Below, Placed
<1>7. CASE next = L!Appended(log, L!CompactionEntry(lastParent, plan))
  <2>1. PICK ids : ids = plan OBVIOUS
  <2>2. PICK e : e = L!CompactionEntry(leaf, ids) OBVIOUS
  <2>3. PICK last : last = Len(entries) + 1 OBVIOUS
  <2>4. e \in Entry /\ e.type # "leaf" /\ e.parent \in 0 .. Len(entries)
    BY <1>1, <1>4, <2>1, <2>2 DEF L!CompactionEntry, Entry
  <2>5. next = L!Appended(entries, e) BY <1>2, <1>3, <1>7, <2>1, <2>2, Zenon
  <2>6. Placed(next, last) /\ Keeps(entries, next) BY <1>4, <2>3, <2>4, <2>5, SummaryFacts
  <2> QED BY <1>2, <2>6 DEF Placed
<1>8. CASE branch # NoBranch /\ next = Summarized
  <2>1. branch.from \in 1 .. Len(log) BY <1>8 DEF IInv, Waits
  <2>2. PICK from : from = branch.from OBVIOUS
  <2>3. PICK e : e = L!BranchSummaryEntry(from) OBVIOUS
  <2>4. PICK last : last = Len(entries) + 1 OBVIOUS
  <2>5. e \in Entry /\ e.type # "leaf" /\ e.parent \in 0 .. Len(entries)
    <3>1. from \in 1 .. Len(entries) /\ Len(entries) \in Nat
      BY <1>2, <1>4, <2>1, <2>2 DEF Tree
    <3> QED BY <2>3, <3>1 DEF L!BranchSummaryEntry, Entry
  <2>6. next = L!Appended(entries, e) BY <1>2, <1>8, <2>2, <2>3, Zenon DEF Summarized
  <2>7. Placed(next, last) /\ Keeps(entries, next) BY <1>4, <2>4, <2>5, <2>6, SummaryFacts
  <2> QED BY <1>2, <2>7 DEF Placed
<1> QED BY <1>5, <1>6, <1>7, <1>8 DEF NextLogs

(* A process that dies leaves a log that can be read.                        *)
LEMMA DieKeeps ==
  ASSUME IInv, Die
  PROVE  call' = "down" /\ IInv'
<1>1. /\ H!TypeOK /\ call # "down" /\ log # << >> /\ lastParent' = 1 /\ call' = "down"
      /\ persisted' = 0 /\ plan' = {} /\ due' = FALSE /\ branch' = NoBranch
  BY DEF IInv, Die
<1>2. H!TypeOK'
  <2>1. << >> \in Seq(H!Messages) /\ << >> \in Seq(H!UserMessages) /\ << >> \in Seq(H!CallIds)
    OBVIOUS
  <2> QED BY <1>1, <2>1, ErrorTyped DEF Die, H!TypeOK, H!PCs, H!Outcomes
<1>3. Placed(log', 1) /\ log' # << >>
  <2>0. PICK next \in NextLogs : \E n \in Len(log) .. Len(next) : log' = SubSeq(next, 1, n)
    BY DEF Die
  <2>1. PICK n \in Len(log) .. Len(next) : log' = SubSeq(next, 1, n)
    BY <2>0
  <2>2. Tree(next) /\ Keeps(log, next) BY <1>1, <2>0, NextLogsKeep
  <2>3. PICK entries : entries = log OBVIOUS
  <2>4. PICK v : v = log' OBVIOUS
  <2>5. PICK w : w = next OBVIOUS
  <2>6. /\ Tree(entries) /\ entries # << >> /\ Tree(w) /\ Keeps(entries, w)
        /\ n \in Len(entries) .. Len(w) /\ v = SubSeq(w, 1, n)
    BY <1>1, <2>1, <2>2, <2>3, <2>4, <2>5 DEF IInv, Placed
  <2>7. Placed(v, 1) /\ v # << >> BY <2>6, CutFacts
  <2> QED BY <2>4, <2>7
<1>4. Waits' /\ Heard' BY <1>1 DEF Waits, Heard
<1> QED BY <1>1, <1>2, <1>3, <1>4 DEF IInv

(* What a load makes of the log.                                             *)
LEMMA LoadedLog ==
  ASSUME NEW entries, Tree(entries), entries # << >>,
         NEW w, w = L!Repair(entries, L!ActiveLeaf(entries))
  PROVE  /\ Placed(w, L!ActiveLeaf(w)) /\ L!ActiveLeaf(w) = LeafOf(w) /\ Keeps(entries, w)
         /\ w # << >>
<1>1. PICK leaf \in 0 .. Len(entries) : leaf = L!ActiveLeaf(entries) BY LeafThere
<1>2. w = L!Repair(entries, leaf) BY <1>1
<1>3. /\ Tree(w) /\ Len(entries) <= Len(w) /\ \A i \in 1 .. Len(entries) : w[i] = entries[i]
  BY <1>2, RepairKeepsLog
<1>4. w # << >> BY <1>3 DEF Tree
<1>5. L!ActiveLeaf(w) \in 0 .. Len(w) BY <1>3, LeafThere
<1> QED BY <1>3, <1>4, <1>5 DEF Placed, LeafOf, Keeps, L!Opened

(* A load repairs the log, and replays it.                                   *)
LEMMA LoadKeeps ==
  ASSUME IInv, Load
  PROVE  /\ messages' = Replayed(log', lastParent') /\ call' = "idle" /\ Keeps(log, log')
         /\ IInv'
<1>1. /\ H!TypeOK /\ call = "down" /\ log # << >> /\ call' = "idle"
      /\ persisted' = persisted /\ plan' = plan /\ due' = due /\ branch' = branch
  BY DEF IInv, Load
<1>2. /\ Placed(log', lastParent') /\ lastParent' = LeafOf(log') /\ Keeps(log, log')
      /\ log' # << >>
  <2>1. PICK entries : entries = log OBVIOUS
  <2>2. PICK w : w = log' OBVIOUS
  <2>3. Tree(entries) /\ entries # << >> /\ w = L!Repair(entries, L!ActiveLeaf(entries))
    BY <1>1, <2>1, <2>2 DEF IInv, Placed, Load
  <2>4. /\ Placed(w, L!ActiveLeaf(w)) /\ L!ActiveLeaf(w) = LeafOf(w) /\ Keeps(entries, w)
        /\ w # << >>
    BY <2>3, LoadedLog
  <2>5. lastParent' = L!ActiveLeaf(w) BY <2>2 DEF Load
  <2> QED BY <2>1, <2>2, <2>4, <2>5
<1>3. /\ messages' = Replayed(log', lastParent') /\ messages' \in Seq(H!Messages)
  <2>1. PICK w : w = log' OBVIOUS
  <2>2. PICK last : last = lastParent' OBVIOUS
  <2>3. Placed(w, last) /\ w # << >> BY <1>2, <2>1, <2>2
  <2>4. Replayed(w, last) \in Seq(H!Messages) /\ Replayed(w, last) = L!MessagesOf(L!Rows(w, last))
    BY <2>3, ReplayedTyped
  <2> QED BY <2>1, <2>2, <2>4 DEF Load
<1>4. H!TypeOK' BY <1>1, <1>3, ReplacedTyped DEF Load
<1>5. Waits' /\ Heard' BY <1>1 DEF IInv, Waits, Heard, Runs
<1>6. persisted' \in Nat /\ plan' \subseteq Nat BY <1>1 DEF IInv
<1>7. Extends(Replayed(log', lastParent'), messages') BY <1>3 DEF Extends
<1>8. IInv' BY <1>2, <1>4, <1>5, <1>6, <1>7, ReplayKept
<1> QED BY <1>1, <1>2, <1>3, <1>8

(* So does one that dies while it repairs.                                   *)
LEMMA DieLoadingKeeps ==
  ASSUME IInv, DieLoading
  PROVE  call' = "down" /\ Keeps(log, log') /\ IInv'
<1>1. /\ H!TypeOK /\ call = "down" /\ log # << >> /\ call' = call /\ lastParent' = lastParent
      /\ UNCHANGED harnessVars
      /\ persisted' = persisted /\ plan' = plan /\ due' = due /\ branch' = branch
  BY DEF IInv, DieLoading
<1>2. H!TypeOK' BY <1>1, Untouched
<1>3. Placed(log', lastParent') /\ log' # << >> /\ Keeps(log, log')
  <2>1. PICK entries : entries = log OBVIOUS
  <2>2. PICK v : v = log' OBVIOUS
  <2>3. PICK w : w = L!Repair(entries, L!ActiveLeaf(entries)) OBVIOUS
  <2>4. PICK n \in Len(entries) + 1 .. Len(w) : v = SubSeq(w, 1, n)
    BY <2>1, <2>2, <2>3 DEF DieLoading
  <2>5. Tree(entries) /\ entries # << >> BY <1>1, <2>1 DEF IInv, Placed
  <2>6. Tree(w) /\ Keeps(entries, w) BY <2>3, <2>5, LoadedLog DEF Placed
  <2>7. n \in Len(entries) .. Len(w) BY <2>4, <2>5 DEF Tree
  <2>8. Placed(v, 1) /\ v # << >> /\ Keeps(entries, v)
    BY <2>4, <2>5, <2>6, <2>7, CutFacts
  <2>9. Placed(v, lastParent)
    <3>1. lastParent \in 0 .. Len(entries)
      BY <1>1, <2>1 DEF IInv, Placed, L!Opened
    <3>2. Len(entries) <= Len(v) /\ Len(v) \in Nat /\ Len(entries) \in Nat /\ L!Opened(v) = v
      BY <2>5, <2>8 DEF Keeps, Placed, Tree, L!Opened
    <3> QED BY <2>8, <3>1, <3>2 DEF Placed
  <2> QED BY <1>1, <2>1, <2>2, <2>8, <2>9
<1>4. Waits' /\ Heard' BY <1>1 DEF IInv, Waits, Heard, Runs
<1> QED BY <1>1, <1>2, <1>3, <1>4 DEF IInv

(* Every step of the session, its user and its process.                      *)
LEMMA StepInvariant == IInv /\ [Next]_vars => IInv'
<1> SUFFICES ASSUME IInv, [Next]_vars PROVE IInv'
  OBVIOUS
<1>1. CASE SendPrompt \/ SendContinue \/ RunStep \/ RetryRun \/ Abandon
  BY <1>1, RunKeeps
<1>2. CASE HandleMessageEnd
  BY <1>2, HandleKeeps
<1>3. CASE FinishRun
  BY <1>3, FinishKeeps
<1>4. CASE Queue \/ Cancel
  BY <1>4, CallerKeeps
<1>5. CASE TerminalCommand
  BY <1>5, TerminalKeeps
<1>6. CASE OverflowCompaction \/ StartPreCompaction \/ StartManualCompaction
           \/ AbandonCompaction \/ StartBranchSummary
  BY <1>6, CallKeeps
<1>7. CASE AppendCustomEntry
  BY <1>7, CustomKeeps
<1>8. CASE Compact
  BY <1>8, CompactKeeps
<1>9. CASE CompactionFails
  BY <1>9, FailKeeps
<1>10. CASE BranchToEntry \/ BranchSummarized
  BY <1>10, BranchKeeps
<1>11. CASE Die \/ Load \/ DieLoading
  BY <1>11, DieKeeps, LoadKeeps, DieLoadingKeeps
<1>12. CASE UNCHANGED vars
  BY <1>12 DEF vars, harnessVars, logVars, IInv, H!TypeOK, Waits, Heard
<1> QED
  BY <1>1, <1>2, <1>3, <1>4, <1>5, <1>6, <1>7, <1>8, <1>9, <1>10, <1>11, <1>12
     DEF Next, Progress, Teardown, User, Restart

(* The invariant, for any session.                                           *)
LEMMA InvariantHolds == Spec => []IInv
BY InitInvariant, StepInvariant, PTL DEF Spec

-----------------------------------------------------------------------------
(* The types: with the invariant, that the session is in a run exactly while *)
(* the harness is, and that a plan names entries there are.                  *)
TInv ==
  /\ IInv
  /\ due \in BOOLEAN /\ call \in Calls
  /\ call \in Runs <=> pc # "idle"
  /\ plan \subseteq 1 .. Len(log)

(* A plan names entries there are, whatever is added after them.             *)
LEMMA PlanStands ==
  ASSUME TInv, IInv', Keeps(log, log'), plan' \in {plan, {}}
  PROVE  plan' \subseteq 1 .. Len(log')
<1>1. Len(log) \in Nat /\ Len(log') \in Nat
  BY DEF TInv, IInv, Placed, Tree
<1> QED BY <1>1 DEF TInv, Keeps

(* A step of a run is not its end.                                           *)
LEMMA StaysInRun ==
  ASSUME H!TypeOK,
         \/ H!LeaveStart \/ H!LeaveTurnStart \/ H!ProviderEnds \/ H!LeaveAssistantEnd
         \/ H!ToolRefused \/ H!ToolRuns \/ H!ToolReturns \/ H!LeaveToolEnd \/ H!LeaveTurnEnd
  PROVE  pc' # "idle"
BY DEF H!LeaveStart, H!LeaveTurnStart, H!TurnBody, H!ProviderEnds, H!LeaveAssistantEnd,
       H!ToolRefused, H!ToolRuns, H!ToolReturns, H!LeaveToolEnd, H!LeaveTurnEnd

(* Every step keeps them.                                                    *)
LEMMA StepTypes == TInv /\ [Next]_vars => TInv'
<1> SUFFICES ASSUME TInv, [Next]_vars PROVE TInv'
  OBVIOUS
<1>0. IInv /\ IInv' BY StepInvariant DEF TInv
<1>a. UNCHANGED logVars => Keeps(log, log')
  <2>1. Len(log) \in Nat BY <1>0 DEF IInv, Placed, Tree
  <2> QED BY <2>1 DEF logVars, Keeps
<1> USE DEF Runs, Calls, Compactions
<1>1. CASE SendPrompt \/ SendContinue \/ RetryRun
  <2>1. pc' = "start" /\ call' \in Runs /\ due' \in BOOLEAN /\ plan' = plan /\ UNCHANGED logVars
    BY <1>1 DEF SendPrompt, SendContinue, RetryRun, H!Prompt, H!PromptOn, H!Continue, H!Resume,
                TInv
  <2> QED BY <1>0, <1>a, <2>1, PlanStands DEF TInv
<1>2. CASE RunStep
  <2>1. pc' # "idle" BY <1>0, <1>2, StaysInRun DEF RunStep, IInv
  <2>2. call' = call /\ call \in Runs /\ plan' = plan /\ UNCHANGED logVars
        /\ due' \in BOOLEAN
    BY <1>2 DEF RunStep, EndsMessage
  <2> QED BY <1>0, <1>a, <2>1, <2>2, PlanStands DEF TInv
<1>3. CASE Abandon
  <2>1. pc' = "idle" /\ call' = "idle" /\ due' = FALSE /\ plan' = plan /\ UNCHANGED logVars
    BY <1>3 DEF Abandon, H!Close, H!Finally
  <2> QED BY <1>0, <1>a, <2>1, PlanStands DEF TInv
<1>4. CASE HandleMessageEnd
  <2>1. Keeps(log, log') BY <1>0, <1>4, HandleKeeps DEF Below
  <2>2. pc' = pc /\ call' = call /\ due' = FALSE /\ plan' = plan
    BY <1>4 DEF HandleMessageEnd, harnessVars
  <2> QED BY <1>0, <2>1, <2>2, PlanStands DEF TInv
<1>5. CASE FinishRun
  <2>1. Keeps(log, log') /\ Placed(log', lastParent')
    BY <1>0, <1>5, FinishKeeps DEF Below
  <2>2. /\ pc' = "idle" /\ call' \in {"idle", "overflow", "postCompact"} /\ due' = due
        /\ plan' = plan \/ plan' \in L!CompactionPlans(RowsOf(log', lastParent'))
    BY <1>5 DEF FinishRun, H!Finish, H!Finally
  <2>3. plan' \subseteq 1 .. Len(log')
    <3>1. CASE plan' = plan BY <1>0, <2>1, <3>1, PlanStands
    <3>2. CASE plan' \in L!CompactionPlans(RowsOf(log', lastParent'))
      <4>1. PICK entries : entries = log' OBVIOUS
      <4>2. PICK leaf : leaf = lastParent' OBVIOUS
      <4>3. PICK p : p = plan' OBVIOUS
      <4>4. Placed(entries, leaf) /\ p \in L!CompactionPlans(RowsOf(entries, leaf))
        BY <2>1, <3>2, <4>1, <4>2, <4>3
      <4>5. p \subseteq 1 .. Len(entries) BY <4>4, PlanFacts
      <4> QED BY <4>1, <4>3, <4>5
    <3> QED BY <2>2, <3>1, <3>2
  <2> QED BY <1>0, <2>2, <2>3 DEF TInv
<1>6. CASE Queue \/ Cancel
  <2>1. pc' = pc /\ call' = call /\ due' = due /\ plan' = plan /\ UNCHANGED logVars
    BY <1>6 DEF Queue, Cancel, H!Steer, H!FollowUp, H!Cancel, H!runVars
  <2> QED BY <1>0, <1>a, <2>1, PlanStands DEF TInv
<1>7. CASE TerminalCommand
  <2>1. Keeps(log, log') BY <1>0, <1>7, TerminalKeeps DEF Below
  <2>2. pc' = pc /\ call' = call /\ due' = due /\ plan' = plan
    BY <1>7 DEF TerminalCommand, H!AppendMessage, H!runVars
  <2> QED BY <1>0, <2>1, <2>2, PlanStands DEF TInv
<1>8. CASE OverflowCompaction \/ StartPreCompaction \/ StartManualCompaction
           \/ AbandonCompaction \/ StartBranchSummary
  <2>1. /\ UNCHANGED logVars /\ pc' = pc /\ due' = due
        /\ call \in {"idle", "overflow", "retryStart"} \cup Compactions
        /\ call' \in {"idle"} \cup Compactions
        /\ \/ plan' \in {plan, {}} \/ plan' \in L!CompactionPlans(ActiveRows)
           \/ plan' = {ActiveRows[i].id : i \in DOMAIN ActiveRows}
    BY <1>8 DEF OverflowCompaction, StartPreCompaction, StartManualCompaction, AbandonCompaction,
                StartBranchSummary, MayBranchFrom, harnessVars
  <2>2. plan' \subseteq 1 .. Len(log')
    <3>1. Placed(log, lastParent) /\ log' = log BY <1>0, <2>1 DEF IInv, logVars
    <3>2. CASE plan' \in {plan, {}} BY <1>0, <1>a, <2>1, <3>2, PlanStands
    <3>3. CASE plan' \in L!CompactionPlans(ActiveRows)
      <4>1. PICK p : p = plan' OBVIOUS
      <4>2. p \in L!CompactionPlans(RowsOf(log, lastParent)) BY <3>3, <4>1 DEF ActiveRows
      <4>3. p \subseteq 1 .. Len(log) BY <3>1, <4>2, PlanNeedsLog
      <4> QED BY <3>1, <4>1, <4>3
    <3>4. CASE plan' = {ActiveRows[i].id : i \in DOMAIN ActiveRows}
      <4>1. PICK entries : entries = log OBVIOUS
      <4>2. PICK leaf : leaf = lastParent OBVIOUS
      <4>3. \A i \in DOMAIN RowsOf(entries, leaf) :
              RowsOf(entries, leaf)[i].id \in 1 .. Len(entries)
        BY <3>1, <4>1, <4>2, PlanFacts
      <4>4. \A i \in DOMAIN ActiveRows : ActiveRows[i].id \in 1 .. Len(log)
        BY <4>1, <4>2, <4>3 DEF ActiveRows
      <4> QED BY <3>1, <3>4, <4>4
    <3> QED BY <2>1, <3>2, <3>3, <3>4
  <2> QED BY <1>0, <2>1, <2>2 DEF TInv
<1>9. CASE AppendCustomEntry
  <2>1. Keeps(log, log') BY <1>0, <1>9, CustomKeeps
  <2>2. pc' = pc /\ call' = call /\ due' = due /\ plan' = plan
    BY <1>9 DEF AppendCustomEntry, harnessVars
  <2> QED BY <1>0, <2>1, <2>2, PlanStands DEF TInv
<1>10. CASE Compact
  <2>1. plan' = {} BY <1>10 DEF Compact
  <2>2. CASE call = "preCompact"
    <3>1. pc' = "start" /\ call' = "run" /\ due' = TRUE
      BY <1>10, <2>2 DEF Compact, H!PromptOn
    <3> QED BY <1>0, <2>1, <3>1 DEF TInv
  <2>3. CASE call # "preCompact"
    <3>1. pc' = pc /\ call' \in {"retryStart", "idle"} /\ due' = due /\ call \in Compactions
      BY <1>10, <2>3 DEF Compact, AfterCompaction
    <3> QED BY <1>0, <2>1, <3>1 DEF TInv
  <2> QED BY <2>2, <2>3
<1>11. CASE CompactionFails
  <2>1. /\ plan' = {} /\ call \in Compactions
        /\ \/ pc' = "start" /\ call' = "run" /\ due' = TRUE
           \/ pc' = pc /\ call' = "idle" /\ due' = due
    BY <1>11 DEF CompactionFails, H!Prompt, H!PromptOn, harnessVars
  <2> QED BY <1>0, <2>1 DEF TInv
<1>12. CASE BranchToEntry \/ BranchSummarized
  <2>1. Keeps(log, log') BY <1>0, <1>12, BranchKeeps
  <2>2. pc' = pc /\ call' = call /\ due' = due /\ plan' = plan
    BY <1>12 DEF BranchToEntry, BranchSummarized, ReplayAt
  <2> QED BY <1>0, <2>1, <2>2, PlanStands DEF TInv
<1>13. CASE Die
  <2>1. pc' = "idle" /\ call' = "down" /\ due' = FALSE /\ plan' = {} BY <1>13 DEF Die
  <2> QED BY <1>0, <2>1 DEF TInv
<1>14. CASE Load
  <2>1. Keeps(log, log') BY <1>0, <1>14, LoadKeeps
  <2>2. pc' = pc /\ call = "down" /\ call' = "idle" /\ due' = due /\ plan' = plan
    BY <1>14 DEF Load
  <2> QED BY <1>0, <2>1, <2>2, PlanStands DEF TInv
<1>15. CASE DieLoading
  <2>1. Keeps(log, log') BY <1>0, <1>15, DieLoadingKeeps
  <2>2. pc' = pc /\ call' = call /\ due' = due /\ plan' = plan
    BY <1>15 DEF DieLoading, harnessVars
  <2> QED BY <1>0, <2>1, <2>2, PlanStands DEF TInv
<1>16. CASE UNCHANGED vars
  BY <1>0, <1>16 DEF vars, harnessVars, logVars, TInv
<1> QED
  BY <1>1, <1>2, <1>3, <1>4, <1>5, <1>6, <1>7, <1>8, <1>9, <1>10, <1>11, <1>12, <1>13, <1>14,
     <1>15, <1>16
     DEF Next, Progress, Teardown, User, Restart

(* TypeOK: every variable has its type, every entry is below an earlier one, *)
(* a compaction replaces entries there are, and the session is in a run      *)
(* exactly while the harness is.                                             *)
THEOREM TypeCorrect == Spec => []TypeOK
<1>1. Init => TInv
  <2> SUFFICES ASSUME Init PROVE TInv
    OBVIOUS
  <2>1. log = << >> /\ pc = "idle" /\ due = FALSE /\ call = "idle" /\ plan = {}
    BY DEF Init, H!Init
  <2> QED BY <2>1, InitInvariant DEF TInv, Calls, Runs, Compactions
<1>2. TInv => TypeOK
  <2> SUFFICES ASSUME TInv PROVE TypeOK
    OBVIOUS
  <2>1. IInv /\ Tree(log) BY DEF TInv, IInv, Placed
  <2>2. DOMAIN log = 1 .. Len(log) BY <2>1 DEF Tree
  <2>3. lastParent \in Nat
    <3>1. PICK entries : entries = log OBVIOUS
    <3>2. Tree(entries) /\ lastParent \in 0 .. Len(L!Opened(entries))
      BY <2>1, <3>1 DEF IInv, Placed
    <3>3. Len(L!Opened(entries)) \in Nat BY <3>2, OpenedFacts
    <3> QED BY <3>2, <3>3
  <2> QED BY <2>1, <2>2, <2>3 DEF TInv, TypeOK, IInv, Heard, Tree
<1> QED BY <1>1, <1>2, StepTypes, PTL DEF Spec

-----------------------------------------------------------------------------
(* LeafIsLive: wherever the session stands, it writes below the very entry   *)
(* from which a load of the log would go on, for logs, transcripts and runs  *)
(* of any length, whatever was appended, compacted, branched, torn or        *)
(* repaired.                                                                 *)
THEOREM LeafIsAlwaysLive == Spec => []LeafIsLive
<1>1. IInv => LeafIsLive
  BY DEF IInv, LeafIsLive, LeafOf
<1> QED BY <1>1, InvariantHolds, PTL

(* DurableIsLive: nothing is written that the user's transcript lacks.       *)
THEOREM DurableIsAlwaysLive == Spec => []DurableIsLive
<1>1. IInv => DurableIsLive
  BY DEF IInv, DurableIsLive, DurableMessages, ActiveRows, Replayed
<1> QED BY <1>1, InvariantHolds, PTL

-----------------------------------------------------------------------------
(* What has been written.  While no run is torn down the session has written *)
(* the first Written messages: it counts them while it runs, and they are    *)
(* all there otherwise.                                                      *)
Written == IF call \in Runs THEN persisted ELSE Len(messages)

(* The first `count` messages of a transcript are among those replayed ...   *)
Covered(msgs, count, rows) ==
  count <= Len(msgs) /\ \A i \in 1 .. count : msgs[i] \in MessageSet(rows)

(* ... and they are those replayed.                                          *)
Exactly(msgs, count, rows) == Len(rows) = count /\ Extends(rows, msgs)

(* No terminal command has written its output to the log.                    *)
NoAppend(entries) ==
  ~\E n \in DOMAIN entries : /\ entries[n].type = "message" /\ entries[n].message.role = "user"
                             /\ entries[n].message.via = "append"

(* The invariant of a session whose runs are read to their end.              *)
WInv ==
  /\ IInv
  /\ call # "down" => /\ Covered(messages, Written, Replayed(log, lastParent))
                      /\ NoAppend(log) => Exactly(messages, Written, Replayed(log, lastParent))

(* A transcript that grew still begins with what was written of it.          *)
LEMMA CoveredGrows ==
  ASSUME NEW a \in Seq(H!Messages), NEW b, Extends(a, b), NEW count \in Nat,
         NEW rows, Covered(a, count, rows), NEW more, MessageSet(rows) \subseteq MessageSet(more)
  PROVE  Covered(b, count, more)
<1>1. Len(a) \in Nat /\ Len(b) \in Nat /\ count <= Len(a) /\ Len(a) <= Len(b)
  BY DEF Extends, Covered
<1>2. ASSUME NEW i \in 1 .. count PROVE b[i] \in MessageSet(more)
  <2>1. i \in 1 .. Len(a) BY <1>1
  <2> QED BY <2>1 DEF Extends, Covered
<1> QED BY <1>1, <1>2 DEF Covered

(* What replays as it was written covers what it replays to.                 *)
LEMMA ExactlyCovers ==
  ASSUME NEW msgs, NEW rows \in Seq(H!Messages), NEW count, Exactly(msgs, count, rows)
  PROVE  Covered(msgs, count, rows)
<1>1. DOMAIN rows = 1 .. Len(rows) /\ Len(rows) \in Nat OBVIOUS
<1>2. \A i \in 1 .. Len(rows) : msgs[i] = rows[i] BY DEF Exactly, Extends
<1>3. count = Len(rows) /\ Len(rows) <= Len(msgs) BY DEF Exactly, Extends
<1> QED BY <1>1, <1>2, <1>3 DEF Covered, MessageSet

(* ... in its order, if it was.                                              *)
LEMMA ExactlyGrows ==
  ASSUME NEW a \in Seq(H!Messages), NEW b, Extends(a, b), NEW rows \in Seq(H!Messages),
         NEW count, Exactly(a, count, rows)
  PROVE  Exactly(b, count, rows)
<1>1. Len(a) \in Nat /\ Len(b) \in Nat /\ Len(rows) \in Nat BY DEF Extends
<1>2. Len(rows) <= Len(a) /\ \A i \in 1 .. Len(rows) : a[i] = rows[i]
  BY DEF Exactly, Extends
<1>3. ASSUME NEW i \in 1 .. Len(rows) PROVE b[i] = rows[i]
  <2>1. i \in 1 .. Len(a) BY <1>1, <1>2
  <2>2. b[i] = a[i] BY <2>1 DEF Extends
  <2> QED BY <1>2, <2>2
<1>4. b \in Seq(H!Messages) /\ Len(a) <= Len(b) /\ Len(rows) = count BY DEF Extends, Exactly
<1>5. Len(rows) <= Len(b) BY <1>1, <1>2, <1>4
<1> QED BY <1>3, <1>4, <1>5 DEF Exactly, Extends

(* When all replayed is all there is, the two are one transcript.            *)
LEMMA ExactlyAll ==
  ASSUME NEW msgs \in Seq(H!Messages), NEW rows \in Seq(H!Messages),
         Exactly(msgs, Len(msgs), rows)
  PROVE  rows = msgs
<1>1. Len(rows) = Len(msgs) /\ Len(msgs) \in Nat BY DEF Exactly
<1>2. \A i \in 1 .. Len(msgs) : rows[i] = msgs[i] BY <1>1 DEF Exactly, Extends
<1> QED BY <1>1, <1>2, SeqEqual

(* After the rest was written everything is.                                 *)
LEMMA CoveredWritten ==
  ASSUME NEW msgs \in Seq(H!Messages), NEW count \in Nat, NEW rows \in Seq(H!Messages),
         Covered(msgs, count, rows), NEW more, more = rows \o Unwritten(msgs, count)
  PROVE  Covered(msgs, Len(msgs), more)
<1>1. PICK u : u = Unwritten(msgs, count) OBVIOUS
<1>2. u \in Seq(H!Messages) /\ MessageSet(u) = {msgs[i] : i \in count + 1 .. Len(msgs)}
  BY <1>1, UnwrittenFacts
<1>3. MessageSet(more) = MessageSet(rows) \union MessageSet(u) BY <1>1, <1>2, SetOfBoth
<1>4. ASSUME NEW i \in 1 .. Len(msgs) PROVE msgs[i] \in MessageSet(more)
  <2>1. CASE i <= count
    <3>1. i \in 1 .. count BY <2>1
    <3> QED BY <1>3, <3>1 DEF Covered
  <2>2. CASE ~(i <= count)
    <3>1. i \in count + 1 .. Len(msgs) BY <2>2
    <3> QED BY <1>2, <1>3, <3>1
  <2> QED BY <2>1, <2>2
<1> QED BY <1>4 DEF Covered

(* ... and in its order, if what was written before was.                     *)
LEMMA ExactlyWritten ==
  ASSUME NEW msgs \in Seq(H!Messages), NEW count \in Nat, NEW rows \in Seq(H!Messages),
         Exactly(msgs, count, rows), NEW more, more = rows \o Unwritten(msgs, count)
  PROVE  Exactly(msgs, Len(msgs), more)
<1>1. PICK f : f = SubSeq(msgs, 1, count) OBVIOUS
<1>2. count = Len(rows) /\ count <= Len(msgs) /\ \A i \in 1 .. count : msgs[i] = rows[i]
  BY DEF Exactly, Extends
<1>3. /\ f \in Seq(H!Messages) /\ Len(f) = count
      /\ f \o Unwritten(msgs, count) = msgs
  BY <1>1, <1>2, UnwrittenFacts
<1>4. \A i \in 1 .. count : f[i] = msgs[i]
  <2> TAKE i \in 1 .. count
  <2>1. Len(msgs) \in Nat OBVIOUS
  <2> QED BY <1>1, <1>2, <2>1
<1>5. \A i \in 1 .. count : f[i] = rows[i] BY <1>2, <1>4
<1>6. f = rows BY <1>2, <1>3, <1>5, SeqEqual
<1>7. more = msgs BY <1>3, <1>6
<1> QED BY <1>7 DEF Exactly, Extends

(* A log without such an entry never had one.                                *)
LEMMA NoAppendBefore ==
  ASSUME NEW entries, Tree(entries), NEW w, Tree(w), Keeps(entries, w), NoAppend(w)
  PROVE  NoAppend(entries)
<1>1. /\ DOMAIN entries = 1 .. Len(entries) /\ DOMAIN w = 1 .. Len(w)
      /\ Len(entries) \in Nat /\ Len(w) \in Nat
  BY DEF Tree
<1>2. \A n \in DOMAIN entries : n \in DOMAIN w /\ w[n] = entries[n]
  BY <1>1 DEF Keeps
<1> QED BY <1>2 DEF NoAppend

(* A chain with such a message in it writes one.                             *)
LEMMA ChainShowsAppend ==
  ASSUME NEW w, Tree(w), NEW b \in Nat, NEW parent, NEW u \in Seq(H!Messages), Len(u) = 1,
         u[1].role = "user", u[1].via = "append", Chain(w, b, parent, u), Len(w) = b + 2
  PROVE  ~NoAppend(w)
<1>1. w[b + 1] = L!MessageEntry(parent, u[1]) BY DEF Chain
<1>2. w[b + 1].type = "message" /\ w[b + 1].message = u[1] BY <1>1 DEF L!MessageEntry
<1>3. b + 1 \in DOMAIN w BY DEF Tree
<1> QED BY <1>2, <1>3 DEF NoAppend

(* Nothing is written, and nothing is taken from the transcript.             *)
LEMMA GrowKeeps ==
  ASSUME WInv, call # "down", IInv', Extends(messages, messages'), Keeps(log, log'),
         Replayed(log', lastParent') = Replayed(log, lastParent), Written' = Written
  PROVE  WInv'
<1>1. PICK a \in Seq(H!Messages) : a = messages BY DEF WInv, IInv, H!TypeOK
<1>2. PICK b : b = messages' OBVIOUS
<1>3. PICK rows \in Seq(H!Messages) : rows = Replayed(log, lastParent)
  <2>1. Placed(log, lastParent) BY DEF WInv, IInv
  <2> QED BY <2>1, ReplayedTyped
<1>4. PICK count \in Nat : count = Written
  BY DEF WInv, IInv, Written, H!TypeOK
<1>5. Extends(a, b) /\ Covered(a, count, rows) BY <1>1, <1>2, <1>3, <1>4 DEF WInv
<1>6. Covered(b, count, rows) BY <1>5, CoveredGrows
<1>7. ASSUME NoAppend(log') PROVE Exactly(b, count, rows)
  <2>1. PICK v : v = log OBVIOUS
  <2>2. PICK w : w = log' OBVIOUS
  <2>3. Tree(v) /\ Tree(w) /\ Keeps(v, w) /\ NoAppend(w)
    BY <1>7, <2>1, <2>2 DEF WInv, IInv, Placed
  <2>4. NoAppend(v) BY <2>3, NoAppendBefore
  <2>5. Exactly(a, count, rows) BY <1>1, <1>3, <1>4, <2>1, <2>4 DEF WInv
  <2> QED BY <1>5, <2>5, ExactlyGrows
<1> QED BY <1>2, <1>3, <1>4, <1>6, <1>7 DEF WInv

(* The rest of the transcript is written.                                    *)
LEMMA RestKeeps ==
  ASSUME WInv, call # "down", IInv', Extends(messages, messages'), Written' = Len(messages'),
         Below(log, lastParent, Unwritten(messages', Written), log', lastParent')
  PROVE  WInv'
<1>1. PICK a \in Seq(H!Messages) : a = messages BY DEF WInv, IInv, H!TypeOK
<1>2. PICK b \in Seq(H!Messages) : b = messages' BY DEF IInv, H!TypeOK
<1>3. PICK rows \in Seq(H!Messages) : rows = Replayed(log, lastParent)
  <2>1. Placed(log, lastParent) BY DEF WInv, IInv
  <2> QED BY <2>1, ReplayedTyped
<1>4. PICK count \in Nat : count = Written
  BY DEF WInv, IInv, Written, H!TypeOK
<1>5. PICK more : more = Replayed(log', lastParent') OBVIOUS
<1>6. more = rows \o Unwritten(b, count) /\ Keeps(log, log')
  BY <1>2, <1>3, <1>4, <1>5 DEF Below
<1>7. Extends(a, b) /\ Covered(a, count, rows) BY <1>1, <1>2, <1>3, <1>4 DEF WInv
<1>8. Covered(b, count, rows) BY <1>7, CoveredGrows
<1>9. Covered(b, Len(b), more) BY <1>6, <1>8, CoveredWritten
<1>10. ASSUME NoAppend(log') PROVE Exactly(b, Len(b), more)
  <2>1. PICK v : v = log OBVIOUS
  <2>2. PICK w : w = log' OBVIOUS
  <2>3. Tree(v) /\ Tree(w) /\ Keeps(v, w) /\ NoAppend(w)
    BY <1>6, <1>10, <2>1, <2>2 DEF WInv, IInv, Placed
  <2>4. NoAppend(v) BY <2>3, NoAppendBefore
  <2>5. Exactly(a, count, rows) BY <1>1, <1>3, <1>4, <2>1, <2>4 DEF WInv
  <2>6. Exactly(b, count, rows) BY <1>7, <2>5, ExactlyGrows
  <2> QED BY <1>6, <2>6, ExactlyWritten
<1> QED BY <1>2, <1>5, <1>9, <1>10 DEF WInv

(* The transcript begins with what the log replays to, and that is what is   *)
(* written of it.                                                            *)
LEMMA ReplayedKeeps ==
  ASSUME IInv', Exactly(messages', Written', Replayed(log', lastParent'))
  PROVE  WInv'
<1>1. PICK b : b = messages' OBVIOUS
<1>2. PICK count : count = Written' OBVIOUS
<1>3. PICK rows \in Seq(H!Messages) : rows = Replayed(log', lastParent')
  <2>1. PICK w : w = log' OBVIOUS
  <2>2. PICK last : last = lastParent' OBVIOUS
  <2>3. Placed(w, last) BY <2>1, <2>2 DEF IInv
  <2>4. Replayed(w, last) \in Seq(H!Messages) BY <2>3, ReplayedTyped
  <2> QED BY <2>1, <2>2, <2>4
<1>4. Exactly(b, count, rows) BY <1>1, <1>2, <1>3
<1>5. Covered(b, count, rows) BY <1>4, ExactlyCovers
<1> QED BY <1>1, <1>2, <1>3, <1>4, <1>5 DEF WInv

(* A transcript that is the replay.                                          *)
LEMMA ReplayIsExact ==
  ASSUME IInv', messages' = Replayed(log', lastParent'), call' \notin Runs
  PROVE  WInv'
<1>1. messages' \in Seq(H!Messages) BY DEF IInv, H!TypeOK
<1>2. Written' = Len(messages') BY DEF Written
<1>3. Exactly(messages', Written', Replayed(log', lastParent'))
  BY <1>1, <1>2 DEF Exactly, Extends
<1> QED BY <1>3, ReplayedKeeps

(* The output of a terminal command goes to the end of the transcript and of *)
(* the log, whatever a run has still to write.                               *)
LEMMA TerminalWritten ==
  ASSUME WInv, TerminalCommand
  PROVE  WInv'
<1>1. /\ Extends(messages, messages')
      /\ messages' = Append(messages, H!User(submitted + 1, "append"))
      /\ UNCHANGED <<persisted, call>> /\ call # "down"
      /\ Below(log, lastParent, Unwritten(messages', Len(messages)), log', lastParent')
      /\ IInv'
  BY TerminalKeeps DEF WInv
<1>2. PICK a \in Seq(H!Messages) : a = messages BY DEF WInv, IInv, H!TypeOK
<1>3. PICK b \in Seq(H!Messages) : b = messages' BY <1>1 DEF IInv, H!TypeOK
<1>4. PICK rows \in Seq(H!Messages) : rows = Replayed(log, lastParent)
  <2>1. Placed(log, lastParent) BY DEF WInv, IInv
  <2> QED BY <2>1, ReplayedTyped
<1>5. PICK u : u = Unwritten(b, Len(a)) OBVIOUS
<1>6. PICK x \in H!Messages : x = H!User(submitted + 1, "append")
  <2>1. submitted + 1 \in Nat BY DEF WInv, IInv, H!TypeOK
  <2> QED BY <2>1 DEF H!User, H!Messages, H!UserMessages, H!Via
<1>7. b = Append(a, x) /\ Len(a) \in Nat /\ Len(b) = Len(a) + 1 /\ b[Len(b)] = x
  BY <1>1, <1>2, <1>3, <1>6
<1>8. u \in Seq(H!Messages) /\ Len(u) = 1 /\ u[1] = x
  <2>1. u = SubSeq(b, Len(a) + 1, Len(b)) BY <1>5 DEF Unwritten
  <2>2. /\ Len(a) + 1 \in 1 .. Len(b) + 1 /\ Len(b) \in Len(a) .. Len(b)
        /\ Len(b) - (Len(a) + 1) + 1 = 1 /\ Len(a) + 1 + 1 - 1 = Len(b)
    BY <1>7
  <2>3. u \in Seq(H!Messages) BY <1>3, <1>5, <1>7, UnwrittenFacts
  <2> QED BY <1>3, <1>7, <2>1, <2>2, <2>3
<1>9. PICK more : more = Replayed(log', lastParent') OBVIOUS
<1>10. more = rows \o u
  BY <1>1, <1>2, <1>3, <1>4, <1>5, <1>9 DEF Below
<1>11. MessageSet(more) = MessageSet(rows) \union MessageSet(u) BY <1>8, <1>10, SetOfBoth
<1>12. ~NoAppend(log')
  <2>1. PICK w : w = log' OBVIOUS
  <2>2. PICK n : n = Len(L!Opened(log)) OBVIOUS
  <2>3. PICK leaf : leaf = lastParent OBVIOUS
  <2>4. u # << >>
    <3>1. Len(<< >>) = 0 OBVIOUS
    <3>2. Len(u) # 0 BY <1>8
    <3> QED BY <3>1, <3>2, Zenon
  <2>5. Tree(w) /\ Chain(w, n, leaf, u) /\ Len(w) = n + 2
    <3>1. Tree(w) /\ Chain(w, n, leaf, u) /\ Len(w) = n + 2 * Len(u)
      BY <1>1, <1>2, <1>3, <1>5, <2>1, <2>2, <2>3, <2>4 DEF Below, Placed
    <3> QED BY <1>8, <3>1
  <2>6. n \in Nat
    <3>1. PICK entries : entries = log OBVIOUS
    <3>2. Tree(entries) BY <3>1 DEF WInv, IInv, Placed
    <3>3. Len(L!Opened(entries)) \in Nat BY <3>2, OpenedFacts
    <3> QED BY <2>2, <3>1, <3>3
  <2>7. u[1].role = "user" /\ u[1].via = "append" BY <1>6, <1>8 DEF H!User
  <2> QED BY <1>8, <2>1, <2>5, <2>6, <2>7, ChainShowsAppend
<1>13. CASE call \in Runs
  <2>1. PICK count \in Nat : count = persisted BY DEF WInv, IInv
  <2>2. Written = count /\ Written' = count BY <1>1, <1>13, <2>1 DEF Written
  <2>3. Covered(a, count, rows) BY <1>1, <1>2, <1>4, <2>2 DEF WInv
  <2>4. Covered(b, count, more) BY <1>1, <1>2, <1>3, <1>11, <2>3, CoveredGrows
  <2> QED BY <1>1, <1>3, <1>9, <1>12, <2>2, <2>4 DEF WInv
<1>14. CASE call \notin Runs
  <2>1. Written = Len(a) /\ Written' = Len(b) BY <1>1, <1>2, <1>3, <1>14 DEF Written
  <2>2. Covered(a, Len(a), rows) BY <1>1, <1>2, <1>4, <2>1 DEF WInv
  <2>3. Covered(b, Len(a), rows) BY <1>1, <1>2, <1>3, <1>7, <2>2, CoveredGrows
  <2>4. Covered(b, Len(b), more) BY <1>5, <1>7, <1>10, <2>3, CoveredWritten
  <2> QED BY <1>1, <1>3, <1>9, <1>12, <2>1, <2>4 DEF WInv
<1> QED BY <1>13, <1>14

(* Every step but a torn-down run.                                           *)
LEMMA UntornStep == WInv /\ [UntornNext]_vars => WInv'
<1> SUFFICES ASSUME WInv, [UntornNext]_vars PROVE WInv'
  OBVIOUS
<1>0. IInv BY DEF WInv
<1>a. PICK r : r = Replayed(log, lastParent) OBVIOUS
<1>b. UNCHANGED logVars => /\ Keeps(log, log')
                           /\ Replayed(log', lastParent') = Replayed(log, lastParent)
  <2>1. Len(log) \in Nat BY <1>0 DEF IInv, Placed, Tree
  <2> QED BY <2>1 DEF logVars, Keeps
<1>1. CASE SendPrompt \/ SendContinue \/ RetryRun
  <2>1. /\ Extends(messages, messages') /\ UNCHANGED logVars
        /\ call # "down" /\ call' # "down" /\ IInv'
    BY <1>0, <1>1, RunKeeps
  <2>2. Written' = Written
    <3>1. persisted' = Len(messages) /\ call \notin Runs /\ call' \in Runs
      BY <1>1 DEF SendPrompt, SendContinue, RetryRun, Runs
    <3> QED BY <3>1 DEF Written
  <2> QED BY <1>b, <2>1, <2>2, GrowKeeps
<1>2. CASE RunStep
  <2>1. /\ Extends(messages, messages') /\ UNCHANGED logVars
        /\ call # "down" /\ call' # "down" /\ IInv'
    BY <1>0, <1>2, RunKeeps
  <2>2. Written' = Written
    <3>1. persisted' = persisted /\ call \in Runs /\ call' = call BY <1>2 DEF RunStep
    <3> QED BY <3>1 DEF Written
  <2> QED BY <1>b, <2>1, <2>2, GrowKeeps
<1>3. CASE HandleMessageEnd
  <2>1. /\ messages' = messages /\ call \in Runs /\ call' = call
        /\ Below(log, lastParent, Unwritten(messages', persisted), log', lastParent')
        /\ IInv'
    BY <1>0, <1>3, HandleKeeps
  <2>2. Written = persisted /\ Written' = Len(messages')
    BY <1>3, <2>1 DEF Written, HandleMessageEnd
  <2>3. Extends(messages, messages') /\ call # "down"
    BY <1>0, <2>1 DEF IInv, H!TypeOK, Extends, Runs
  <2> QED BY <2>1, <2>2, <2>3, RestKeeps
<1>4. CASE FinishRun
  <2>1. /\ Extends(messages, messages') /\ call' \notin Runs \cup {"down"}
        /\ Below(log, lastParent, Unwritten(messages', persisted), log', lastParent')
        /\ IInv'
    BY <1>0, <1>4, FinishKeeps
  <2>2. Written = persisted /\ Written' = Len(messages') /\ call # "down"
    BY <1>4, <2>1 DEF Written, FinishRun, Runs
  <2> QED BY <2>1, <2>2, RestKeeps
<1>5. CASE Queue \/ Cancel
  <2>1. /\ messages' = messages /\ UNCHANGED logVars /\ UNCHANGED <<persisted, call>> /\ IInv'
    BY <1>0, <1>5, CallerKeeps
  <2>2. Written' = Written BY <2>1 DEF Written
  <2>3. Extends(messages, messages') /\ call # "down"
    BY <1>0, <1>5, <2>1 DEF IInv, H!TypeOK, Extends, Queue, Cancel, Runs
  <2> QED BY <1>b, <2>1, <2>2, <2>3, GrowKeeps
<1>6. CASE TerminalCommand
  BY <1>6, TerminalWritten
<1>7. CASE OverflowCompaction \/ StartPreCompaction \/ StartManualCompaction
           \/ StartBranchSummary
  <2>1. /\ messages' = messages /\ UNCHANGED logVars /\ UNCHANGED persisted
        /\ {call, call'} \cap (Runs \cup {"down"}) = {} /\ IInv'
    BY <1>0, <1>7, CallKeeps
  <2>2. Written' = Written /\ call # "down" BY <2>1 DEF Written
  <2>3. Extends(messages, messages') BY <1>0, <2>1 DEF IInv, H!TypeOK, Extends
  <2> QED BY <1>b, <2>1, <2>2, <2>3, GrowKeeps
<1>8. CASE AppendCustomEntry
  <2>1. /\ messages' = messages /\ UNCHANGED <<persisted, call>> /\ call # "down"
        /\ Replayed(log', lastParent') = Replayed(log, lastParent) /\ Keeps(log, log') /\ IInv'
    BY <1>0, <1>8, CustomKeeps
  <2>2. Written' = Written BY <2>1 DEF Written
  <2>3. Extends(messages, messages') BY <1>0, <2>1 DEF IInv, H!TypeOK, Extends
  <2> QED BY <2>1, <2>2, <2>3, GrowKeeps
<1>9. CASE Compact
  <2>1. /\ call' \in {"run", "retryStart", "idle"}
        /\ call' # "run" => messages' = Replayed(log', lastParent')
        /\ call' = "run" => /\ Extends(Replayed(log', lastParent'), messages')
                            /\ persisted' = Len(Replayed(log', lastParent'))
        /\ IInv'
    BY <1>0, <1>9, CompactKeeps
  <2>2. CASE call' # "run"
    <3>1. call' \notin Runs BY <2>1, <2>2 DEF Runs
    <3> QED BY <2>1, <2>2, <3>1, ReplayIsExact
  <2>3. CASE call' = "run"
    <3>1. Exactly(messages', Written', Replayed(log', lastParent'))
      BY <2>1, <2>3 DEF Written, Runs, Exactly
    <3> QED BY <2>1, <3>1, ReplayedKeeps
  <2> QED BY <2>2, <2>3
<1>10. CASE CompactionFails
  <2>1. /\ Extends(messages, messages') /\ UNCHANGED logVars /\ call \in Compactions
        /\ \/ call' = "run" /\ persisted' = Len(messages)
           \/ call' = "idle" /\ messages' = messages
        /\ IInv'
    BY <1>0, <1>10, FailKeeps
  <2>2. Written' = Written /\ call # "down"
    BY <2>1 DEF Written, Compactions, Runs
  <2> QED BY <1>b, <2>1, <2>2, GrowKeeps
<1>11. CASE BranchToEntry \/ BranchSummarized
  <2>1. /\ messages' = Replayed(log', lastParent') /\ UNCHANGED <<persisted, call>>
        /\ call \in {"idle", "manualCompact"} /\ IInv'
    BY <1>0, <1>11, BranchKeeps
  <2>2. call' \notin Runs BY <2>1 DEF Runs
  <2> QED BY <2>1, <2>2, ReplayIsExact
<1>12. CASE Die \/ DieLoading
  BY <1>0, <1>12, DieKeeps, DieLoadingKeeps DEF WInv
<1>13. CASE Load
  <2>1. messages' = Replayed(log', lastParent') /\ call' = "idle" /\ IInv'
    BY <1>0, <1>13, LoadKeeps
  <2>2. call' \notin Runs BY <2>1 DEF Runs
  <2> QED BY <2>1, <2>2, ReplayIsExact
<1>14. CASE UNCHANGED vars
  <2>1. UNCHANGED logVars /\ messages' = messages /\ UNCHANGED <<persisted, call>>
    BY <1>14 DEF vars, harnessVars
  <2>2. IInv' BY <1>0, <1>14, StepInvariant
  <2>3. call = "down" => WInv' BY <2>1, <2>2 DEF WInv
  <2>4. ASSUME call # "down" PROVE WInv'
    <3>1. Written' = Written BY <2>1 DEF Written
    <3>2. Extends(messages, messages') BY <1>0, <2>1 DEF IInv, H!TypeOK, Extends
    <3> QED BY <1>b, <2>1, <2>2, <2>4, <3>1, <3>2, GrowKeeps
  <2> QED BY <2>3, <2>4
<1> QED
  BY <1>1, <1>2, <1>3, <1>4, <1>5, <1>6, <1>7, <1>8, <1>9, <1>10, <1>11, <1>12, <1>13, <1>14
     DEF UntornNext, Progress, User, Restart

(* It holds before anything is written.                                      *)
LEMMA InitWritten == Init => WInv
<1> SUFFICES ASSUME Init PROVE WInv
  OBVIOUS
<1>1. IInv BY InitInvariant
<1>2. messages = << >> /\ log = << >> /\ call = "idle" BY DEF Init, H!Init
<1>3. Replayed(log, lastParent) = << >>
  BY <1>2 DEF Replayed, RowsOf, L!MessagesOf
<1>4. Written = 0 /\ Len(<< >>) = 0 /\ << >> \in Seq(H!Messages) BY <1>2 DEF Written, Runs
<1>5. Exactly(messages, Written, Replayed(log, lastParent))
  BY <1>2, <1>3, <1>4 DEF Exactly, Extends
<1>6. Covered(messages, Written, Replayed(log, lastParent))
  BY <1>2, <1>3, <1>4 DEF Covered
<1> QED BY <1>1, <1>5, <1>6 DEF WInv

(* The invariant, for any session that reads its runs to their end.          *)
LEMMA UntornInvariant == UntornSpec => []WInv
BY InitWritten, UntornStep, PTL DEF UntornSpec

(* IdleIsDurable: an idle session whose runs were all read to their end has  *)
(* in its log what it has in memory: no message is lost to a restart, and    *)
(* none is in the log alone.                                                 *)
THEOREM IdleIsAlwaysDurable == UntornSpec => []IdleIsDurable
<1>1. WInv => IdleIsDurable
  <2> SUFFICES ASSUME WInv, call = "idle"
               PROVE  MessageSet(Replayed(log, lastParent)) = MessageSet(messages)
    BY DEF IdleIsDurable, DurableMessages, ActiveRows, Replayed
  <2>1. MessageSet(Replayed(log, lastParent)) \subseteq MessageSet(messages)
    BY DEF WInv, IInv
  <2>2. messages \in Seq(H!Messages) BY DEF WInv, IInv, H!TypeOK
  <2>3. Covered(messages, Len(messages), Replayed(log, lastParent))
    BY DEF WInv, Written, Runs
  <2>4. DOMAIN messages = 1 .. Len(messages) BY <2>2
  <2>5. MessageSet(messages) \subseteq MessageSet(Replayed(log, lastParent))
    <3>1. \A i \in DOMAIN messages : messages[i] \in MessageSet(Replayed(log, lastParent))
      BY <2>3, <2>4 DEF Covered
    <3> QED BY <3>1 DEF MessageSet
  <2> QED BY <2>1, <2>5
<1> QED BY <1>1, UntornInvariant, PTL

(* IdleIsExact: ... and as long as no terminal command wrote between a run's *)
(* messages, the log replays to the very transcript, in its order, each      *)
(* message once.                                                             *)
THEOREM IdleIsAlwaysExact == UntornSpec => []IdleIsExact
<1>1. WInv => IdleIsExact
  <2> SUFFICES ASSUME WInv, call = "idle", NoAppend(log)
               PROVE  Replayed(log, lastParent) = messages
    BY DEF IdleIsExact, NoAppend, ActiveRows, Replayed
  <2>1. PICK a \in Seq(H!Messages) : a = messages BY DEF WInv, IInv, H!TypeOK
  <2>2. PICK rows \in Seq(H!Messages) : rows = Replayed(log, lastParent)
    <3>1. Placed(log, lastParent) BY DEF WInv, IInv
    <3> QED BY <3>1, ReplayedTyped
  <2>3. Exactly(a, Len(a), rows) BY <2>1, <2>2 DEF WInv, Written, Runs
  <2>4. rows = a BY <2>3, ExactlyAll
  <2> QED BY <2>1, <2>2, <2>4
<1> QED BY <1>1, UntornInvariant, PTL
-----------------------------------------------------------------------------
(* The branch to a leaf: an entry, and the branch to its parent.             *)
LEMMA PathFacts ==
  ASSUME NEW entries, Tree(entries)
  PROVE  /\ L!Path(entries, 0) = {}
         /\ \A n \in 1 .. Len(entries) :
              L!Path(entries, n) = {n} \union L!Path(entries, entries[n].parent)
         /\ \A n \in 0 .. Len(entries) : L!Path(entries, n) \in SUBSET (1 .. Len(entries))
<1> DEFINE n == Len(entries)
           V == SUBSET (1 .. Len(entries))
           P(g) == g = [k \in 0 .. Len(entries) |->
                          IF k = L!None THEN {} ELSE {k} \union g[entries[k].parent]]
           F == CHOOSE g : P(g)
           up == [k \in 1 .. n |-> entries[k].parent]
           st == [x \in (1 .. n) \X V |-> {x[1]} \union x[2]]
<1>0. n \in Nat BY DEF Tree
<1>1. \A k \in 1 .. n : entries[k].parent \in 0 .. k - 1
  BY DEF Tree
<1>2. \A k \in 1 .. n : up[k] \in 0 .. k - 1
  BY <1>1
<1>3. \A k \in 1 .. n : \A v \in V : st[<<k, v>>] = {k} \union v /\ {k} \union v \in V
  OBVIOUS
<1>4. {} \in V OBVIOUS
<1>6. \A k \in 1 .. n : up[k] = entries[k].parent OBVIOUS
<1>7. \A g : P(g) <=> g = [k \in 0 .. n |-> IF k = 0 THEN {} ELSE {k} \union g[entries[k].parent]]
  BY DEF L!None
<1>8. \A j \in 0 .. n : L!Path(entries, j) = F[j]
  BY Zenon DEF L!Path
<1> HIDE DEF st, up, V, n, P
<1>9. Defined(n, V, {}, up, st)
  <2>1. \A k \in 1 .. n : \A v \in V : st[<<k, v>>] \in V BY <1>3
  <2> QED BY <1>0, <1>2, <1>4, <2>1, Recursion, Zenon
<1>10. PICK f \in [0 .. n -> V] : f[0] = {} /\ \A k \in 1 .. n : f[k] = st[<<k, f[up[k]]>>]
  BY <1>9 DEF Defined
<1>11. f = [k \in 0 .. n |-> IF k = 0 THEN {} ELSE {k} \union f[entries[k].parent]]
  <2>1. ASSUME NEW k \in 0 .. n
        PROVE  f[k] = IF k = 0 THEN {} ELSE {k} \union f[entries[k].parent]
    <3>1. CASE k = 0 BY <1>10, <3>1
    <3>2. CASE k # 0
      <4>1. k \in 1 .. n BY <1>0, <3>2
      <4>2. entries[k].parent \in 0 .. n BY <1>0, <1>1, <4>1
      <4>3. f[k] = st[<<k, f[entries[k].parent]>>] /\ f[entries[k].parent] \in V
        BY <1>6, <1>10, <4>1, <4>2
      <4> QED BY <1>3, <3>2, <4>1, <4>3
    <3> QED BY <3>1, <3>2
  <2> QED BY <1>10, <2>1
<1>12. P(f) BY <1>7, <1>11
<1>13. P(F) BY <1>12, Zenon
<1> HIDE DEF F
<1>14. F = [k \in 0 .. n |-> IF k = 0 THEN {} ELSE {k} \union F[entries[k].parent]]
  BY <1>7, <1>13
<1>15. F[0] = {} BY <1>0, <1>14
<1>16. \A k \in 1 .. n : F[k] = {k} \union F[entries[k].parent]
  <2> TAKE k \in 1 .. n
  <2>1. k \in 0 .. n /\ k # 0 BY <1>0
  <2> QED BY <1>14, <2>1
<1>17. \A k \in 1 .. n : F[up[k]] \in V => F[k] \in V
  <2> TAKE k \in 1 .. n
  <2> HAVE F[up[k]] \in V
  <2>1. F[k] = {k} \union F[up[k]] BY <1>6, <1>16
  <2> QED BY <1>3, <2>1
<1>18. F[0] \in V BY <1>4, <1>15
<1>19. \A k \in 0 .. n : F[k] \in V
  BY <1>0, <1>2, <1>17, <1>18, RecursionTyped, Zenon
<1>20. ASSUME NEW k \in 1 .. n
       PROVE  L!Path(entries, k) = {k} \union L!Path(entries, entries[k].parent)
  <2>1. k \in 0 .. n /\ entries[k].parent \in 0 .. n BY <1>0, <1>1
  <2> QED BY <1>8, <1>16, <2>1
<1>21. L!Path(entries, 0) = {} BY <1>0, <1>8, <1>15
<1> QED BY <1>8, <1>19, <1>20, <1>21 DEF n, V

(* An entry adds its own message to those replayed, or a summary.            *)
LEMMA GrownMessages ==
  ASSUME NEW e \in Entry, NEW N \in Nat, NEW n \in 1 .. N, NEW rows \in Seq(Row(N))
  PROVE  MessageSet(L!MessagesOf(Grown(e, n, rows)))
           \subseteq MessageSet(L!MessagesOf(rows)) \union {SummaryMessage}
                       \union {m \in H!Messages : e.type = "message" /\ m = e.message}
<1> DEFINE T == MessageSet(L!MessagesOf(rows)) \union {SummaryMessage}
                  \union {m \in H!Messages : e.type = "message" /\ m = e.message}
           S == {r \in Row(N) : r.message \in T}
           g == Grown(e, n, rows)
<1>1. DOMAIN rows = 1 .. Len(rows) /\ Len(rows) \in Nat OBVIOUS
<1>2. rows \in Seq(S)
  <2>1. ASSUME NEW i \in 1 .. Len(rows) PROVE rows[i] \in S
    <3>1. rows[i] \in Row(N) OBVIOUS
    <3>2. /\ L!MessagesOf(rows)[i] = rows[i].message /\ i \in DOMAIN L!MessagesOf(rows)
      BY <1>1 DEF L!MessagesOf
    <3>3. rows[i].message \in T BY <3>2 DEF MessageSet
    <3> QED BY <3>1, <3>3
  <2> HIDE DEF S
  <2> QED BY <1>1, <2>1
<1>3. [id |-> n, message |-> SummaryMessage] \in S
  BY SummaryIsMessage DEF Row
<1>4. g \in Seq(S)
  <2>1. CASE e.type = "message"
    <3>1. e.message \in H!Messages BY <2>1 DEF Entry
    <3>2. [id |-> n, message |-> e.message] \in S BY <2>1, <3>1 DEF Row
    <3> HIDE DEF S
    <3> QED BY <1>2, <2>1, <3>2 DEF Grown
  <2>2. CASE e.type = "compaction"
    <3> HIDE DEF S
    <3> QED BY <1>2, <1>3, <2>2, CompactedRows DEF Grown
  <2>3. CASE e.type = "branch_summary"
    <3> HIDE DEF S
    <3> QED BY <1>2, <1>3, <2>3 DEF Grown
  <2>4. CASE e.type \notin {"message", "compaction", "branch_summary"}
    BY <1>2, <2>4 DEF Grown
  <2> QED BY <2>1, <2>2, <2>3, <2>4
<1> HIDE DEF g
<1>5. ASSUME NEW i \in DOMAIN g PROVE g[i].message \in T
  <2>1. g[i] \in S
    <3> HIDE DEF S
    <3> QED BY <1>4, <1>5
  <2> QED BY <2>1
<1> HIDE DEF T, S
<1>6. MessageSet(L!MessagesOf(g)) \subseteq T
  BY <1>5 DEF MessageSet, L!MessagesOf
<1> QED BY <1>6 DEF g, T

(* The messages of the entries n.                                            *)
Of(entries, n) == {entries[m].message : m \in n}

(* What a branch from n leaves behind is in the entries below n, or is itself *)
(* a summary.                                                                *)
LEMMA LeftBehind ==
  ASSUME NEW entries, Tree(entries), NEW leaf \in 0 .. Len(entries),
         NEW n \in L!Path(entries, leaf)
  PROVE  MessageSet(L!MessagesOf(L!Rows(entries, leaf)))
           \subseteq MessageSet(L!MessagesOf(L!Rows(entries, n))) \union {SummaryMessage}
                       \union Of(entries, L!Abandoned(entries, n, leaf))
<1> DEFINE Live(k) == MessageSet(L!MessagesOf(L!Rows(entries, k)))
           Told(k) == Live(n) \union {SummaryMessage} \union Of(entries, L!Abandoned(entries, n, k))
           T == {k \in 0 .. Len(entries) : n \in L!Path(entries, k) => n <= k /\ Live(k) \subseteq Told(k)}
<1>0. Len(entries) \in Nat BY DEF Tree
<1>1. ASSUME NEW k \in 0 .. Len(entries), \A j \in 0 .. Len(entries) : j < k => j \in T
      PROVE  k \in T
  <2>1. CASE k = 0 BY <2>1, PathFacts
  <2>2. CASE k # 0
    <3>1. k \in 1 .. Len(entries) BY <1>0, <2>2
    <3>2. PICK up : up = entries[k].parent OBVIOUS
    <3>3. up \in 0 .. Len(entries) /\ up < k /\ k \in Nat /\ up \in Nat
      BY <1>0, <3>1, <3>2 DEF Tree
    <3>4. L!Path(entries, k) = {k} \union L!Path(entries, up) BY <3>1, <3>2, PathFacts
    <3>5. CASE n = k BY <3>3, <3>5
    <3>6. CASE n # k /\ n \in L!Path(entries, up)
      <4>1. n <= up /\ Live(up) \subseteq Told(up)
        <5>1. up \in T BY <1>1, <3>3
        <5> QED BY <3>6, <5>1
      <4>2. n \in 1 .. Len(entries) BY <3>3, <3>6, PathFacts
      <4>3. n <= k /\ n < k BY <3>3, <4>1, <4>2
      <4>4. L!Rows(entries, k) = Grown(entries[k], k, L!Rows(entries, up))
        BY <3>1, <3>2, RowsFacts
      <4>5. L!Rows(entries, up) \in Seq(Row(Len(entries))) BY <3>3, RowsFacts
      <4>6. entries[k] \in Entry BY <3>1 DEF Tree
      <4>7. Live(k) \subseteq Live(up) \union {SummaryMessage}
                    \union {m \in H!Messages : entries[k].type = "message" /\ m = entries[k].message}
        BY <1>0, <3>1, <4>4, <4>5, <4>6, GrownMessages
      <4>8. L!Abandoned(entries, n, up) \subseteq L!Abandoned(entries, n, k)
        BY <3>4, <3>6 DEF L!Abandoned
      <4>9. entries[k].type = "message" => k \in L!Abandoned(entries, n, k)
        BY <3>4, <3>6, <4>3 DEF L!Abandoned
      <4>10. Live(k) \subseteq Told(k) BY <4>1, <4>7, <4>8, <4>9 DEF Of
      <4> QED BY <4>3, <4>10
    <3>7. CASE n \notin L!Path(entries, k) BY <3>7
    <3> QED BY <3>4, <3>5, <3>6, <3>7
  <2> QED BY <2>1, <2>2
<1> HIDE DEF T
<1>2. \A k \in 0 .. Len(entries) : k \in T
  BY <1>0, <1>1, UpTo
<1> QED BY <1>2 DEF T

-----------------------------------------------------------------------------
(* What a branch that waits for its summary accounts for: what is above the  *)
(* entry it goes back to, what the summary was asked about, summaries, and   *)
(* what terminal commands wrote meanwhile.                                   *)
Commands == {m \in H!Messages : m.role = "user" /\ m.via = "append"}
Accounted(entries, from, covers) ==
  MessageSet(Replayed(entries, from)) \union Of(entries, covers)
    \union {SummaryMessage} \union Commands

(* The entries a branch names are in the log, and while no other branch       *)
(* overtakes it the live branch holds nothing it does not account for.       *)
Accounts ==
  branch # NoBranch =>
    /\ branch = [from |-> branch.from, covers |-> branch.covers, overtaken |-> branch.overtaken]
    /\ branch.from \in 1 .. Len(log) /\ branch.covers \subseteq 1 .. Len(log)
    /\ ~branch.overtaken =>
         MessageSet(Replayed(log, lastParent)) \subseteq Accounted(log, branch.from, branch.covers)

BInv == WInv /\ Accounts

(* It accounts for the same when the log has grown.                          *)
LEMMA AccountStands ==
  ASSUME NEW entries, Tree(entries), NEW w, Tree(w), Keeps(entries, w),
         NEW from \in 1 .. Len(entries), NEW covers \in SUBSET (1 .. Len(entries))
  PROVE  /\ Accounted(w, from, covers) = Accounted(entries, from, covers)
         /\ from \in 1 .. Len(w) /\ covers \subseteq 1 .. Len(w)
<1>1. Len(entries) \in Nat /\ Len(w) \in Nat /\ Len(entries) <= Len(w) BY DEF Tree, Keeps
<1>2. entries # << >> /\ w # << >>
  <2>1. Len(<< >>) = 0 OBVIOUS
  <2> QED BY <1>1, <2>1
<1>3. from \in 0 .. Len(entries) BY <1>1
<1>4. L!Rows(w, from) = L!Rows(entries, from) BY <1>3, SameRows DEF Keeps
<1>5. Replayed(w, from) = Replayed(entries, from) BY <1>2, <1>4 DEF Replayed, RowsOf
<1>6. \A n \in covers : w[n] = entries[n] BY DEF Keeps
<1>7. Of(w, covers) = Of(entries, covers) BY <1>6 DEF Of
<1> QED BY <1>1, <1>5, <1>7 DEF Accounted

(* A step beside a branch that waits, which adds to the live branch at most a *)
(* summary and a command's output.                                           *)
LEMMA BesideBranch ==
  ASSUME BInv, WInv', branch' = branch, Keeps(log, log'),
         MessageSet(Replayed(log', lastParent'))
           \subseteq MessageSet(Replayed(log, lastParent)) \union {SummaryMessage} \union Commands
  PROVE  BInv'
<1> SUFFICES ASSUME branch # NoBranch PROVE Accounts'
  BY DEF BInv, Accounts
<1>1. PICK entries : entries = log OBVIOUS
<1>2. PICK w : w = log' OBVIOUS
<1>3. PICK from : from = branch.from OBVIOUS
<1>4. PICK covers : covers = branch.covers OBVIOUS
<1>5. Tree(entries) /\ Tree(w) /\ Keeps(entries, w)
  BY <1>1, <1>2 DEF BInv, WInv, IInv, Placed
<1>6. from \in 1 .. Len(entries) /\ covers \in SUBSET (1 .. Len(entries))
  BY <1>1, <1>3, <1>4 DEF BInv, Accounts
<1>7. /\ Accounted(w, from, covers) = Accounted(entries, from, covers)
      /\ from \in 1 .. Len(w) /\ covers \subseteq 1 .. Len(w)
  BY <1>5, <1>6, AccountStands
<1>8. ~branch.overtaken =>
        MessageSet(Replayed(entries, lastParent)) \subseteq Accounted(entries, from, covers)
  BY <1>1, <1>3, <1>4 DEF BInv, Accounts
<1>9. {SummaryMessage} \union Commands \subseteq Accounted(entries, from, covers)
  BY DEF Accounted
<1>10. ~branch.overtaken =>
         MessageSet(Replayed(w, lastParent')) \subseteq Accounted(w, from, covers)
  BY <1>1, <1>2, <1>7, <1>8, <1>9
<1>11. branch = [from |-> from, covers |-> covers, overtaken |-> branch.overtaken]
  BY <1>3, <1>4 DEF BInv, Accounts
<1> QED BY <1>2, <1>3, <1>4, <1>7, <1>10, <1>11 DEF Accounts

(* A branch begins: what it leaves behind is what its summary is asked about. *)
LEMMA BranchBegins ==
  ASSUME BInv, WInv', StartBranchSummary
  PROVE  BInv'
<1>1. PICK n \in DOMAIN log :
        /\ L!Abandoned(log, n, lastParent) # {}
        /\ branch' = [from |-> n, covers |-> L!Abandoned(log, n, lastParent), overtaken |-> FALSE]
  BY DEF StartBranchSummary
<1>2. log' = log /\ lastParent' = lastParent BY DEF StartBranchSummary, logVars
<1>3. PICK entries : entries = log OBVIOUS
<1>4. PICK leaf : leaf = lastParent OBVIOUS
<1>5. Tree(entries) /\ Len(entries) \in Nat /\ n \in 1 .. Len(entries) /\ entries # << >>
  <2>1. Tree(entries) BY <1>3 DEF BInv, WInv, IInv, Placed
  <2>2. n \in 1 .. Len(entries) BY <1>3, <2>1 DEF Tree
  <2> QED BY <2>1, <2>2 DEF Tree
<1>6. leaf \in 0 .. Len(entries)
  BY <1>3, <1>4, <1>5 DEF BInv, WInv, IInv, Placed, L!Opened
<1>7. n \in L!Path(entries, leaf)
  BY <1>1, <1>3, <1>4 DEF L!Abandoned
<1>8. MessageSet(L!MessagesOf(L!Rows(entries, leaf)))
        \subseteq MessageSet(L!MessagesOf(L!Rows(entries, n))) \union {SummaryMessage}
                    \union Of(entries, L!Abandoned(entries, n, leaf))
  BY <1>5, <1>6, <1>7, LeftBehind
<1>9. /\ Replayed(entries, leaf) = L!MessagesOf(L!Rows(entries, leaf))
      /\ Replayed(entries, n) = L!MessagesOf(L!Rows(entries, n))
  BY <1>5 DEF Replayed, RowsOf
<1>10. MessageSet(Replayed(entries, leaf))
         \subseteq Accounted(entries, n, L!Abandoned(entries, n, leaf))
  BY <1>8, <1>9 DEF Accounted
<1>11. L!Abandoned(entries, n, leaf) \subseteq 1 .. Len(entries)
  <2>1. L!Path(entries, leaf) \in SUBSET (1 .. Len(entries)) BY <1>5, <1>6, PathFacts
  <2> QED BY <2>1 DEF L!Abandoned
<1>12. Accounts'
  BY <1>1, <1>2, <1>3, <1>4, <1>5, <1>10, <1>11 DEF Accounts
<1> QED BY <1>12 DEF BInv

(* A compaction adds a summary to the live branch.                           *)
LEMMA CompactionAddsSummary ==
  ASSUME IInv, Compact
  PROVE  MessageSet(Replayed(log', lastParent'))
           \subseteq MessageSet(Replayed(log, lastParent)) \union {SummaryMessage}
<1>1. PICK entries : entries = log OBVIOUS
<1>2. PICK leaf : leaf = lastParent OBVIOUS
<1>3. PICK w : w = log' OBVIOUS
<1>4. PICK last : last = lastParent' OBVIOUS
<1>5. PICK ids : ids = plan OBVIOUS
<1>6. PICK e : e = L!CompactionEntry(leaf, ids) OBVIOUS
<1>7. Tree(entries) /\ entries # << >> /\ leaf \in 0 .. Len(L!Opened(entries)) /\ ids \subseteq Nat
  BY <1>1, <1>2, <1>5 DEF IInv, Compact, Placed
<1>8. L!Opened(entries) = entries /\ Len(entries) \in Nat BY <1>7 DEF L!Opened, Tree
<1>9. e \in Entry /\ e.type = "compaction" /\ e.parent = leaf
  <2>1. leaf \in Nat BY <1>7, <1>8
  <2> QED BY <1>6, <1>7, <2>1 DEF L!CompactionEntry, Entry
<1>10. w = L!Appended(entries, e) /\ last = Len(L!Opened(entries)) + 1
  BY <1>1, <1>2, <1>3, <1>4, <1>5, <1>6, <1>8 DEF Compact
<1>11. L!Rows(w, last) = Grown(e, last, RowsOf(entries, leaf)) /\ Tree(w) /\ Len(w) = last + 1
  BY <1>7, <1>9, <1>10, AppendedFacts
<1>12. /\ RowsOf(entries, leaf) = L!Rows(entries, leaf)
       /\ Replayed(entries, leaf) = L!MessagesOf(L!Rows(entries, leaf))
  BY <1>7 DEF RowsOf, Replayed
<1>13. Replayed(w, last) = L!MessagesOf(L!Rows(w, last))
  <2>1. Len(<< >>) = 0 OBVIOUS
  <2>2. w # << >> BY <1>8, <1>10, <1>11, <2>1
  <2> QED BY <2>2 DEF Replayed, RowsOf
<1>14. L!Rows(entries, leaf) \in Seq(Row(last)) /\ last \in 1 .. last /\ last \in Nat
  <2>1. L!Rows(entries, leaf) \in Seq(Row(Len(entries))) BY <1>7, <1>8, RowsFacts
  <2>2. last \in Nat /\ Len(entries) <= last /\ last >= 1 BY <1>8, <1>10
  <2>3. Row(Len(entries)) \subseteq Row(last) BY <1>8, <2>2 DEF Row
  <2> HIDE DEF Row
  <2>4. L!Rows(entries, leaf) \in Seq(Row(last)) BY <2>1, <2>3
  <2> QED BY <2>2, <2>4
<1>15. MessageSet(L!MessagesOf(Grown(e, last, L!Rows(entries, leaf))))
         \subseteq MessageSet(L!MessagesOf(L!Rows(entries, leaf))) \union {SummaryMessage}
                     \union {m \in H!Messages : e.type = "message" /\ m = e.message}
  BY <1>9, <1>14, GrownMessages
<1>16. {m \in H!Messages : e.type = "message" /\ m = e.message} = {} BY <1>9
<1>17. MessageSet(Replayed(w, last)) \subseteq MessageSet(Replayed(entries, leaf)) \union {SummaryMessage}
  BY <1>11, <1>12, <1>13, <1>15, <1>16
<1> QED BY <1>1, <1>2, <1>3, <1>4, <1>17

(* The output of a terminal command is all that it adds to the live branch.   *)
LEMMA CommandAddsOutput ==
  ASSUME IInv, TerminalCommand
  PROVE  /\ Keeps(log, log')
         /\ MessageSet(Replayed(log', lastParent'))
              \subseteq MessageSet(Replayed(log, lastParent)) \union Commands
<1>1. /\ messages' = Append(messages, H!User(submitted + 1, "append"))
      /\ Below(log, lastParent, Unwritten(messages', Len(messages)), log', lastParent')
      /\ IInv'
  BY TerminalKeeps
<1>2. PICK a \in Seq(H!Messages) : a = messages BY DEF IInv, H!TypeOK
<1>3. PICK b \in Seq(H!Messages) : b = messages' BY <1>1 DEF IInv, H!TypeOK
<1>4. PICK rows \in Seq(H!Messages) : rows = Replayed(log, lastParent)
  <2>1. Placed(log, lastParent) BY DEF IInv
  <2> QED BY <2>1, ReplayedTyped
<1>5. PICK u : u = Unwritten(b, Len(a)) OBVIOUS
<1>6. PICK x \in Commands : x = H!User(submitted + 1, "append")
  <2>1. submitted + 1 \in Nat BY DEF IInv, H!TypeOK
  <2> QED BY <2>1 DEF Commands, H!User, H!Messages, H!UserMessages, H!Via
<1>7. b = Append(a, x) /\ Len(a) \in Nat /\ Len(b) = Len(a) + 1 /\ b[Len(b)] = x
  BY <1>1, <1>2, <1>3, <1>6
<1>8. u \in Seq(H!Messages) /\ MessageSet(u) \subseteq Commands
  <2>1. u \in Seq(H!Messages) /\ MessageSet(u) = {b[i] : i \in Len(a) + 1 .. Len(b)}
    BY <1>3, <1>5, <1>7, UnwrittenFacts
  <2>2. Len(a) + 1 .. Len(b) = {Len(b)} BY <1>7
  <2>3. MessageSet(u) = {b[Len(b)]} BY <2>1, <2>2
  <2> QED BY <1>6, <1>7, <2>1, <2>3
<1>9. PICK more : more = Replayed(log', lastParent') OBVIOUS
<1>10. more = rows \o u /\ Keeps(log, log')
  BY <1>1, <1>2, <1>3, <1>4, <1>5, <1>9 DEF Below
<1>11. MessageSet(more) = MessageSet(rows) \union MessageSet(u) BY <1>8, <1>10, SetOfBoth
<1> QED BY <1>4, <1>8, <1>9, <1>10, <1>11

(* Another branch overtakes the one that waits, which then accounts for none. *)
LEMMA BranchOvertaken ==
  ASSUME BInv, WInv', BranchToEntry
  PROVE  BInv'
<1>1. CASE branch = NoBranch
  BY <1>1 DEF BranchToEntry, BInv, Accounts
<1>2. CASE branch # NoBranch
  <2>1. PICK from, covers, over : branch = [from |-> from, covers |-> covers, overtaken |-> over]
    BY <1>2 DEF BInv, Accounts
  <2>2. branch' = [from |-> from, covers |-> covers, overtaken |-> TRUE]
    BY <1>2, <2>1 DEF BranchToEntry
  <2>3. from \in 1 .. Len(log) /\ covers \subseteq 1 .. Len(log)
    BY <1>2, <2>1 DEF BInv, Accounts
  <2>4. Keeps(log, log')
    BY BranchKeeps DEF BInv, WInv
  <2>5. Len(log) \in Nat /\ Len(log') \in Nat /\ Len(log) <= Len(log')
    <3>1. Tree(log) /\ Tree(log') BY DEF BInv, WInv, IInv, Placed
    <3>2. Len(log) \in Nat BY <3>1 DEF Tree
    <3>3. Len(log') \in Nat BY <3>1 DEF Tree
    <3> QED BY <2>4, <3>2, <3>3 DEF Keeps
  <2>6. from \in 1 .. Len(log') /\ covers \subseteq 1 .. Len(log') BY <2>3, <2>5
  <2>7. Accounts' BY <2>2, <2>6 DEF Accounts
  <2> QED BY <2>7 DEF BInv
<1> QED BY <1>1, <1>2

(* Every step but a torn-down run.                                           *)
LEMMA BranchStep == BInv /\ [UntornNext]_vars => BInv'
<1> SUFFICES ASSUME BInv, [UntornNext]_vars PROVE BInv'
  OBVIOUS
<1>0. WInv /\ IInv BY DEF BInv, WInv
<1>1. WInv' BY <1>0, UntornStep
<1>2. CASE branch' = NoBranch
  BY <1>1, <1>2 DEF BInv, Accounts
<1>3. CASE StartBranchSummary
  BY <1>1, <1>3, BranchBegins
<1>4. CASE BranchToEntry
  BY <1>1, <1>4, BranchOvertaken
<1>5. ASSUME branch' = branch, UNCHANGED logVars PROVE BInv'
  <2>1. log' = log /\ lastParent' = lastParent BY <1>5 DEF logVars
  <2>2. Len(log) \in Nat BY <1>0 DEF IInv, Placed, Tree
  <2>3. Keeps(log, log') BY <2>1, <2>2 DEF Keeps
  <2>4. Replayed(log', lastParent') = Replayed(log, lastParent) BY <2>1
  <2> QED BY <1>1, <1>5, <2>3, <2>4, BesideBranch
<1>6. CASE AppendCustomEntry
  <2>1. Replayed(log', lastParent') = Replayed(log, lastParent) /\ Keeps(log, log')
    BY <1>0, <1>6, CustomKeeps
  <2>2. branch' = branch BY <1>6 DEF AppendCustomEntry
  <2> QED BY <1>1, <2>1, <2>2, BesideBranch
<1>7. CASE TerminalCommand
  <2>1. /\ Keeps(log, log')
        /\ MessageSet(Replayed(log', lastParent'))
             \subseteq MessageSet(Replayed(log, lastParent)) \union Commands
    BY <1>0, <1>7, CommandAddsOutput
  <2>2. branch' = branch BY <1>7 DEF TerminalCommand
  <2> QED BY <1>1, <2>1, <2>2, BesideBranch
<1>8. CASE Compact
  <2>1. Keeps(log, log') BY <1>0, <1>8, CompactKeeps
  <2>2. MessageSet(Replayed(log', lastParent'))
          \subseteq MessageSet(Replayed(log, lastParent)) \union {SummaryMessage}
    BY <1>0, <1>8, CompactionAddsSummary
  <2>3. branch' = branch BY <1>8 DEF Compact
  <2> QED BY <1>1, <2>1, <2>2, <2>3, BesideBranch
<1>9. CASE SendPrompt \/ StartPreCompaction \/ BranchSummarized \/ Die
  <2>1. branch' = NoBranch
    BY <1>9 DEF SendPrompt, StartPreCompaction, CancelsBranch, BranchSummarized, Die
  <2> QED BY <1>2, <2>1
<1>10. CASE RunStep \/ RetryRun \/ CompactionFails \/ OverflowCompaction \/ SendContinue
            \/ Queue \/ Cancel \/ StartManualCompaction
  <2>1. branch' = branch /\ UNCHANGED logVars
    BY <1>10 DEF RunStep, RetryRun, CompactionFails, OverflowCompaction, SendContinue, Queue,
                 Cancel, StartManualCompaction
  <2> QED BY <1>5, <2>1
<1>11. CASE HandleMessageEnd \/ FinishRun \/ Load \/ DieLoading
  <2>1. branch' = branch /\ call \in Runs \cup {"down"}
    BY <1>0, <1>11 DEF HandleMessageEnd, FinishRun, Load, DieLoading, IInv, Heard
  <2>2. branch = NoBranch BY <1>0, <2>1 DEF IInv, Waits, Runs
  <2> QED BY <1>2, <2>1, <2>2
<1>12. CASE UNCHANGED vars
  <2>1. branch' = branch /\ UNCHANGED logVars BY <1>12 DEF vars
  <2> QED BY <1>5, <2>1
<1> QED
  BY <1>3, <1>4, <1>6, <1>7, <1>8, <1>9, <1>10, <1>11, <1>12
     DEF UntornNext, Progress, User, Restart

(* The summary goes below the entry the branch goes back to: what the         *)
(* transcript no longer holds, the branch accounted for elsewhere.            *)
LEMMA SummaryAccounts ==
  ASSUME BInv, BInv', branch # NoBranch, ~branch.overtaken, log' = Summarized, call' # "down"
  PROVE  \A m \in MessageSet(messages) \ MessageSet(messages') :
           \/ m \in {log[n].message : n \in branch.covers}
           \/ m.role = "user" /\ m.via = "append"
<1>1. PICK entries : entries = log OBVIOUS
<1>2. PICK w : w = log' OBVIOUS
<1>3. PICK from : from = branch.from OBVIOUS
<1>4. PICK covers : covers = branch.covers OBVIOUS
<1>5. PICK last : last = lastParent' OBVIOUS
<1>6. PICK e : e = L!BranchSummaryEntry(from) OBVIOUS
<1>7. Tree(entries) /\ from \in 1 .. Len(entries) /\ Len(entries) \in Nat /\ entries # << >>
  <2>1. Tree(entries) BY <1>1 DEF BInv, WInv, IInv, Placed
  <2>2. from \in 1 .. Len(entries) BY <1>1, <1>3 DEF BInv, Accounts
  <2> QED BY <2>1, <2>2 DEF Tree
<1>8. L!Opened(entries) = entries BY <1>7 DEF L!Opened
<1>9. PICK N : N = Len(entries) + 1 OBVIOUS
<1>10. e \in Entry /\ e.type = "branch_summary" /\ e.parent = from
  BY <1>6, <1>7 DEF L!BranchSummaryEntry, Entry
<1>11. w = L!Appended(entries, e) BY <1>1, <1>2, <1>3, <1>6 DEF Summarized
<1>12. /\ Len(w) = N + 1 /\ L!ActiveLeaf(w) = N
       /\ L!Rows(w, N) = Grown(e, N, RowsOf(entries, from))
  <2>1. e.type # "leaf" /\ e.parent \in 0 .. Len(L!Opened(entries)) /\ N = Len(L!Opened(entries)) + 1
    BY <1>7, <1>8, <1>9, <1>10
  <2>2. /\ Len(L!Appended(entries, e)) = N + 1 /\ L!ActiveLeaf(L!Appended(entries, e)) = N
        /\ L!Rows(L!Appended(entries, e), N) = Grown(e, N, RowsOf(entries, e.parent))
    BY <1>7, <1>10, <2>1, AppendedFacts
  <2> QED BY <1>10, <1>11, <2>2
<1>13. w # << >>
  <2>1. Len(<< >>) = 0 OBVIOUS
  <2> QED BY <1>7, <1>9, <1>12, <2>1
<1>14. last = N
  <2>1. last = LeafOf(w) BY <1>2, <1>5 DEF BInv, WInv, IInv
  <2> QED BY <1>12, <1>13, <2>1 DEF LeafOf
<1>15. PICK rows : rows = L!Rows(entries, from) OBVIOUS
<1>16. rows \in Seq(Row(Len(entries)))
  BY <1>7, <1>15, RowsFacts
<1>17. Replayed(entries, from) = L!MessagesOf(rows) BY <1>7, <1>15 DEF Replayed, RowsOf
<1>18. Replayed(w, last)
         = L!MessagesOf(Append(rows, [id |-> N, message |-> SummaryMessage]))
  BY <1>7, <1>10, <1>12, <1>13, <1>14, <1>15 DEF Replayed, RowsOf, Grown
<1>19. MessageSet(Replayed(entries, from)) \union {SummaryMessage} \subseteq MessageSet(Replayed(w, last))
  <2>1. PICK x : x = [id |-> N, message |-> SummaryMessage] OBVIOUS
  <2>2. PICK g : g = Append(rows, x) OBVIOUS
  <2>3. PICK T : T = Row(Len(entries)) \union {x} OBVIOUS
  <2>4. rows \in Seq(T) /\ x \in T BY <1>16, <2>3
  <2>5. /\ DOMAIN g = 1 .. Len(rows) + 1 /\ Len(rows) \in Nat /\ DOMAIN rows = 1 .. Len(rows)
        /\ \A i \in 1 .. Len(rows) : g[i] = rows[i]
        /\ g[Len(rows) + 1] = x
    BY <2>2, <2>4
  <2>6. MessageSet(L!MessagesOf(g)) = {g[i].message : i \in DOMAIN g}
    BY DEF MessageSet, L!MessagesOf
  <2>7. MessageSet(L!MessagesOf(rows)) = {rows[i].message : i \in DOMAIN rows}
    BY DEF MessageSet, L!MessagesOf
  <2>8. MessageSet(L!MessagesOf(rows)) \subseteq MessageSet(L!MessagesOf(g))
    <3>1. ASSUME NEW i \in DOMAIN rows PROVE rows[i].message \in {g[j].message : j \in DOMAIN g}
      <4>1. i \in DOMAIN g /\ g[i] = rows[i] BY <2>5
      <4> QED BY <4>1
    <3> QED BY <2>6, <2>7, <3>1
  <2>9. SummaryMessage \in MessageSet(L!MessagesOf(g))
    <3>1. Len(rows) + 1 \in DOMAIN g /\ x.message = SummaryMessage BY <2>1, <2>5
    <3> QED BY <2>5, <2>6, <3>1
  <2> QED BY <1>17, <1>18, <2>1, <2>2, <2>8, <2>9
<1>20. MessageSet(Replayed(w, last)) \subseteq MessageSet(messages')
  BY <1>2, <1>5 DEF BInv, WInv, IInv
<1>21. MessageSet(messages) \subseteq MessageSet(Replayed(entries, lastParent))
  <2>1. call \in {"idle", "manualCompact"} BY DEF BInv, WInv, IInv, Waits
  <2>2. Covered(messages, Len(messages), Replayed(log, lastParent))
    BY <2>1 DEF BInv, WInv, Written, Runs
  <2>3. DOMAIN messages = 1 .. Len(messages) BY DEF BInv, WInv, IInv, H!TypeOK
  <2>4. \A i \in DOMAIN messages : messages[i] \in MessageSet(Replayed(log, lastParent))
    BY <2>2, <2>3 DEF Covered
  <2> QED BY <1>1, <2>4 DEF MessageSet
<1>22. MessageSet(Replayed(entries, lastParent)) \subseteq Accounted(entries, from, covers)
  BY <1>1, <1>3, <1>4 DEF BInv, Accounts
<1>23. ASSUME NEW m \in MessageSet(messages), m \notin MessageSet(messages')
       PROVE  m \in Of(entries, covers) \union Commands
  BY <1>19, <1>20, <1>21, <1>22, <1>23 DEF Accounted
<1> QED BY <1>1, <1>4, <1>23 DEF Of, Commands

(* SummaryCoversBranch: a branch nothing overtook leaves behind only messages *)
(* its summary was asked about, and the output of terminal commands, whatever *)
(* was compacted, added or branched while the provider wrote the summary.     *)
THEOREM BranchIsAlwaysCovered == UntornSpec => SummaryCoversBranch
<1>1. Init => BInv
  <2> SUFFICES ASSUME Init PROVE BInv
    OBVIOUS
  <2>1. branch = NoBranch BY DEF Init
  <2>2. WInv BY InitWritten
  <2> QED BY <2>1, <2>2 DEF BInv, Accounts
<1> DEFINE Covers == branch # NoBranch /\ ~branch.overtaken /\ log' = Summarized /\ call' # "down" =>
                       \A m \in MessageSet(messages) \ MessageSet(messages') :
                         \/ m \in {log[n].message : n \in branch.covers}
                         \/ m.role = "user" /\ m.via = "append"
<1>2. BInv /\ BInv' => Covers
  BY SummaryAccounts
<1>3. BInv /\ BInv' => [Covers]_vars
  BY <1>2
<1>4. SummaryCoversBranch <=> [][Covers]_vars
  BY DEF SummaryCoversBranch
<1> HIDE DEF Covers
<1> QED BY <1>1, <1>3, <1>4, BranchStep, PTL DEF UntornSpec

-----------------------------------------------------------------------------
(***************************************************************************)
(* What a load brings back.  A call's result can only stand behind it if    *)
(* no message names a call before it is made, so the invariant CInv says    *)
(* that calls are new: in the transcript, on every path of the log, and,    *)
(* for what is not written yet, in all of the log.  The order of a          *)
(* transcript is a relation on the pairs of its messages, which each        *)
(* operator of SessionLog is shown to keep.                                 *)
(***************************************************************************)
(* ... in the order they had.                                                *)
LEMMA AmongPairs ==
  ASSUME NEW S, NEW s \in Seq(S), NEW T, NEW R, Pairwise(s, R)
  PROVE  Pairwise(L!Among(s, T), R)
<1>0. Picked(S, s, T) BY AmongSteps
<1>1. PICK f \in [0 .. Len(s) -> Seq(S \intersect T)] :
        /\ f[0] = << >> /\ L!Among(s, T) = f[Len(s)]
        /\ \A k \in 1 .. Len(s) : f[k] = IF s[k] \in T THEN Append(f[k - 1], s[k]) ELSE f[k - 1]
  BY <1>0 DEF Picked
<1>2. Len(s) \in Nat OBVIOUS
<1> DEFINE K == {k \in 0 .. Len(s) : /\ Pairwise(f[k], R)
                                     /\ \A i \in 1 .. Len(f[k]) : \E j \in 1 .. k : f[k][i] = s[j]}
<1>3. ASSUME NEW k \in 0 .. Len(s), \A j \in 0 .. Len(s) : j < k => j \in K PROVE k \in K
  <2>1. CASE k = 0
    <3>1. Len(f[k]) = 0 BY <1>1, <2>1
    <3> QED BY <3>1 DEF Pairwise
  <2>2. CASE k # 0
    <3>1. k \in 1 .. Len(s) /\ k - 1 \in 0 .. Len(s) /\ k - 1 < k /\ k \in Nat BY <1>2, <2>2
    <3>2. PICK q \in Seq(S \intersect T) : q = f[k - 1] BY <3>1
    <3>3. Pairwise(q, R) /\ \A i \in 1 .. Len(q) : \E j \in 1 .. k - 1 : q[i] = s[j]
      BY <1>3, <3>1, <3>2
    <3>4. CASE s[k] \in T
      <4>1. PICK p : p = Append(q, s[k]) OBVIOUS
      <4>2. f[k] = p BY <1>1, <3>1, <3>2, <3>4, <4>1
      <4>3. /\ Len(q) \in Nat /\ Len(p) = Len(q) + 1 /\ p[Len(q) + 1] = s[k]
            /\ \A i \in 1 .. Len(q) : p[i] = q[i]
        <5>1. s[k] \in S \intersect T BY <3>1, <3>4
        <5> QED BY <4>1, <5>1
      <4>4. ASSUME NEW i \in 1 .. Len(p), NEW j \in 1 .. Len(p), i < j
            PROVE  <<p[i], p[j]>> \in R
        <5>1. i \in 1 .. Len(q) BY <4>3, <4>4
        <5>2. CASE j \in 1 .. Len(q)
          BY <3>3, <4>3, <4>4, <5>1, <5>2 DEF Pairwise
        <5>3. CASE j = Len(q) + 1
          <6>1. PICK x \in 1 .. k - 1 : q[i] = s[x] BY <3>3, <5>1
          <6>2. x \in 1 .. Len(s) /\ x < k BY <3>1
          <6>3. <<s[x], s[k]>> \in R BY <3>1, <6>2 DEF Pairwise
          <6> QED BY <4>3, <5>1, <5>3, <6>1, <6>3
        <5> QED BY <4>3, <5>2, <5>3
      <4>5. ASSUME NEW i \in 1 .. Len(p) PROVE \E j \in 1 .. k : p[i] = s[j]
        <5>1. CASE i \in 1 .. Len(q)
          <6>1. PICK x \in 1 .. k - 1 : q[i] = s[x] BY <3>3, <5>1
          <6>2. x \in 1 .. k BY <3>1
          <6> QED BY <4>3, <5>1, <6>1, <6>2
        <5>2. CASE i = Len(q) + 1
          <6>1. k \in 1 .. k BY <3>1
          <6> QED BY <4>3, <5>2, <6>1
        <5> QED BY <4>3, <5>1, <5>2
      <4> QED BY <4>2, <4>4, <4>5 DEF Pairwise
    <3>5. CASE s[k] \notin T
      <4>1. f[k] = q BY <1>1, <3>1, <3>2, <3>5
      <4>2. 1 .. k - 1 \subseteq 1 .. k BY <3>1
      <4> QED BY <3>3, <4>1, <4>2
    <3> QED BY <3>4, <3>5
  <2> QED BY <2>1, <2>2
<1> HIDE DEF K
<1>4. \A k \in 0 .. Len(s) : k \in K BY <1>2, <1>3, UpTo
<1> QED BY <1>1, <1>2, <1>4 DEF K

(* One more element.                                                         *)
LEMMA AppendPairs ==
  ASSUME NEW S, NEW a \in Seq(S), NEW x \in S
  PROVE  /\ L!ToSet(Append(a, x)) = L!ToSet(a) \union {x}
         /\ \A R : /\ Pairwise(a, R) /\ \A y \in L!ToSet(a) : <<y, x>> \in R
                   => Pairwise(Append(a, x), R)
<1>1. <<x>> \in Seq(S) /\ Append(a, x) = a \o <<x>> OBVIOUS
<1>2. L!ToSet(<<x>>) = {x} BY DEF L!ToSet
<1>3. \A R : Pairwise(<<x>>, R) BY DEF Pairwise
<1>4. PICK b \in Seq(S) : b = <<x>> BY <1>1
<1>5. /\ L!ToSet(a \o b) = L!ToSet(a) \union L!ToSet(b)
      /\ \A R : /\ Pairwise(a, R) /\ Pairwise(b, R)
                /\ \A y \in L!ToSet(a), z \in L!ToSet(b) : <<y, z>> \in R
                => Pairwise(a \o b, R)
  BY ConcatPairs
<1>6. \A R : Pairwise(b, R) BY <1>3, <1>4
<1>7. L!ToSet(b) = {x} /\ Append(a, x) = a \o b BY <1>1, <1>2, <1>4
<1> HIDE <1>4
<1> QED BY <1>5, <1>6, <1>7

(* A part of a sequence has its elements in their order.                     *)
LEMMA PartPairs ==
  ASSUME NEW S, NEW s \in Seq(S), NEW m \in 1 .. Len(s) + 1, NEW n \in 0 .. Len(s), m <= n + 1
  PROVE  /\ SubSeq(s, m, n) \in Seq(S) /\ L!ToSet(SubSeq(s, m, n)) \subseteq L!ToSet(s)
         /\ \A R : Pairwise(s, R) => Pairwise(SubSeq(s, m, n), R)
<1> DEFINE p == SubSeq(s, m, n)
<1>1. /\ p \in Seq(S) /\ Len(p) = n - m + 1 /\ Len(s) \in Nat
      /\ \A i \in 1 .. n - m + 1 : p[i] = s[m + i - 1]
  OBVIOUS
<1> HIDE DEF p
<1>2. \A i \in 1 .. Len(p) : m + i - 1 \in 1 .. Len(s) /\ p[i] = s[m + i - 1] BY <1>1
<1>3. L!ToSet(p) \subseteq L!ToSet(s)
  <2>1. DOMAIN p = 1 .. Len(p) /\ DOMAIN s = 1 .. Len(s) BY <1>1
  <2> QED BY <1>2, <2>1 DEF L!ToSet
<1>4. ASSUME NEW R, Pairwise(s, R) PROVE Pairwise(p, R)
  <2>1. ASSUME NEW i \in 1 .. Len(p), NEW j \in 1 .. Len(p), i < j PROVE <<p[i], p[j]>> \in R
    <3>1. m + i - 1 \in 1 .. Len(s) /\ m + j - 1 \in 1 .. Len(s) /\ m + i - 1 < m + j - 1
      BY <1>1, <1>2, <2>1
    <3> QED BY <1>2, <1>4, <3>1 DEF Pairwise
  <2> QED BY <2>1 DEF Pairwise
<1> QED BY <1>1, <1>3, <1>4 DEF p

(* A compaction adds its summary and keeps the order of the rest.            *)
LEMMA CompactedPairs ==
  ASSUME NEW S, NEW rows \in Seq(S), NEW id, NEW ids, NEW z \in S,
         z = [id |-> id, message |-> SummaryMessage]
  PROVE  /\ L!ToSet(L!Compacted(rows, id, ids)) \subseteq L!ToSet(rows) \union {z}
         /\ \A R : /\ Pairwise(rows, R)
                   /\ \A r \in L!ToSet(rows) : <<r, z>> \in R /\ <<z, r>> \in R
                   => Pairwise(L!Compacted(rows, id, ids), R)
<1> DEFINE replaced == {i \in DOMAIN rows : rows[i].id \in ids}
           kept == {r \in L!ToSet(rows) : r.id \notin ids}
<1>1. CASE replaced = {}
  <2>1. L!Compacted(rows, id, ids) = Append(rows, z)
    BY <1>1 DEF L!Compacted, SummaryMessage
  <2>2. /\ L!ToSet(Append(rows, z)) = L!ToSet(rows) \union {z}
        /\ \A R : /\ Pairwise(rows, R) /\ \A y \in L!ToSet(rows) : <<y, z>> \in R
                  => Pairwise(Append(rows, z), R)
    BY AppendPairs
  <2> QED BY <2>1, <2>2
<1>2. CASE replaced # {}
  <2>1. L!Min(replaced) \in 1 .. Len(rows)
    <3>1. replaced \subseteq Nat /\ replaced \subseteq 1 .. Len(rows) OBVIOUS
    <3> HIDE DEF replaced
    <3> QED BY <1>2, <3>1, LeastOf
  <2>2. PICK m \in 1 .. Len(rows) : m = L!Min(replaced) BY <2>1
  <2> DEFINE front == SubSeq(rows, 1, m - 1)
             back == SubSeq(rows, m + 1, Len(rows))
             f == L!Among(front, kept)
             b == L!Among(back, kept)
  <2>3. L!Compacted(rows, id, ids) = (f \o <<z>>) \o b
    BY <1>2, <2>2 DEF L!Compacted, SummaryMessage
  <2>4. /\ front \in Seq(S) /\ L!ToSet(front) \subseteq L!ToSet(rows)
        /\ \A R : Pairwise(rows, R) => Pairwise(front, R)
    <3>1. /\ 1 \in 1 .. Len(rows) + 1 /\ m - 1 \in 0 .. Len(rows) /\ 1 <= (m - 1) + 1
      OBVIOUS
    <3> QED BY <3>1, PartPairs
  <2>5. /\ back \in Seq(S) /\ L!ToSet(back) \subseteq L!ToSet(rows)
        /\ \A R : Pairwise(rows, R) => Pairwise(back, R)
    <3>1. /\ m + 1 \in 1 .. Len(rows) + 1 /\ Len(rows) \in 0 .. Len(rows)
          /\ m + 1 <= Len(rows) + 1
      OBVIOUS
    <3> QED BY <3>1, PartPairs
  <2> HIDE DEF front, back, kept, replaced
  <2>6. /\ f \in Seq(S) /\ L!ToSet(f) \subseteq L!ToSet(rows)
        /\ \A R : Pairwise(rows, R) => Pairwise(f, R)
    <3>1. /\ f \in Seq(S \intersect kept)
          /\ \A x : x \in L!ToSet(f) <=> x \in L!ToSet(front) /\ x \in kept
      BY <2>4, AmongElements
    <3>2. \A R : Pairwise(front, R) => Pairwise(f, R) BY <2>4, AmongPairs
    <3> HIDE DEF f
    <3> QED BY <2>4, <3>1, <3>2
  <2>7. /\ b \in Seq(S) /\ L!ToSet(b) \subseteq L!ToSet(rows)
        /\ \A R : Pairwise(rows, R) => Pairwise(b, R)
    <3>1. /\ b \in Seq(S \intersect kept)
          /\ \A x : x \in L!ToSet(b) <=> x \in L!ToSet(back) /\ x \in kept
      BY <2>5, AmongElements
    <3>2. \A R : Pairwise(back, R) => Pairwise(b, R) BY <2>5, AmongPairs
    <3> HIDE DEF b
    <3> QED BY <2>5, <3>1, <3>2
  <2>a. ASSUME NEW R, Pairwise(rows, R), NEW x \in L!ToSet(f), NEW y \in L!ToSet(b)
        PROVE  <<x, y>> \in R
    <3>1. x \in L!ToSet(front) /\ y \in L!ToSet(back)
      <4>1. \A v : v \in L!ToSet(f) <=> v \in L!ToSet(front) /\ v \in kept BY <2>4, AmongElements
      <4>2. \A v : v \in L!ToSet(b) <=> v \in L!ToSet(back) /\ v \in kept BY <2>5, AmongElements
      <4> QED BY <2>a, <4>1, <4>2
    <3>2. PICK i \in 1 .. Len(front) : x = front[i] BY <2>4, <3>1 DEF L!ToSet
    <3>3. PICK j \in 1 .. Len(back) : y = back[j] BY <2>5, <3>1 DEF L!ToSet
    <3>4. i \in 1 .. Len(rows) /\ i < m /\ front[i] = rows[i] BY <3>2 DEF front
    <3>5. m + j \in 1 .. Len(rows) /\ i < m + j /\ back[j] = rows[m + j] BY <3>3, <3>4 DEF back
    <3> QED BY <2>a, <3>2, <3>3, <3>4, <3>5 DEF Pairwise
  <2> HIDE DEF f, b
  <2>8. /\ f \o <<z>> \in Seq(S) /\ L!ToSet(f \o <<z>>) = L!ToSet(f) \union {z}
        /\ \A R : /\ Pairwise(f, R) /\ \A y \in L!ToSet(f) : <<y, z>> \in R
                  => Pairwise(f \o <<z>>, R)
    <3>1. f \o <<z>> = Append(f, z) /\ Append(f, z) \in Seq(S) BY <2>6
    <3>2. /\ L!ToSet(Append(f, z)) = L!ToSet(f) \union {z}
          /\ \A R : /\ Pairwise(f, R) /\ \A y \in L!ToSet(f) : <<y, z>> \in R
                    => Pairwise(Append(f, z), R)
      BY <2>6, AppendPairs
    <3> QED BY <3>1, <3>2
  <2>9. PICK g \in Seq(S) : g = f \o <<z>> BY <2>8
  <2>10. /\ L!ToSet(g \o b) = L!ToSet(g) \union L!ToSet(b)
         /\ \A R : /\ Pairwise(g, R) /\ Pairwise(b, R)
                   /\ \A x \in L!ToSet(g), y \in L!ToSet(b) : <<x, y>> \in R
                   => Pairwise(g \o b, R)
    BY <2>7, ConcatPairs
  <2>11. L!Compacted(rows, id, ids) = g \o b BY <2>3, <2>9
  <2>12. L!ToSet(g) = L!ToSet(f) \union {z} BY <2>8, <2>9
  <2>13. ASSUME NEW R, Pairwise(rows, R),
                \A r \in L!ToSet(rows) : <<r, z>> \in R /\ <<z, r>> \in R
         PROVE  Pairwise(g \o b, R)
    <3>1. Pairwise(f, R) /\ Pairwise(b, R) BY <2>6, <2>7, <2>13
    <3>2. Pairwise(g, R) BY <2>6, <2>8, <2>9, <2>13, <3>1
    <3>3. \A x \in L!ToSet(g), y \in L!ToSet(b) : <<x, y>> \in R
      BY <2>7, <2>12, <2>13, <2>a
    <3> QED BY <2>10, <3>1, <3>2, <3>3
  <2> QED BY <2>6, <2>7, <2>10, <2>11, <2>12, <2>13
<1> QED BY <1>1, <1>2

-----------------------------------------------------------------------------
(* The path to an entry is the same when the log has grown.                  *)
LEMMA SamePath ==
  ASSUME NEW a, NEW b, Tree(a), Tree(b), Keeps(a, b)
  PROVE  \A n \in 0 .. Len(a) : L!Path(b, n) = L!Path(a, n)
<1> DEFINE T == {n \in 0 .. Len(a) : L!Path(b, n) = L!Path(a, n)}
<1>0. Len(a) \in Nat /\ Len(b) \in Nat BY DEF Tree
<1>1. ASSUME NEW n \in 0 .. Len(a), \A j \in 0 .. Len(a) : j < n => j \in T PROVE n \in T
  <2>1. CASE n = 0 BY <2>1, PathFacts
  <2>2. CASE n # 0
    <3>1. n \in 1 .. Len(a) /\ n \in 1 .. Len(b) /\ b[n] = a[n] BY <1>0, <2>2 DEF Keeps
    <3>2. a[n].parent \in 0 .. n - 1 BY <3>1 DEF Tree
    <3>3. a[n].parent \in 0 .. Len(a) /\ a[n].parent < n BY <1>0, <3>1, <3>2
    <3>4. L!Path(b, a[n].parent) = L!Path(a, a[n].parent) BY <1>1, <3>3
    <3>5. L!Path(b, n) = {n} \union L!Path(b, b[n].parent) BY <3>1, PathFacts
    <3>6. L!Path(a, n) = {n} \union L!Path(a, a[n].parent) BY <3>1, PathFacts
    <3> QED BY <3>1, <3>4, <3>5, <3>6
  <2> QED BY <2>1, <2>2
<1> HIDE DEF T
<1>2. \A n \in 0 .. Len(a) : n \in T
  BY <1>0, <1>1, UpTo
<1> QED BY <1>2 DEF T

(* What is above an entry of a path is on it.                                *)
LEMMA PathAbove ==
  ASSUME NEW entries, Tree(entries), NEW x
  PROVE  \A n \in 0 .. Len(entries) :
           x \in L!Path(entries, n) => x \in 1 .. Len(entries) /\ L!Path(entries, x) \subseteq L!Path(entries, n)
<1> DEFINE T == {n \in 0 .. Len(entries) : x \in L!Path(entries, n) =>
                   x \in 1 .. Len(entries) /\ L!Path(entries, x) \subseteq L!Path(entries, n)}
<1>0. Len(entries) \in Nat BY DEF Tree
<1>1. ASSUME NEW n \in 0 .. Len(entries), \A j \in 0 .. Len(entries) : j < n => j \in T
      PROVE  n \in T
  <2>1. CASE n = 0 BY <2>1, PathFacts
  <2>2. CASE n # 0
    <3>1. n \in 1 .. Len(entries) BY <1>0, <2>2
    <3>2. PICK up : up = entries[n].parent OBVIOUS
    <3>3. up \in 0 .. Len(entries) /\ up < n BY <1>0, <3>1, <3>2 DEF Tree
    <3>4. L!Path(entries, n) = {n} \union L!Path(entries, up) BY <3>1, <3>2, PathFacts
    <3>5. up \in T BY <1>1, <3>3
    <3> QED BY <3>1, <3>4, <3>5
  <2> QED BY <2>1, <2>2
<1> HIDE DEF T
<1>2. \A n \in 0 .. Len(entries) : n \in T
  BY <1>0, <1>1, UpTo
<1> QED BY <1>2 DEF T

(* The entries that are messages.                                            *)
MessageEntries(entries) == {n \in 1 .. Len(entries) : entries[n].type = "message"}

(* A row is that of an entry on the path, and holds its message; the others  *)
(* hold the summary.                                                         *)
RowTold(entries, leaf, r) ==
  /\ r \in Row(Len(entries)) /\ r.id \in L!Path(entries, leaf)
  /\ r.id \in MessageEntries(entries) => r.message = entries[r.id].message
  /\ r.id \notin MessageEntries(entries) => r.message = SummaryMessage

(* Of two messages' rows, the one before was replayed when the other one was *)
(* written.                                                                  *)
Replays(entries) ==
  {p \in Row(Len(entries)) \X Row(Len(entries)) :
     p[1].id \in MessageEntries(entries) /\ p[2].id \in MessageEntries(entries) =>
       /\ p[1].id \in L!Path(entries, entries[p[2].id].parent)
       /\ p[1] \in L!ToSet(L!Rows(entries, entries[p[2].id].parent))}

(* So it is with every row that a log replays to.                            *)
LEMMA RowsInOrder ==
  ASSUME NEW entries, Tree(entries)
  PROVE  \A leaf \in 0 .. Len(entries) :
           /\ \A r \in L!ToSet(L!Rows(entries, leaf)) : RowTold(entries, leaf, r)
           /\ Pairwise(L!Rows(entries, leaf), Replays(entries))
<1> DEFINE T == {n \in 0 .. Len(entries) :
                   /\ \A r \in L!ToSet(L!Rows(entries, n)) : RowTold(entries, n, r)
                   /\ Pairwise(L!Rows(entries, n), Replays(entries))}
<1>0. Len(entries) \in Nat BY DEF Tree
<1>1. ASSUME NEW n \in 0 .. Len(entries), \A j \in 0 .. Len(entries) : j < n => j \in T
      PROVE  n \in T
  <2>1. CASE n = 0
    <3>1. L!Rows(entries, n) = << >> BY <2>1, RowsFacts
    <3>2. L!ToSet(<< >>) = {} BY DEF L!ToSet
    <3>3. Pairwise(<< >>, Replays(entries)) BY DEF Pairwise
    <3> QED BY <3>1, <3>2, <3>3
  <2>2. CASE n # 0
    <3>1. n \in 1 .. Len(entries) /\ entries[n] \in Entry BY <1>0, <2>2 DEF Tree
    <3>2. PICK up : up = entries[n].parent OBVIOUS
    <3>3. up \in 0 .. Len(entries) /\ up < n BY <1>0, <3>1, <3>2 DEF Tree
    <3>4. L!Path(entries, n) = {n} \union L!Path(entries, up) BY <3>1, <3>2, PathFacts
    <3>5. up \in T BY <1>1, <3>3
    <3>6. PICK rows \in Seq(Row(Len(entries))) : rows = L!Rows(entries, up) BY <3>3, RowsFacts
    <3>7. L!Rows(entries, n) = Grown(entries[n], n, rows) BY <3>1, <3>2, <3>6, RowsFacts
    <3>8. \A r \in L!ToSet(rows) : RowTold(entries, up, r) /\ RowTold(entries, n, r)
      BY <3>4, <3>5, <3>6 DEF RowTold
    <3>9. Pairwise(rows, Replays(entries)) BY <3>5, <3>6
    <3>10. ASSUME NEW z \in Row(Len(entries)), z = [id |-> n, message |-> SummaryMessage],
                  n \notin MessageEntries(entries)
           PROVE  /\ RowTold(entries, n, z)
                  /\ \A r \in L!ToSet(rows) : <<r, z>> \in Replays(entries)
                                              /\ <<z, r>> \in Replays(entries)
      <4>1. z.id = n /\ z.message = SummaryMessage BY <3>10
      <4>2. RowTold(entries, n, z) BY <3>4, <3>10, <4>1 DEF RowTold
      <4>3. ASSUME NEW r \in L!ToSet(rows)
            PROVE  <<r, z>> \in Replays(entries) /\ <<z, r>> \in Replays(entries)
        <5>1. r \in Row(Len(entries)) BY <3>8 DEF RowTold
        <5> QED BY <3>10, <4>1, <5>1 DEF Replays
      <4> QED BY <4>2, <4>3
    <3>11. [id |-> n, message |-> SummaryMessage] \in Row(Len(entries))
      BY <3>1, SummaryIsMessage DEF Row
    <3>12. CASE entries[n].type = "message"
      <4>1. entries[n].message \in H!Messages BY <3>1, <3>12 DEF Entry
      <4>2. PICK z \in Row(Len(entries)) : z = [id |-> n, message |-> entries[n].message]
        BY <3>1, <4>1 DEF Row
      <4>3. L!Rows(entries, n) = Append(rows, z) BY <3>7, <3>12, <4>2 DEF Grown
      <4>4. z.id = n /\ z.message = entries[n].message /\ n \in MessageEntries(entries)
        BY <3>1, <3>12, <4>2 DEF MessageEntries
      <4>5. RowTold(entries, n, z) BY <3>4, <4>4 DEF RowTold
      <4>6. ASSUME NEW r \in L!ToSet(rows) PROVE <<r, z>> \in Replays(entries)
        <5>1. r \in Row(Len(entries)) /\ r.id \in L!Path(entries, up) BY <3>8 DEF RowTold
        <5>2. r \in L!ToSet(L!Rows(entries, entries[z.id].parent))
              /\ r.id \in L!Path(entries, entries[z.id].parent)
          BY <3>2, <3>6, <4>4, <5>1
        <5> QED BY <5>1, <5>2 DEF Replays
      <4>7. /\ L!ToSet(Append(rows, z)) = L!ToSet(rows) \union {z}
            /\ \A R : /\ Pairwise(rows, R) /\ \A y \in L!ToSet(rows) : <<y, z>> \in R
                      => Pairwise(Append(rows, z), R)
        BY AppendPairs
      <4>8. Pairwise(Append(rows, z), Replays(entries)) BY <3>9, <4>6, <4>7
      <4>9. \A r \in L!ToSet(Append(rows, z)) : RowTold(entries, n, r) BY <3>8, <4>5, <4>7
      <4> QED BY <4>3, <4>8, <4>9
    <3>13. CASE entries[n].type = "branch_summary"
      <4>1. PICK z \in Row(Len(entries)) : z = [id |-> n, message |-> SummaryMessage] BY <3>11
      <4>2. L!Rows(entries, n) = Append(rows, z) BY <3>7, <3>13, <4>1 DEF Grown
      <4>3. n \notin MessageEntries(entries) BY <3>13 DEF MessageEntries
      <4>4. /\ RowTold(entries, n, z)
            /\ \A r \in L!ToSet(rows) : <<r, z>> \in Replays(entries)
        BY <3>10, <4>1, <4>3
      <4>5. /\ L!ToSet(Append(rows, z)) = L!ToSet(rows) \union {z}
            /\ \A R : /\ Pairwise(rows, R) /\ \A y \in L!ToSet(rows) : <<y, z>> \in R
                      => Pairwise(Append(rows, z), R)
        BY AppendPairs
      <4>6. Pairwise(Append(rows, z), Replays(entries)) BY <3>9, <4>4, <4>5
      <4>7. \A r \in L!ToSet(Append(rows, z)) : RowTold(entries, n, r) BY <3>8, <4>4, <4>5
      <4> QED BY <4>2, <4>6, <4>7
    <3>14. CASE entries[n].type = "compaction"
      <4>1. PICK z \in Row(Len(entries)) : z = [id |-> n, message |-> SummaryMessage] BY <3>11
      <4>2. PICK g : g = L!Compacted(rows, n, entries[n].replaces) OBVIOUS
      <4>3. L!Rows(entries, n) = g BY <3>7, <3>14, <4>2 DEF Grown
      <4>4. n \notin MessageEntries(entries) BY <3>14 DEF MessageEntries
      <4>5. /\ RowTold(entries, n, z)
            /\ \A r \in L!ToSet(rows) : <<r, z>> \in Replays(entries)
                                        /\ <<z, r>> \in Replays(entries)
        BY <3>10, <4>1, <4>4
      <4>6. /\ L!ToSet(g) \subseteq L!ToSet(rows) \union {z}
            /\ \A R : /\ Pairwise(rows, R)
                      /\ \A r \in L!ToSet(rows) : <<r, z>> \in R /\ <<z, r>> \in R
                      => Pairwise(g, R)
        BY <4>1, <4>2, CompactedPairs
      <4>7. Pairwise(g, Replays(entries)) BY <3>9, <4>5, <4>6
      <4>8. \A r \in L!ToSet(g) : RowTold(entries, n, r) BY <3>8, <4>5, <4>6
      <4> QED BY <4>3, <4>7, <4>8
    <3>15. CASE entries[n].type \notin {"message", "compaction", "branch_summary"}
      <4>1. L!Rows(entries, n) = rows BY <3>7, <3>15 DEF Grown
      <4> QED BY <3>8, <3>9, <4>1
    <3> QED BY <3>12, <3>13, <3>14, <3>15
  <2> QED BY <2>1, <2>2
<1> HIDE DEF T
<1>2. \A n \in 0 .. Len(entries) : n \in T
  BY <1>0, <1>1, UpTo
<1> QED BY <1>2 DEF T

-----------------------------------------------------------------------------
(* The ids of the calls a message makes, and with them the id it answers.    *)
Makes(m) == IF m.role = "assistant" THEN H!Elements(m.calls) ELSE {}
Mentions(m) == Makes(m) \union (IF m.role = "toolResult" THEN {m.call} ELSE {})

(* A call is made under an id that no message before it mentions: in a       *)
(* transcript, and on every branch of a log.                                 *)
Unmentioned == {p \in H!Messages \X H!Messages : Makes(p[2]) \intersect Mentions(p[1]) = {}}
CallsAreNew(msgs) == Pairwise(msgs, Unmentioned)
CallsAreNewIn(entries) ==
  \A n \in MessageEntries(entries) :
    \A x \in MessageEntries(entries) \intersect L!Path(entries, entries[n].parent) :
      Makes(entries[n].message) \intersect Mentions(entries[x].message) = {}

(* A summary mentions none.                                                  *)
LEMMA SummaryMentionsNone == Makes(SummaryMessage) = {} /\ Mentions(SummaryMessage) = {}
BY DEF SummaryMessage, H!User, Makes, Mentions

(* Then the calls of what is replayed are new.                               *)
LEMMA RowsAreNew ==
  ASSUME NEW entries, Tree(entries), CallsAreNewIn(entries), NEW leaf \in 0 .. Len(entries)
  PROVE  CallsAreNew(L!MessagesOf(L!Rows(entries, leaf)))
<1>1. PICK rows \in Seq(Row(Len(entries))) : rows = L!Rows(entries, leaf) BY RowsFacts
<1>2. /\ \A r \in L!ToSet(rows) : RowTold(entries, leaf, r)
      /\ Pairwise(rows, Replays(entries))
  BY <1>1, RowsInOrder
<1>3. PICK msgs : msgs = L!MessagesOf(rows) OBVIOUS
<1>4. /\ msgs \in Seq(H!Messages) /\ Len(msgs) = Len(rows)
      /\ \A i \in 1 .. Len(rows) : msgs[i] = rows[i].message
  BY <1>3, MessagesFacts
<1>5. ASSUME NEW i \in 1 .. Len(rows), NEW j \in 1 .. Len(rows), i < j
      PROVE  <<msgs[i], msgs[j]>> \in Unmentioned
  <2>1. PICK r \in Row(Len(entries)) : r = rows[i] OBVIOUS
  <2>2. PICK q \in Row(Len(entries)) : q = rows[j] OBVIOUS
  <2>3. RowTold(entries, leaf, r) /\ RowTold(entries, leaf, q)
    <3>1. r \in L!ToSet(rows) /\ q \in L!ToSet(rows) BY <2>1, <2>2 DEF L!ToSet
    <3> QED BY <1>2, <3>1
  <2>4. <<r, q>> \in Replays(entries) BY <1>2, <1>5, <2>1, <2>2 DEF Pairwise
  <2>5. msgs[i] = r.message /\ msgs[j] = q.message /\ msgs[i] \in H!Messages /\ msgs[j] \in H!Messages
    BY <1>4, <2>1, <2>2
  <2>6. Makes(q.message) \intersect Mentions(r.message) = {}
    <3>1. CASE r.id \notin MessageEntries(entries) \/ q.id \notin MessageEntries(entries)
      BY <2>3, <3>1, SummaryMentionsNone DEF RowTold
    <3>2. CASE r.id \in MessageEntries(entries) /\ q.id \in MessageEntries(entries)
      <4>1. r.id \in L!Path(entries, entries[q.id].parent) BY <2>4, <3>2 DEF Replays
      <4> QED BY <2>3, <3>2, <4>1 DEF RowTold, CallsAreNewIn
    <3> QED BY <3>1, <3>2
  <2> QED BY <2>5, <2>6 DEF Unmentioned
<1> QED BY <1>1, <1>3, <1>4, <1>5 DEF CallsAreNew, Pairwise

(* Messages written below an entry, one below the other.                     *)
Linked(a, w, q, u, pos) ==
  /\ Tree(a) /\ Tree(w) /\ Keeps(a, w) /\ q \in 0 .. Len(a) /\ u \in Seq(H!Messages)
  /\ pos \in [1 .. Len(u) -> 1 .. Len(w)]
  /\ \A m \in 1 .. Len(u) :
       w[pos[m]] = L!MessageEntry(IF m = 1 THEN q ELSE pos[m - 1], u[m])
  /\ \A n \in 1 .. Len(w) : n > Len(a) /\ w[n].type = "message" => \E m \in 1 .. Len(u) : n = pos[m]

(* What is on the path of such a message, and what is replayed down to it.   *)
LEMMA LinkedPath ==
  ASSUME NEW a, NEW w, NEW q, NEW u, NEW pos, Linked(a, w, q, u, pos)
  PROVE  \A m \in 1 .. Len(u) :
           /\ w[pos[m]].type = "message" /\ w[pos[m]].message = u[m]
           /\ w[pos[m]].parent = (IF m = 1 THEN q ELSE pos[m - 1])
           /\ L!Path(w, pos[m]) \subseteq L!Path(a, q) \union {pos[i] : i \in 1 .. m}
           /\ L!MessagesOf(L!Rows(w, pos[m])) = L!MessagesOf(L!Rows(a, q)) \o SubSeq(u, 1, m)
<1> DEFINE k == Len(u)
           old == L!MessagesOf(L!Rows(a, q))
           Good(m) == /\ L!Path(w, pos[m]) \subseteq L!Path(a, q) \union {pos[i] : i \in 1 .. m}
                      /\ L!MessagesOf(L!Rows(w, pos[m])) = old \o SubSeq(u, 1, m)
           T == {m \in 0 .. k : m > 0 => Good(m)}
<1>0. /\ k \in Nat /\ Len(a) \in Nat /\ Len(w) \in Nat /\ Len(a) <= Len(w)
      /\ Tree(a) /\ Tree(w) /\ Keeps(a, w) /\ q \in 0 .. Len(a) /\ u \in Seq(H!Messages)
      /\ pos \in [1 .. k -> 1 .. Len(w)]
  BY DEF Linked, Tree, Keeps
<1>1. ASSUME NEW m \in 1 .. k
      PROVE  /\ w[pos[m]].type = "message" /\ w[pos[m]].message = u[m]
             /\ w[pos[m]].parent = (IF m = 1 THEN q ELSE pos[m - 1])
  <2>1. PICK p : p = IF m = 1 THEN q ELSE pos[m - 1] OBVIOUS
  <2>2. w[pos[m]] = L!MessageEntry(p, u[m]) BY <2>1 DEF Linked
  <2> QED BY <2>1, <2>2 DEF L!MessageEntry
<1>2. L!Path(w, q) = L!Path(a, q) /\ L!Rows(w, q) = L!Rows(a, q)
  <2>1. Len(a) <= Len(w) /\ \A i \in 1 .. Len(a) : w[i] = a[i] BY <1>0 DEF Keeps
  <2> QED BY <1>0, <2>1, SamePath, SameRows
<1>3. old \in Seq(H!Messages)
  <2>1. L!Rows(a, q) \in Seq(Row(Len(a))) BY <1>0, RowsFacts
  <2> QED BY <2>1, MessagesFacts
<1> HIDE DEF old
<1>4. ASSUME NEW m \in 1 .. k, NEW up \in 0 .. Len(w), up = w[pos[m]].parent
      PROVE  /\ L!Path(w, pos[m]) = {pos[m]} \union L!Path(w, up)
             /\ L!MessagesOf(L!Rows(w, pos[m])) = Append(L!MessagesOf(L!Rows(w, up)), u[m])
  <2>1. pos[m] \in 1 .. Len(w) /\ w[pos[m]].type = "message" /\ w[pos[m]].message = u[m]
    BY <1>0, <1>1
  <2>2. PICK n \in 1 .. Len(w) : n = pos[m] BY <2>1
  <2>3. L!Rows(w, n) = Grown(w[n], n, L!Rows(w, up)) /\ L!Path(w, n) = {n} \union L!Path(w, up)
    BY <1>0, <1>4, <2>2, RowsFacts, PathFacts
  <2>4. PICK rows \in Seq(Row(Len(w))) : rows = L!Rows(w, up) BY <1>0, RowsFacts
  <2>5. u[m] \in H!Messages BY <1>0
  <2>6. PICK z \in Row(Len(w)) : z = [id |-> n, message |-> u[m]] BY <2>5 DEF Row
  <2>7. L!Rows(w, n) = Append(rows, z) BY <2>1, <2>2, <2>3, <2>4, <2>6 DEF Grown
  <2>8. L!MessagesOf(Append(rows, z)) = Append(L!MessagesOf(rows), u[m])
    <3>1. z.message = u[m] BY <2>6
    <3>2. PICK l : l = Append(rows, z) OBVIOUS
    <3>3. /\ l \in Seq(Row(Len(w))) /\ Len(l) = Len(rows) + 1 /\ Len(rows) \in Nat
          /\ \A i \in 1 .. Len(rows) : l[i] = rows[i]
          /\ l[Len(rows) + 1] = z
      BY <3>2
    <3>4. /\ L!MessagesOf(l) \in Seq(H!Messages) /\ Len(L!MessagesOf(l)) = Len(l)
          /\ \A i \in 1 .. Len(l) : L!MessagesOf(l)[i] = l[i].message
      BY <3>3, MessagesFacts
    <3>5. /\ L!MessagesOf(rows) \in Seq(H!Messages) /\ Len(L!MessagesOf(rows)) = Len(rows)
          /\ \A i \in 1 .. Len(rows) : L!MessagesOf(rows)[i] = rows[i].message
      BY MessagesFacts
    <3>6. PICK b \in Seq(H!Messages) : b = L!MessagesOf(l) BY <3>4
    <3>7. PICK c \in Seq(H!Messages) : c = L!MessagesOf(rows) BY <3>5
    <3>8. PICK d \in Seq(H!Messages) : d = Append(c, u[m])
      <4>1. PICK x \in H!Messages : x = u[m] BY <2>5
      <4>2. Append(c, x) \in Seq(H!Messages) OBVIOUS
      <4> QED BY <4>1, <4>2
    <3>9. Len(d) = Len(b) /\ \A i \in 1 .. Len(b) : b[i] = d[i]
      BY <2>5, <3>1, <3>3, <3>4, <3>5, <3>6, <3>7, <3>8
    <3>10. b = d BY <3>9, SeqEqual
    <3> QED BY <3>2, <3>6, <3>7, <3>8, <3>10
  <2> QED BY <2>2, <2>3, <2>4, <2>7, <2>8
<1>5. ASSUME NEW m \in 0 .. k, \A j \in 0 .. k : j < m => j \in T PROVE m \in T
  <2>1. CASE m = 0 BY <2>1
  <2>2. CASE m = 1
    <3>1. m \in 1 .. k BY <1>5, <2>2
    <3>2. w[pos[m]].parent = q /\ q \in 0 .. Len(w) BY <1>0, <1>1, <2>2, <3>1
    <3>3. /\ L!Path(w, pos[m]) = {pos[m]} \union L!Path(a, q)
          /\ L!MessagesOf(L!Rows(w, pos[m])) = Append(old, u[m])
      BY <1>2, <1>4, <3>1, <3>2 DEF old
    <3>4. Append(old \o SubSeq(u, 1, m - 1), u[m]) = old \o SubSeq(u, 1, m)
      BY <1>0, <1>3, <3>1, OneMore
    <3>5. old \o SubSeq(u, 1, m - 1) = old
      <4>1. SubSeq(u, 1, m - 1) = << >> BY <1>0, <2>2
      <4> QED BY <1>3, <4>1
    <3>6. m \in 1 .. m BY <2>2
    <3> QED BY <3>3, <3>4, <3>5, <3>6
  <2>3. CASE m > 1
    <3>1. m \in 1 .. k /\ m - 1 \in 1 .. k /\ m - 1 \in 0 .. k /\ m - 1 < m /\ m - 1 > 0 /\ m # 1
      BY <1>0, <1>5, <2>3
    <3>2. Good(m - 1) BY <1>5, <3>1
    <3>3. w[pos[m]].parent = pos[m - 1] /\ pos[m - 1] \in 0 .. Len(w) BY <1>0, <1>1, <3>1
    <3>4. /\ L!Path(w, pos[m]) = {pos[m]} \union L!Path(w, pos[m - 1])
          /\ L!MessagesOf(L!Rows(w, pos[m])) = Append(L!MessagesOf(L!Rows(w, pos[m - 1])), u[m])
      BY <1>4, <3>1, <3>3
    <3>5. Append(old \o SubSeq(u, 1, m - 1), u[m]) = old \o SubSeq(u, 1, m)
      BY <1>0, <1>3, <3>1, OneMore
    <3>6. 1 .. m - 1 \subseteq 1 .. m /\ m \in 1 .. m BY <3>1
    <3>7. {pos[i] : i \in 1 .. m - 1} \subseteq {pos[i] : i \in 1 .. m} /\ pos[m] \in {pos[i] : i \in 1 .. m}
      BY <3>6
    <3> QED BY <3>2, <3>4, <3>5, <3>7
  <2>4. m = 0 \/ m = 1 \/ m > 1 BY <1>0
  <2> HIDE DEF T
  <2> QED BY <2>1, <2>2, <2>3, <2>4
<1> HIDE DEF T
<1>6. \A m \in 0 .. k : m \in T BY <1>0, <1>5, UpTo
<1>7. ASSUME NEW m \in 1 .. k PROVE Good(m)
  <2>1. m \in 0 .. k /\ m > 0 OBVIOUS
  <2> QED BY <1>6, <2>1 DEF T
<1> QED BY <1>1, <1>7 DEF old, k

(* What is written below an entry makes new calls, if they are new to each   *)
(* other and to what is above.                                               *)
LEMMA WrittenAreNew ==
  ASSUME NEW a, NEW w, NEW q, NEW u, NEW pos, Linked(a, w, q, u, pos),
         CallsAreNewIn(a), CallsAreNew(u),
         \A m \in 1 .. Len(u) : \A x \in MessageEntries(a) \intersect L!Path(a, q) :
           Makes(u[m]) \intersect Mentions(a[x].message) = {}
  PROVE  CallsAreNewIn(w)
<1>0. /\ Len(u) \in Nat /\ Len(a) \in Nat /\ Len(w) \in Nat /\ Len(a) <= Len(w)
      /\ Tree(a) /\ Tree(w) /\ Keeps(a, w) /\ q \in 0 .. Len(a) /\ u \in Seq(H!Messages)
      /\ pos \in [1 .. Len(u) -> 1 .. Len(w)]
  BY DEF Linked, Tree, Keeps
<1>1. \A n \in 0 .. Len(a) : L!Path(w, n) = L!Path(a, n) /\ L!Path(a, n) \subseteq 1 .. Len(a)
  BY <1>0, SamePath, PathFacts
<1>2. \A x \in 1 .. Len(a) : w[x] = a[x] /\ x \in 1 .. Len(w) BY <1>0 DEF Keeps
<1>3. ASSUME NEW n \in MessageEntries(w), NEW x \in MessageEntries(w) \intersect L!Path(w, w[n].parent)
      PROVE  Makes(w[n].message) \intersect Mentions(w[x].message) = {}
  <2>1. n \in 1 .. Len(w) /\ w[n].type = "message" BY DEF MessageEntries
  <2>2. CASE n <= Len(a)
    <3>1. n \in 1 .. Len(a) /\ w[n] = a[n] /\ a[n].parent \in 0 .. Len(a)
      <4>1. n \in 1 .. Len(a) /\ w[n] = a[n] BY <1>0, <1>2, <2>1, <2>2
      <4>2. a[n].parent \in 0 .. n - 1 BY <1>0, <4>1 DEF Tree
      <4> QED BY <1>0, <4>1, <4>2
    <3>2. x \in L!Path(a, a[n].parent) /\ x \in 1 .. Len(a) BY <1>1, <3>1
    <3>3. w[x] = a[x] BY <1>2, <3>2
    <3>4. n \in MessageEntries(a) /\ x \in MessageEntries(a)
      BY <2>1, <3>1, <3>2, <3>3 DEF MessageEntries
    <3> QED BY <3>1, <3>2, <3>3, <3>4 DEF CallsAreNewIn
  <2>3. CASE n > Len(a)
    <3>1. PICK m \in 1 .. Len(u) : n = pos[m] BY <2>1, <2>3 DEF Linked
    <3>2. w[n].message = u[m] /\ w[n].parent = (IF m = 1 THEN q ELSE pos[m - 1])
      BY <3>1, LinkedPath
    <3>3. CASE x \in L!Path(a, q)
      <4>1. x \in 1 .. Len(a) /\ w[x] = a[x] BY <1>0, <1>1, <1>2, <3>3
      <4>2. x \in MessageEntries(a) BY <4>1 DEF MessageEntries
      <4> QED BY <3>2, <3>3, <4>1, <4>2
    <3>4. CASE x \notin L!Path(a, q)
      <4>1. m # 1 BY <1>0, <1>1, <3>2, <3>4
      <4>2. m - 1 \in 1 .. Len(u) BY <1>0, <4>1
      <4>3. L!Path(w, pos[m - 1]) \subseteq L!Path(a, q) \union {pos[i] : i \in 1 .. m - 1}
        BY <4>2, LinkedPath
      <4>4. PICK i \in 1 .. m - 1 : x = pos[i] BY <3>2, <3>4, <4>1, <4>3
      <4>5. i \in 1 .. Len(u) /\ i < m BY <4>4
      <4>6. w[x].message = u[i] BY <4>4, <4>5, LinkedPath
      <4>7. <<u[i], u[m]>> \in Unmentioned BY <4>5 DEF CallsAreNew, Pairwise
      <4> QED BY <3>2, <4>6, <4>7 DEF Unmentioned
    <3> QED BY <3>3, <3>4
  <2> QED BY <1>0, <2>1, <2>2, <2>3
<1> QED BY <1>3 DEF CallsAreNewIn

-----------------------------------------------------------------------------
(* The ids that are mentioned are among the first n ...                      *)
Known(msgs, n) == \A i \in 1 .. Len(msgs) : Mentions(msgs[i]) \subseteq 1 .. n
KnownIn(entries, n) ==
  \A x \in MessageEntries(entries) : Mentions(entries[x].message) \subseteq 1 .. n

(* ... and none of these is.                                                 *)
Strange(ids, msgs) == \A i \in 1 .. Len(msgs) : ids \intersect Mentions(msgs[i]) = {}
StrangeIn(ids, entries) ==
  \A x \in MessageEntries(entries) : ids \intersect Mentions(entries[x].message) = {}

(* Calls are new in a transcript and in a log, and those of the transcript   *)
(* after `count` are in no entry of the log.                                 *)
Fresh(msgs, entries, n, count) ==
  /\ Known(msgs, n) /\ KnownIn(entries, n)
  /\ CallsAreNew(msgs) /\ CallsAreNewIn(entries)
  /\ \A i \in 1 .. Len(msgs) : i > count => StrangeIn(Makes(msgs[i]), entries)

(* What is added to a transcript makes no call.                              *)
Quiet(a, b, n) ==
  /\ Extends(a, b)
  /\ \A i \in 1 .. Len(b) : i > Len(a) => Makes(b[i]) = {} /\ Mentions(b[i]) \subseteq 1 .. n

(* What is added to a log holds these messages, if any.                      *)
Gains(a, w, u) ==
  /\ CallsAreNewIn(w)
  /\ \A x \in MessageEntries(w) : \/ x \in MessageEntries(a) /\ w[x] = a[x]
                                  \/ \E m \in 1 .. Len(u) : w[x].message = u[m]

(* Then the log names what it named before or what was written does.         *)
LEMMA GainsKnown ==
  ASSUME NEW a, NEW w, NEW u, Gains(a, w, u), NEW n, KnownIn(a, n), Known(u, n)
  PROVE  KnownIn(w, n)
BY DEF Gains, KnownIn, Known

LEMMA GainsStrange ==
  ASSUME NEW a, NEW w, NEW u, Gains(a, w, u), NEW ids, StrangeIn(ids, a), Strange(ids, u)
  PROVE  StrangeIn(ids, w)
BY DEF Gains, StrangeIn, Strange

(* A transcript that grows without a call.                                   *)
LEMMA QuietFresh ==
  ASSUME NEW a \in Seq(H!Messages), NEW b, NEW n, Quiet(a, b, n), NEW entries,
         NEW count \in Nat, Fresh(a, entries, n, count)
  PROVE  Fresh(b, entries, n, count)
<1>1. /\ b \in Seq(H!Messages) /\ Len(a) \in Nat /\ Len(b) \in Nat
      /\ \A i \in 1 .. Len(b) : i <= Len(a) => i \in 1 .. Len(a) /\ b[i] = a[i]
  BY DEF Quiet, Extends
<1>2. \A i \in 1 .. Len(b) : ~(i <= Len(a)) => Makes(b[i]) = {} /\ Mentions(b[i]) \subseteq 1 .. n
  BY <1>1 DEF Quiet
<1>3. Known(b, n)
  BY <1>1, <1>2 DEF Fresh, Known
<1>4. ASSUME NEW i \in 1 .. Len(b), NEW j \in 1 .. Len(b), i < j
      PROVE  <<b[i], b[j]>> \in Unmentioned
  <2>1. CASE j <= Len(a)
    <3>1. i \in 1 .. Len(a) /\ j \in 1 .. Len(a) /\ b[i] = a[i] /\ b[j] = a[j]
      BY <1>1, <1>4, <2>1
    <3> QED BY <1>4, <3>1 DEF Fresh, CallsAreNew, Pairwise
  <2>2. CASE ~(j <= Len(a))
    <3>1. Makes(b[j]) = {} BY <1>2, <2>2
    <3>2. b[i] \in H!Messages /\ b[j] \in H!Messages BY <1>1
    <3> QED BY <3>1, <3>2 DEF Unmentioned
  <2> QED BY <2>1, <2>2
<1>5. CallsAreNew(b) BY <1>4 DEF CallsAreNew, Pairwise
<1>6. ASSUME NEW i \in 1 .. Len(b), i > count PROVE StrangeIn(Makes(b[i]), entries)
  <2>1. CASE i <= Len(a) BY <1>1, <1>6, <2>1 DEF Fresh
  <2>2. CASE ~(i <= Len(a)) BY <1>2, <2>2 DEF StrangeIn
  <2> QED BY <2>1, <2>2
<1> QED BY <1>3, <1>5, <1>6 DEF Fresh

(* A transcript that grows by one with new calls.                            *)
LEMMA ReplyFresh ==
  ASSUME NEW a \in Seq(H!Messages), NEW r \in H!Messages, NEW n, Mentions(r) \subseteq 1 .. n,
         NEW entries, NEW count \in Nat, Fresh(a, entries, n, count),
         Strange(Makes(r), a), StrangeIn(Makes(r), entries)
  PROVE  Fresh(Append(a, r), entries, n, count)
<1>0. PICK x \in H!Messages : x = r OBVIOUS
<1>a. Append(a, x) \in Seq(H!Messages) OBVIOUS
<1>1. PICK b \in Seq(H!Messages) : b = Append(a, r) BY <1>0, <1>a
<1>2. /\ Len(a) \in Nat /\ Len(b) = Len(a) + 1 /\ b[Len(a) + 1] = r
      /\ \A i \in 1 .. Len(a) : b[i] = a[i]
  BY <1>1
<1>3. \A i \in 1 .. Len(b) : (i \in 1 .. Len(a) /\ b[i] = a[i]) \/ (i = Len(a) + 1 /\ b[i] = r)
  BY <1>2
<1>4. Known(b, n) BY <1>3 DEF Fresh, Known
<1>5. ASSUME NEW i \in 1 .. Len(b), NEW j \in 1 .. Len(b), i < j
      PROVE  <<b[i], b[j]>> \in Unmentioned
  <2>0. i \in 1 .. Len(a) /\ b[i] = a[i] BY <1>2, <1>5
  <2>1. CASE j \in 1 .. Len(a)
    BY <1>2, <1>5, <2>0, <2>1 DEF Fresh, CallsAreNew, Pairwise
  <2>2. CASE j = Len(a) + 1
    <3>1. b[j] = r /\ b[i] \in H!Messages BY <1>2, <2>2
    <3>2. Makes(r) \intersect Mentions(b[i]) = {} BY <2>0 DEF Strange
    <3> QED BY <3>1, <3>2 DEF Unmentioned
  <2> QED BY <1>2, <2>1, <2>2
<1>6. CallsAreNew(b) BY <1>5 DEF CallsAreNew, Pairwise
<1>7. \A i \in 1 .. Len(b) : i > count => StrangeIn(Makes(b[i]), entries)
  BY <1>3 DEF Fresh
<1> QED BY <1>1, <1>4, <1>6, <1>7 DEF Fresh

(* A log that grows by messages without ids.                                 *)
LEMMA GainFresh ==
  ASSUME NEW a, NEW entries, NEW n, NEW count, Fresh(a, entries, n, count),
         NEW u, NEW w, Gains(entries, w, u), \A m \in 1 .. Len(u) : Mentions(u[m]) = {}
  PROVE  Fresh(a, w, n, count)
<1>1. Known(u, n) BY DEF Known
<1>2. \A ids : Strange(ids, u) BY DEF Strange
<1>3. KnownIn(w, n) BY <1>1, GainsKnown DEF Fresh
<1>4. \A ids : StrangeIn(ids, entries) => StrangeIn(ids, w) BY <1>2, GainsStrange
<1> QED BY <1>3, <1>4 DEF Fresh, Gains

(* What a log replays to.                                                    *)
LEMMA ReplayFresh ==
  ASSUME NEW entries, NEW leaf, Placed(entries, leaf), CallsAreNewIn(entries),
         NEW n, KnownIn(entries, n), entries # << >>
  PROVE  /\ Replayed(entries, leaf) \in Seq(H!Messages)
         /\ Fresh(Replayed(entries, leaf), entries, n, Len(Replayed(entries, leaf)))
<1>1. Tree(entries) /\ leaf \in 0 .. Len(entries) BY DEF Placed, L!Opened
<1>2. PICK rows \in Seq(Row(Len(entries))) : rows = L!Rows(entries, leaf) BY <1>1, RowsFacts
<1>3. \A r \in L!ToSet(rows) : RowTold(entries, leaf, r) BY <1>1, <1>2, RowsInOrder
<1>4. PICK msgs : msgs = L!MessagesOf(rows) OBVIOUS
<1>5. /\ msgs \in Seq(H!Messages) /\ Len(msgs) = Len(rows)
      /\ \A i \in 1 .. Len(rows) : msgs[i] = rows[i].message
  BY <1>4, MessagesFacts
<1>6. Replayed(entries, leaf) = msgs BY <1>2, <1>4, ReplayedTyped
<1>7. CallsAreNew(msgs) BY <1>1, <1>2, <1>4, RowsAreNew
<1>8. ASSUME NEW i \in 1 .. Len(msgs) PROVE Mentions(msgs[i]) \subseteq 1 .. n
  <2>1. i \in 1 .. Len(rows) BY <1>5
  <2>2. rows[i] \in L!ToSet(rows) BY <2>1 DEF L!ToSet
  <2>3. RowTold(entries, leaf, rows[i]) BY <1>3, <2>2
  <2>4. CASE rows[i].id \in MessageEntries(entries)
    BY <1>5, <2>1, <2>3, <2>4 DEF RowTold, KnownIn
  <2>5. CASE rows[i].id \notin MessageEntries(entries)
    BY <1>5, <2>1, <2>3, <2>5, SummaryMentionsNone DEF RowTold
  <2> QED BY <2>4, <2>5
<1>9. \A i \in 1 .. Len(msgs) : ~(i > Len(msgs)) BY <1>5
<1> QED BY <1>5, <1>6, <1>7, <1>8, <1>9 DEF Fresh, Known

(* A log that grows by no message.                                           *)
LEMMA NoMessageGains ==
  ASSUME NEW a, NEW w, Tree(a), Tree(w), Keeps(a, w), CallsAreNewIn(a),
         MessageEntries(w) \subseteq 1 .. Len(a), NEW u
  PROVE  Gains(a, w, u)
<1>1. \A x \in 1 .. Len(a) : w[x] = a[x] BY DEF Keeps
<1>2. \A x \in MessageEntries(w) : x \in MessageEntries(a) /\ w[x] = a[x]
  BY <1>1 DEF MessageEntries
<1>3. ASSUME NEW n \in MessageEntries(w), NEW x \in MessageEntries(w) \intersect L!Path(w, w[n].parent)
      PROVE  Makes(w[n].message) \intersect Mentions(w[x].message) = {}
  <2>1. n \in MessageEntries(a) /\ w[n] = a[n] /\ x \in MessageEntries(a) /\ w[x] = a[x] BY <1>2
  <2>2. a[n].parent \in 0 .. Len(a)
    <3>1. n \in 1 .. Len(a) /\ Len(a) \in Nat BY <2>1 DEF MessageEntries, Tree
    <3>2. a[n].parent \in 0 .. n - 1 BY <3>1 DEF Tree
    <3> QED BY <3>1, <3>2
  <2>3. L!Path(w, a[n].parent) = L!Path(a, a[n].parent) BY <2>2, SamePath
  <2>4. x \in MessageEntries(a) \intersect L!Path(a, a[n].parent) BY <2>1, <2>3
  <2> QED BY <2>1, <2>4 DEF CallsAreNewIn
<1> QED BY <1>2, <1>3 DEF Gains, CallsAreNewIn

(* The first entries of a log.                                               *)
LEMMA CutIsNew ==
  ASSUME NEW v, NEW w, Tree(v), Tree(w), Keeps(v, w), CallsAreNewIn(w)
  PROVE  CallsAreNewIn(v) /\ \A n : KnownIn(w, n) => KnownIn(v, n)
<1>1. Len(v) \in Nat /\ Len(w) \in Nat BY DEF Tree
<1>2. \A x \in MessageEntries(v) : x \in MessageEntries(w) /\ w[x] = v[x]
  BY <1>1 DEF MessageEntries, Keeps
<1>3. ASSUME NEW n \in MessageEntries(v), NEW x \in MessageEntries(v) \intersect L!Path(v, v[n].parent)
      PROVE  Makes(v[n].message) \intersect Mentions(v[x].message) = {}
  <2>1. n \in MessageEntries(w) /\ w[n] = v[n] /\ x \in MessageEntries(w) /\ w[x] = v[x] BY <1>2
  <2>2. v[n].parent \in 0 .. Len(v)
    <3>1. n \in 1 .. Len(v) BY DEF MessageEntries
    <3>2. v[n].parent \in 0 .. n - 1 BY <3>1 DEF Tree
    <3> QED BY <1>1, <3>1, <3>2
  <2>3. L!Path(w, v[n].parent) = L!Path(v, v[n].parent) BY <2>2, SamePath
  <2> QED BY <2>1, <2>3 DEF CallsAreNewIn
<1>4. \A n : KnownIn(w, n) => KnownIn(v, n) BY <1>2 DEF KnownIn
<1> QED BY <1>3, <1>4 DEF CallsAreNewIn

(* A log that is opened.                                                     *)
LEMMA OpenedGains ==
  ASSUME NEW a, Tree(a), CallsAreNewIn(a)
  PROVE  Gains(a, L!Opened(a), << >>)
<1>1. CASE a = << >>
  <2>1. L!Opened(a) = <<L!Meta>> BY <1>1 DEF L!Opened
  <2>2. MessageEntries(L!Opened(a)) = {} BY <2>1 DEF MessageEntries, L!Meta
  <2> QED BY <2>2 DEF Gains, CallsAreNewIn
<1>2. CASE a # << >>
  <2>1. L!Opened(a) = a BY <1>2 DEF L!Opened
  <2> QED BY <2>1 DEF Gains
<1> QED BY <1>1, <1>2

(* Messages written one below the other.                                     *)
LEMMA LinkedGains ==
  ASSUME NEW a, Tree(a), CallsAreNewIn(a), NEW w, NEW q, NEW u, NEW pos,
         Linked(L!Opened(a), w, q, u, pos), CallsAreNew(u),
         \A m \in 1 .. Len(u) : StrangeIn(Makes(u[m]), a)
  PROVE  Gains(a, w, u)
<1>1. PICK b : b = L!Opened(a) OBVIOUS
<1>2. Gains(a, b, << >>) BY <1>1, OpenedGains
<1>3. CallsAreNewIn(b) /\ \A x \in MessageEntries(b) : x \in MessageEntries(a) /\ b[x] = a[x]
  BY <1>2 DEF Gains
<1>4. /\ Tree(b) /\ Tree(w) /\ Keeps(b, w) /\ Linked(b, w, q, u, pos)
      /\ Len(b) \in Nat /\ Len(w) \in Nat
  BY <1>1 DEF Linked, Tree
<1>5. \A m \in 1 .. Len(u) : \A x \in MessageEntries(b) \intersect L!Path(b, q) :
        Makes(u[m]) \intersect Mentions(b[x].message) = {}
  BY <1>3 DEF StrangeIn
<1>6. CallsAreNewIn(w) BY <1>3, <1>4, <1>5, WrittenAreNew
<1>7. ASSUME NEW x \in MessageEntries(w)
      PROVE  \/ x \in MessageEntries(a) /\ w[x] = a[x]
             \/ \E m \in 1 .. Len(u) : w[x].message = u[m]
  <2>0. x \in 1 .. Len(w) /\ w[x].type = "message" BY DEF MessageEntries
  <2>1. CASE x <= Len(b)
    <3>1. x \in 1 .. Len(b) /\ w[x] = b[x] BY <1>4, <2>0, <2>1 DEF Keeps
    <3>2. x \in MessageEntries(b) BY <2>0, <3>1 DEF MessageEntries
    <3> QED BY <1>3, <3>1, <3>2
  <2>2. CASE x > Len(b)
    <3>1. PICK m \in 1 .. Len(u) : x = pos[m] BY <1>4, <2>0, <2>2 DEF Linked
    <3>2. w[pos[m]].message = u[m] BY <1>4, LinkedPath
    <3> QED BY <3>1, <3>2
  <2> QED BY <1>4, <2>0, <2>1, <2>2
<1> QED BY <1>6, <1>7 DEF Gains

(* Messages written by one call.                                             *)
LEMMA WithGains ==
  ASSUME NEW a, NEW leaf, Placed(a, leaf), CallsAreNewIn(a),
         NEW u \in Seq(H!Messages), CallsAreNew(u),
         \A m \in 1 .. Len(u) : StrangeIn(Makes(u[m]), a),
         NEW w, w = L!WithMessages(a, leaf, u)
  PROVE  Gains(a, w, u)
<1>0. Tree(a) /\ leaf \in 0 .. Len(L!Opened(a)) BY DEF Placed
<1>1. CASE u = << >>
  <2>1. w = a BY <1>1 DEF L!WithMessages
  <2> QED BY <2>1 DEF Gains
<1>2. CASE u # << >>
  <2>1. PICK b : b = L!Opened(a) OBVIOUS
  <2>2. PICK k : k = Len(u) OBVIOUS
  <2>3. PICK last : last = L!LastMessageId(a, u) OBVIOUS
  <2>4. Wrote(a, leaf, u, w, last) BY <1>0, <1>2, <2>3, WrittenFacts
  <2>5. /\ Tree(w) /\ Chain(w, Len(b), leaf, u) /\ Len(w) = Len(b) + 2 * k
        /\ Tree(b) /\ Len(b) \in Nat \ {0} /\ k \in Nat
    BY <1>0, <2>1, <2>2, <2>4, OpenedFacts DEF Wrote
  <2>6. Keeps(b, w)
    <3>1. PICK n : n = Len(b) OBVIOUS
    <3>a. n = Len(L!Opened(a)) BY <2>1, <3>1
    <3>2. \A i \in 1 .. n : w[i] = L!Opened(a)[i]
      BY <1>0, <1>2, <2>2, <3>a, WrittenEntries
    <3> QED BY <2>1, <2>5, <3>1, <3>2 DEF Keeps
  <2>7. PICK pos : pos = [m \in 1 .. k |-> Len(b) + 2 * m - 1] OBVIOUS
  <2>8. \A m \in 1 .. k : pos[m] = Len(b) + 2 * m - 1 /\ pos[m] \in 1 .. Len(w)
    BY <2>5, <2>7
  <2>9. pos \in [1 .. k -> 1 .. Len(w)] BY <2>7, <2>8
  <2>10. ASSUME NEW m \in 1 .. k
         PROVE  w[pos[m]] = L!MessageEntry(IF m = 1 THEN leaf ELSE pos[m - 1], u[m])
    <3>1. w[pos[m]] = L!MessageEntry(IF m = 1 THEN leaf ELSE Len(b) + 2 * m - 3, u[m])
      BY <2>2, <2>5, <2>8 DEF Chain
    <3>2. m # 1 => pos[m - 1] = Len(b) + 2 * m - 3
      <4> HAVE m # 1
      <4>1. m - 1 \in 1 .. k BY <2>5
      <4>2. pos[m - 1] = Len(b) + 2 * (m - 1) - 1 BY <2>8, <4>1
      <4> QED BY <2>5, <4>2
    <3> QED BY <3>1, <3>2
  <2>11. ASSUME NEW n \in 1 .. Len(w), n > Len(b), w[n].type = "message"
         PROVE  \E m \in 1 .. k : n = pos[m]
    <3>0. n - Len(b) \in 1 .. 2 * k /\ n = Len(b) + (n - Len(b)) BY <2>5, <2>11
    <3>1. PICK d \in 1 .. 2 * k : n = Len(b) + d BY <3>0
    <3>2. PICK m \in 1 .. k : d = 2 * m - 1 \/ d = 2 * m
      <4>1. (d + 1) \div 2 \in 1 .. k BY <2>5
      <4>2. d = 2 * ((d + 1) \div 2) - 1 \/ d = 2 * ((d + 1) \div 2) BY <2>5
      <4> QED BY <4>1, <4>2
    <3>3. d # 2 * m
      <4>1. w[Len(b) + 2 * m] = L!LeafEntry(Len(b) + 2 * m - 1) BY <2>2, <2>5 DEF Chain
      <4>2. w[Len(b) + 2 * m].type = "leaf" BY <4>1 DEF L!LeafEntry
      <4> QED BY <2>11, <3>1, <4>2
    <3>4. n = Len(b) + 2 * m - 1 BY <2>5, <3>1, <3>2, <3>3
    <3> QED BY <2>8, <3>4
  <2>12. leaf \in 0 .. Len(b) BY <1>0, <2>1
  <2>13. Linked(b, w, leaf, u, pos)
    BY <2>2, <2>5, <2>6, <2>9, <2>10, <2>11, <2>12 DEF Linked
  <2> QED BY <1>0, <2>1, <2>13, LinkedGains
<1> QED BY <1>1, <1>2

(* An entry that is no message, and its leaf.                                *)
LEMMA AppendedGains ==
  ASSUME NEW a, Tree(a), CallsAreNewIn(a), NEW e \in Entry, e.type \notin {"leaf", "message"},
         e.parent \in 0 .. Len(L!Opened(a)), NEW w, w = L!Appended(a, e), NEW u
  PROVE  Gains(a, w, u)
<1>1. PICK b : b = L!Opened(a) OBVIOUS
<1>2. PICK N : N = Len(b) + 1 OBVIOUS
<1>3. Tree(w) /\ Len(w) = N + 1 /\ \A i \in 1 .. Len(a) : w[i] = a[i]
  BY <1>1, <1>2, AppendedFacts
<1>4. /\ Tree(b) /\ Len(b) \in Nat /\ Len(a) \in Nat /\ Len(a) <= Len(b)
      /\ a # << >> => b = a
  BY <1>1, OpenedFacts
<1>5. Keeps(a, w) BY <1>2, <1>3, <1>4 DEF Keeps
<1>6. w = b \o <<e, L!LeafEntry(N)>> BY <1>1, <1>2 DEF L!Appended
<1>7. w[N] = e /\ w[N + 1].type = "leaf" /\ \A i \in 1 .. Len(b) : w[i] = b[i]
  <2>1. PICK x \in Entry : x = e OBVIOUS
  <2>b. N \in Nat BY <1>2, <1>4
  <2>c. L!LeafEntry(N) \in Entry BY <2>b DEF L!LeafEntry, Entry
  <2>2. PICK y \in Entry : y = L!LeafEntry(N) BY <2>c
  <2>3. y.type = "leaf" BY <2>2 DEF L!LeafEntry
  <2>4. w = b \o <<x, y>> /\ b \in Seq(Entry)
    BY <1>4, <1>6, <2>1, <2>2 DEF Tree
  <2>a. <<x, y>> \in Seq(Entry) OBVIOUS
  <2>5. PICK s \in Seq(Entry) : s = <<x, y>> BY <2>a
  <2>6. Len(s) = 2 /\ s[1] = x /\ s[2] = y BY <2>5
  <2>7. w = b \o s BY <2>4, <2>5
  <2>8. \A i \in 1 .. Len(b) + Len(s) : w[i] = IF i <= Len(b) THEN b[i] ELSE s[i - Len(b)]
    BY <2>4, <2>7, ConcatProperties
  <2> QED BY <1>2, <1>4, <2>1, <2>3, <2>6, <2>8
<1>8. ASSUME NEW x \in MessageEntries(w) PROVE x \in 1 .. Len(a)
  <2>1. x \in 1 .. N + 1 /\ w[x].type = "message" BY <1>3 DEF MessageEntries
  <2>2. x \in 1 .. Len(b) BY <1>2, <1>4, <1>7, <2>1
  <2>3. CASE a # << >> BY <1>4, <2>2, <2>3
  <2>4. CASE a = << >>
    <3>1. b = <<L!Meta>> BY <1>1, <2>4 DEF L!Opened
    <3>2. x = 1 /\ b[x] = L!Meta BY <2>2, <3>1
    <3>3. w[x] = b[x] BY <1>7, <2>2
    <3> QED BY <2>1, <3>2, <3>3 DEF L!Meta
  <2> QED BY <2>3, <2>4
<1> QED BY <1>3, <1>5, <1>8, NoMessageGains

(* A leaf that is moved.                                                     *)
LEMMA MovedGains ==
  ASSUME NEW a, Tree(a), CallsAreNewIn(a), NEW target \in 0 .. Len(a),
         NEW w, w = L!MovedTo(a, target), NEW u
  PROVE  Gains(a, w, u)
<1>1. /\ Tree(w) /\ Len(w) = Len(a) + 1 /\ Len(a) \in Nat
      /\ \A i \in 1 .. Len(a) : w[i] = a[i]
  BY MovedFacts DEF Tree
<1>2. Keeps(a, w) BY <1>1 DEF Keeps
<1>3. w[Len(a) + 1].type = "leaf"
  <2>1. PICK y : y = L!LeafEntry(target) OBVIOUS
  <2>2. w = Append(a, y) /\ a \in Seq(Entry) /\ y.type = "leaf"
    BY <2>1 DEF L!MovedTo, Tree, L!LeafEntry
  <2>3. w[Len(a) + 1] = y BY <2>2
  <2> QED BY <2>2, <2>3
<1>4. MessageEntries(w) \subseteq 1 .. Len(a)
  BY <1>1, <1>3 DEF MessageEntries
<1> QED BY <1>1, <1>2, <1>4, NoMessageGains

-----------------------------------------------------------------------------
(* It makes no call, and mentions those that were made.                      *)
LEMMA RepairedQuiet ==
  ASSUME NEW m \in Seq(H!Messages), NEW n, Known(m, n), NEW r \in H!Repaired(m)
  PROVE  Quiet(m, r, n)
<1>1. H!Unanswered(m) \subseteq H!CallIds BY RepairAdds
<1>a. \E N \in Nat : \E s \in [1 .. N -> H!Unanswered(m)] : r = m \o H!Interrupted(s)
  BY RepairAdds
<1>b. PICK N \in Nat : \E s \in [1 .. N -> H!Unanswered(m)] : r = m \o H!Interrupted(s)
  BY <1>a
<1>2. PICK s \in [1 .. N -> H!Unanswered(m)] : r = m \o H!Interrupted(s)
  BY <1>b
<1>3. PICK t : t = H!Interrupted(s) OBVIOUS
<1>4. t = [i \in 1 .. N |-> H!ToolResult(s[i], "interrupted")] BY <1>3 DEF H!Interrupted
<1>5. ASSUME NEW i \in 1 .. N
      PROVE  /\ t[i] \in H!Messages /\ Makes(t[i]) = {} /\ Mentions(t[i]) = {s[i]}
             /\ s[i] \in H!Unanswered(m)
  <2>1. t[i] = [role |-> "toolResult", call |-> s[i], how |-> "interrupted"]
    BY <1>4 DEF H!ToolResult
  <2>2. s[i] \in H!Unanswered(m) /\ s[i] \in H!CallIds BY <1>1, <1>2
  <2>3. t[i] \in H!Messages BY <2>1, <2>2 DEF H!Messages, H!ToolResults, H!Outcomes
  <2>4. Makes(t[i]) = {} /\ Mentions(t[i]) = {s[i]} BY <2>1 DEF Makes, Mentions
  <2> QED BY <2>2, <2>3, <2>4
<1>6. t \in Seq(H!Messages) /\ Len(t) = N BY <1>2, <1>4, <1>5
<1>c. PICK v \in Seq(H!Messages) : v = t BY <1>6
<1>d. /\ Len(m \o v) = Len(m) + Len(v) /\ Len(m) \in Nat
      /\ \A i \in 1 .. Len(m) + Len(v) :
           (m \o v)[i] = IF i <= Len(m) THEN m[i] ELSE v[i - Len(m)]
  BY ConcatProperties
<1>e. r = m \o v BY <1>2, <1>3, <1>c
<1>7. /\ Len(r) = Len(m) + Len(t) /\ Len(m) \in Nat
      /\ \A i \in 1 .. Len(m) + Len(t) : r[i] = IF i <= Len(m) THEN m[i] ELSE t[i - Len(m)]
  BY <1>c, <1>d, <1>e
<1>8. H!Unanswered(m) \subseteq 1 .. n
  <2>1. ASSUME NEW c \in H!Called(m) PROVE c \in 1 .. n
    <3>1. PICK j \in DOMAIN m : m[j].role = "assistant" /\ c \in H!Elements(m[j].calls)
      BY DEF H!Called
    <3>2. c \in Mentions(m[j]) BY <3>1 DEF Makes, Mentions
    <3>3. j \in 1 .. Len(m) OBVIOUS
    <3> QED BY <3>2, <3>3 DEF Known
  <2> QED BY <2>1 DEF H!Unanswered
<1>9. ASSUME NEW i \in 1 .. Len(r), i > Len(m)
      PROVE  Makes(r[i]) = {} /\ Mentions(r[i]) \subseteq 1 .. n
  <2>1. i - Len(m) \in 1 .. N /\ r[i] = t[i - Len(m)] BY <1>6, <1>7, <1>9
  <2> QED BY <1>5, <1>8, <2>1
<1>10. Extends(m, r) BY RepairedExtends
<1> QED BY <1>9, <1>10 DEF Quiet

(* One message that makes no call.                                           *)
LEMMA AppendQuiet ==
  ASSUME NEW m \in Seq(H!Messages), NEW x \in H!Messages, Makes(x) = {},
         NEW n, Mentions(x) \subseteq 1 .. n
  PROVE  /\ Quiet(m, Append(m, x), n) /\ Quiet(m, m, n)
         /\ \A i \in 1 .. Len(Append(m, x)) : i > Len(m) => Append(m, x)[i] = x
<1>1. Extends(m, Append(m, x)) /\ Extends(m, m) BY AppendExtends
<1>2. Len(m) \in Nat /\ Len(Append(m, x)) = Len(m) + 1 /\ Append(m, x)[Len(m) + 1] = x
  OBVIOUS
<1>3. \A i \in 1 .. Len(Append(m, x)) : i > Len(m) => Append(m, x)[i] = x
  BY <1>2
<1>4. \A i \in 1 .. Len(m) : ~(i > Len(m)) BY <1>2
<1> QED BY <1>1, <1>3, <1>4 DEF Quiet

(* What the user says, and an error, mention no call.                        *)
LEMMA UserQuiet ==
  ASSUME NEW x, x \in H!UserMessages \/ x = H!ErrorMessage
  PROVE  x \in H!Messages /\ Makes(x) = {} /\ Mentions(x) = {}
<1>1. CASE x \in H!UserMessages
  BY <1>1 DEF H!UserMessages, H!Messages, Makes, Mentions
<1>2. CASE x = H!ErrorMessage
  <2>1. x.role = "assistant" /\ x.calls = << >> BY <1>2 DEF H!ErrorMessage, H!Assistant
  <2>2. Makes(x) = {} BY <2>1 DEF Makes, H!Elements
  <2> QED BY <1>2, <2>1, <2>2, ErrorTyped DEF Mentions
<1> QED BY <1>1, <1>2

(* One such addition after another is one.                                   *)
LEMMA QuietThen ==
  ASSUME NEW a \in Seq(H!Messages), NEW b, NEW c, NEW n, Quiet(a, b, n), Quiet(b, c, n)
  PROVE  Quiet(a, c, n)
<1>1. /\ b \in Seq(H!Messages) /\ c \in Seq(H!Messages) /\ Len(a) <= Len(b) /\ Len(b) <= Len(c)
      /\ Len(a) \in Nat /\ Len(b) \in Nat /\ Len(c) \in Nat
  BY DEF Quiet, Extends
<1>2. \A i \in 1 .. Len(a) : c[i] = a[i]
  BY <1>1 DEF Quiet, Extends
<1>3. ASSUME NEW i \in 1 .. Len(c), i > Len(a)
      PROVE  Makes(c[i]) = {} /\ Mentions(c[i]) \subseteq 1 .. n
  <2>1. CASE i > Len(b) BY <2>1 DEF Quiet
  <2>2. CASE ~(i > Len(b))
    <3>1. i \in 1 .. Len(b) /\ c[i] = b[i] BY <1>1, <2>2 DEF Quiet, Extends
    <3> QED BY <1>3, <3>1 DEF Quiet
  <2> QED BY <2>1, <2>2
<1>4. Extends(a, c) BY <1>1, <1>2 DEF Extends
<1> QED BY <1>3, <1>4 DEF Quiet

(* A prompt is quiet on what it is sent on.                                  *)
LEMMA PromptQuiet ==
  ASSUME H!TypeOK, NEW t \in Seq(H!Messages), NEW n, Known(t, n), H!PromptOn(t)
  PROVE  Quiet(t, messages', n)
<1>1. PICK r \in H!Repaired(t) : messages' = Append(r, H!User(submitted + 1, "prompt"))
  BY DEF H!PromptOn
<1>2. Quiet(t, r, n) BY RepairedQuiet
<1>3. PICK u : u = H!User(submitted + 1, "prompt") OBVIOUS
<1>4. u \in H!UserMessages
  <2>1. submitted + 1 \in Nat /\ "prompt" \in H!Via BY DEF H!TypeOK, H!Via
  <2> QED BY <1>3, <2>1, UserTyped
<1>5. u \in H!Messages /\ Makes(u) = {} /\ Mentions(u) = {} BY <1>4, UserQuiet
<1>6. r \in Seq(H!Messages) BY <1>2 DEF Quiet, Extends
<1>7. Mentions(u) \subseteq 1 .. n BY <1>5
<1>8. Quiet(r, Append(r, u), n) BY <1>5, <1>6, <1>7, AppendQuiet
<1>9. Quiet(r, messages', n) BY <1>1, <1>3, <1>8
<1> QED BY <1>2, <1>9, QuietThen

-----------------------------------------------------------------------------
(* The calls of the harness: those in the transcript, those still to do and  *)
(* those of the reply.                                                       *)
HasIds ==
  /\ Known(messages, issued)
  /\ H!Elements(todo) \subseteq 1 .. issued /\ Makes(reply) \subseteq 1 .. issued

(* A step of the harness in which no call is made or enters the transcript.  *)
Still ==
  /\ Quiet(messages, messages', issued) /\ issued' = issued
  /\ H!Elements(todo') \subseteq 1 .. issued /\ Makes(reply') \subseteq 1 .. issued
  /\ pc' = "assistantEnd" =>
       /\ pc = "assistantEnd" /\ reply' = reply
       /\ \A i \in 1 .. Len(messages') : i > Len(messages) => Mentions(messages'[i]) = {}

(* What the loop injects in front of a turn.                                 *)
LEMMA TurnBodyQuiet ==
  ASSUME NEW queue \in Seq(H!UserMessages), H!TurnBody(queue), NEW m \in Seq(H!Messages),
         m = messages, NEW n
  PROVE  Quiet(m, messages', n) /\ pc' # "assistantEnd"
<1>1. CASE queue # << >> /\ messages' = Append(m, Head(queue)) /\ pc' = "inject"
  <2>1. PICK x \in H!UserMessages : x = Head(queue) BY <1>1, HeadTailProperties
  <2>2. x \in H!Messages /\ Makes(x) = {} /\ Mentions(x) = {} BY UserQuiet
  <2>3. Mentions(x) \subseteq 1 .. n BY <2>2
  <2>4. Quiet(m, Append(m, x), n) BY <2>2, <2>3, AppendQuiet
  <2> QED BY <1>1, <2>1, <2>4
<1>2. CASE messages' = Append(m, H!ErrorMessage) /\ pc' = "stopping"
  <2>1. PICK x : x = H!ErrorMessage OBVIOUS
  <2>2. x \in H!Messages /\ Makes(x) = {} /\ Mentions(x) = {} BY <2>1, UserQuiet
  <2>3. Mentions(x) \subseteq 1 .. n BY <2>2
  <2>4. Quiet(m, Append(m, x), n) BY <2>2, <2>3, AppendQuiet
  <2> QED BY <1>2, <2>1, <2>4
<1>3. CASE messages' = m /\ pc' = "stream"
  <2>1. \A i \in 1 .. Len(m) : ~(i > Len(m)) /\ Len(m) \in Nat OBVIOUS
  <2>2. Quiet(m, m, n) BY <2>1 DEF Quiet, Extends
  <2> QED BY <1>3, <2>2
<1> QED BY <1>1, <1>2, <1>3 DEF H!TurnBody

(* Most steps of the harness are.                                            *)
LEMMA HarnessStill ==
  ASSUME H!TypeOK, HasIds,
         \/ H!Prompt \/ H!Resume \/ H!Finally
         \/ H!LeaveStart \/ H!LeaveTurnStart \/ H!ToolRefused \/ H!ToolRuns \/ H!ToolReturns
         \/ H!LeaveToolEnd \/ H!LeaveTurnEnd
         \/ H!Steer \/ H!FollowUp \/ H!Cancel \/ H!AppendMessage \/ UNCHANGED harnessVars
  PROVE  Still
<1>1. PICK m \in Seq(H!Messages) : m = messages BY DEF H!TypeOK
<1>2. PICK n : n = issued OBVIOUS
<1>3. Known(m, n) /\ H!Elements(todo) \subseteq 1 .. n /\ Makes(reply) \subseteq 1 .. n
  BY <1>1, <1>2 DEF HasIds
<1>4. Quiet(m, m, n)
  <2>1. \A i \in 1 .. Len(m) : ~(i > Len(m)) /\ Len(m) \in Nat OBVIOUS
  <2> QED BY <2>1 DEF Quiet, Extends
<1>5. /\ H!Elements(<< >>) = {} /\ Makes(H!ErrorMessage) = {}
      /\ \A i \in 1 .. Len(m) : ~(i > Len(m))
  BY UserQuiet DEF H!Elements
<1>6. CASE H!Prompt
  <2>1. H!PromptOn(m) /\ UNCHANGED <<reply, todo, issued>> /\ pc' = "start"
    BY <1>1, <1>6 DEF H!Prompt, H!PromptOn
  <2>2. Quiet(m, messages', n) BY <1>3, <2>1, PromptQuiet
  <2> QED BY <1>1, <1>2, <1>3, <2>1, <2>2 DEF Still
<1>7. CASE H!Resume
  <2>1. messages' \in H!Repaired(m) /\ UNCHANGED <<reply, todo, issued>> /\ pc' = "start"
    BY <1>1, <1>7 DEF H!Resume
  <2>2. Quiet(m, messages', n) BY <1>3, <2>1, RepairedQuiet
  <2> QED BY <1>1, <1>2, <1>3, <2>1, <2>2 DEF Still
<1>8. CASE H!Finally
  <2>1. /\ messages' \in H!Repaired(m) \/ messages' = m
        /\ reply' = H!ErrorMessage /\ todo' = << >> /\ issued' = issued /\ pc' = "idle"
    BY <1>1, <1>8 DEF H!Finally
  <2>2. Quiet(m, messages', n) BY <1>3, <1>4, <2>1, RepairedQuiet
  <2> QED BY <1>1, <1>2, <1>5, <2>1, <2>2 DEF Still
<1>9. CASE H!LeaveStart
  <2>1. UNCHANGED <<reply, todo, issued>> BY <1>9 DEF H!LeaveStart
  <2>2. Quiet(m, messages', n) /\ pc' # "assistantEnd"
    <3>1. CASE messages' = Append(messages, H!ErrorMessage) /\ pc' = "stopping"
      <4>1. PICK x : x = H!ErrorMessage OBVIOUS
      <4>2. x \in H!Messages /\ Makes(x) = {} /\ Mentions(x) = {} BY <4>1, UserQuiet
      <4>3. Mentions(x) \subseteq 1 .. n BY <4>2
      <4>4. Quiet(m, Append(m, x), n) BY <4>2, <4>3, AppendQuiet
      <4> QED BY <1>1, <3>1, <4>1, <4>4
    <3>2. CASE H!TurnBody(H!Drained(steering))
      <4>1. steering \in Seq(H!UserMessages) BY DEF H!TypeOK
      <4>2. H!Drained(steering) \in Seq(H!UserMessages) BY <4>1, QueueTyped
      <4> QED BY <1>1, <3>2, <4>2, TurnBodyQuiet
    <3> QED BY <1>9, <3>1, <3>2 DEF H!LeaveStart
  <2> QED BY <1>1, <1>2, <1>3, <2>1, <2>2 DEF Still
<1>10. CASE H!LeaveTurnStart
  <2>1. UNCHANGED <<reply, todo, issued>> /\ H!TurnBody(pending) BY <1>10 DEF H!LeaveTurnStart
  <2>2. pending \in Seq(H!UserMessages) BY DEF H!TypeOK
  <2>3. Quiet(m, messages', n) /\ pc' # "assistantEnd" BY <1>1, <2>1, <2>2, TurnBodyQuiet
  <2> QED BY <1>1, <1>2, <1>3, <2>1, <2>3 DEF Still
<1>11. CASE H!ToolRefused \/ H!ToolRuns \/ H!ToolReturns \/ H!LeaveTurnEnd
  <2>1. UNCHANGED <<messages, reply, todo, issued>> /\ pc' # "assistantEnd"
    <3>1. CASE H!ToolRefused BY <3>1 DEF H!ToolRefused
    <3>2. CASE H!ToolRuns BY <3>2 DEF H!ToolRuns
    <3>3. CASE H!ToolReturns BY <3>3 DEF H!ToolReturns
    <3>4. CASE H!LeaveTurnEnd
      <4>1. pc' \in {"turnStart", "stopping"} BY <3>4 DEF H!LeaveTurnEnd
      <4>2. UNCHANGED <<messages, reply, todo, issued>> BY <3>4 DEF H!LeaveTurnEnd
      <4> QED BY <4>1, <4>2
    <3> QED BY <1>11, <3>1, <3>2, <3>3, <3>4
  <2> QED BY <1>1, <1>2, <1>3, <1>4, <2>1 DEF Still
<1>12. CASE H!LeaveToolEnd
  <2>1. /\ messages' = Append(m, H!ToolResult(Head(todo), outcome)) /\ todo' = Tail(todo)
        /\ UNCHANGED <<reply, issued>> /\ pc' # "assistantEnd" /\ pc = "toolEnd"
    BY <1>1, <1>12 DEF H!LeaveToolEnd
  <2>2. todo \in Seq(H!CallIds) /\ todo # << >> /\ outcome \in H!Outcomes
    BY <2>1 DEF H!TypeOK
  <2>3. PICK s \in Seq(H!CallIds) : s = todo BY <2>2
  <2>4. /\ Head(s) = s[1] /\ 1 \in 1 .. Len(s) /\ Len(s) \in Nat /\ Head(s) \in H!CallIds
        /\ Tail(s) \in Seq(H!CallIds) /\ Len(Tail(s)) = Len(s) - 1
        /\ \A i \in 1 .. Len(s) - 1 : Tail(s)[i] = s[i + 1]
    BY <2>2, <2>3, HeadTailProperties
  <2>5. H!Elements(s) = {s[i] : i \in 1 .. Len(s)} BY DEF H!Elements
  <2>6. Head(s) \in H!Elements(s) BY <2>4, <2>5
  <2>7. H!Elements(Tail(s)) \subseteq H!Elements(s)
    <3>1. PICK t \in Seq(H!CallIds) : t = Tail(s) BY <2>4
    <3>2. H!Elements(t) = {t[i] : i \in 1 .. Len(t)} BY DEF H!Elements
    <3>3. \A i \in 1 .. Len(t) : i + 1 \in 1 .. Len(s) /\ t[i] = s[i + 1] BY <2>4, <3>1
    <3> QED BY <2>5, <3>1, <3>2, <3>3
  <2>8. PICK x : x = H!ToolResult(Head(s), outcome) OBVIOUS
  <2>9. x \in H!Messages /\ Makes(x) = {} /\ Mentions(x) = {Head(s)}
    <3>1. x = [role |-> "toolResult", call |-> Head(s), how |-> outcome] BY <2>8 DEF H!ToolResult
    <3>2. x \in H!Messages BY <2>2, <2>4, <3>1 DEF H!Messages, H!ToolResults
    <3> QED BY <3>1, <3>2 DEF Makes, Mentions
  <2>10. Mentions(x) \subseteq 1 .. n BY <1>3, <2>3, <2>6, <2>9
  <2>11. Quiet(m, Append(m, x), n) BY <2>9, <2>10, AppendQuiet
  <2>12. Quiet(m, messages', n) BY <2>1, <2>3, <2>8, <2>11
  <2>13. H!Elements(todo') \subseteq 1 .. n BY <1>3, <2>1, <2>3, <2>7
  <2> QED BY <1>1, <1>2, <1>3, <2>1, <2>12, <2>13 DEF Still
<1>13. CASE H!Steer \/ H!FollowUp \/ H!Cancel \/ UNCHANGED harnessVars
  <2>1. UNCHANGED <<messages, reply, todo, issued, pc>>
    BY <1>13 DEF H!Steer, H!FollowUp, H!Cancel, H!runVars, harnessVars
  <2>2. \A i \in 1 .. Len(messages') : ~(i > Len(messages)) BY <1>1, <1>5, <2>1
  <2> QED BY <1>1, <1>2, <1>3, <1>4, <2>1, <2>2 DEF Still
<1>14. CASE H!AppendMessage
  <2>1. /\ messages' = Append(m, H!User(submitted + 1, "append"))
        /\ UNCHANGED <<reply, todo, issued, pc>>
    BY <1>1, <1>14 DEF H!AppendMessage, H!runVars
  <2>2. PICK x : x = H!User(submitted + 1, "append") OBVIOUS
  <2>3. x \in H!UserMessages
    <3>1. submitted + 1 \in Nat /\ "append" \in H!Via BY DEF H!TypeOK, H!Via
    <3> QED BY <2>2, <3>1, UserTyped
  <2>4. x \in H!Messages /\ Makes(x) = {} /\ Mentions(x) = {} BY <2>3, UserQuiet
  <2>5. Mentions(x) \subseteq 1 .. n BY <2>4
  <2>6. /\ Quiet(m, Append(m, x), n)
        /\ \A i \in 1 .. Len(Append(m, x)) : i > Len(m) => Append(m, x)[i] = x
    BY <2>4, <2>5, AppendQuiet
  <2>7. \A i \in 1 .. Len(messages') : i > Len(messages) => Mentions(messages'[i]) = {}
    BY <1>1, <2>1, <2>2, <2>4, <2>6
  <2>8. Quiet(m, messages', n) BY <2>1, <2>2, <2>6
  <2> QED BY <1>1, <1>2, <1>3, <2>1, <2>7, <2>8 DEF Still
<1> QED
  BY <1>6, <1>7, <1>8, <1>9, <1>10, <1>11, <1>12, <1>13, <1>14

(* The reply of a provider that names every call anew.                       *)
LEMMA ReplyIsNew ==
  ASSUME H!TypeOK, HasIds, FreshCallIds, H!ProviderEnds, NEW entries, KnownIn(entries, issued)
  PROVE  /\ UNCHANGED <<messages, todo>> /\ issued' \in Nat /\ issued <= issued'
         /\ Makes(reply') \subseteq 1 .. issued'
         /\ Strange(Makes(reply'), messages') /\ StrangeIn(Makes(reply'), entries)
<1>1. PICK k \in 0 .. MaxBatch, failed \in BOOLEAN :
        reply' = H!Assistant(H!NewCalls(k), failed) /\ issued' = issued + k
  BY DEF H!ProviderEnds
<1>2. UNCHANGED <<messages, todo>> BY DEF H!ProviderEnds
<1>3. issued \in Nat /\ k \in Nat BY <1>1, SessionAssumption DEF H!TypeOK
<1>4. Makes(reply') = {issued + i : i \in 1 .. k}
  <2>1. H!NewCalls(k) = [i \in 1 .. k |-> issued + i] BY DEF H!NewCalls
  <2>2. PICK s : s = [i \in 1 .. k |-> issued + i] OBVIOUS
  <2>3. H!Elements(s) = {issued + i : i \in 1 .. k} BY <2>2 DEF H!Elements
  <2>4. reply' = [role |-> "assistant", calls |-> s, failed |-> failed]
    BY <1>1, <2>1, <2>2 DEF H!Assistant
  <2> QED BY <2>3, <2>4 DEF Makes
<1>5. Makes(reply') \subseteq 1 .. issued' /\ issued <= issued' /\ issued' \in Nat
  BY <1>1, <1>3, <1>4
<1>6. Makes(reply') \intersect (1 .. issued) = {}
  BY <1>3, <1>4
<1>7. Strange(Makes(reply'), messages') BY <1>2, <1>6 DEF Strange, HasIds, Known
<1>8. StrangeIn(Makes(reply'), entries) BY <1>6 DEF StrangeIn, KnownIn
<1> QED BY <1>2, <1>5, <1>7, <1>8

-----------------------------------------------------------------------------
(* The calls that come are new in the transcript and in the log.             *)
Coming ==
  /\ H!Elements(todo) \subseteq 1 .. issued /\ Makes(reply) \subseteq 1 .. issued
  /\ pc = "assistantEnd" => /\ Strange(Makes(reply), messages)
                            /\ StrangeIn(Makes(reply), log)

CInv == TInv /\ Fresh(messages, log, issued, Written) /\ Coming

(* The invariant, taken apart.                                               *)
LEMMA CallsHaveIds ==
  ASSUME CInv
  PROVE  /\ IInv /\ H!TypeOK /\ HasIds /\ Written \in Nat /\ issued \in Nat
         /\ messages \in Seq(H!Messages) /\ Len(messages) \in Nat
         /\ CallsAreNewIn(log) /\ KnownIn(log, issued) /\ Placed(log, lastParent) /\ Tree(log)
<1>1. IInv /\ H!TypeOK /\ messages \in Seq(H!Messages) /\ issued \in Nat /\ persisted \in Nat
  BY DEF CInv, TInv, IInv, H!TypeOK
<1>2. Len(messages) \in Nat BY <1>1
<1>3. Written \in Nat BY <1>1, <1>2 DEF Written
<1> QED BY <1>1, <1>2, <1>3 DEF CInv, Fresh, Coming, HasIds, IInv, Placed

(* Beyond its end a transcript has nothing left to write.                    *)
LEMMA FreshAll ==
  ASSUME NEW a \in Seq(H!Messages), NEW n, Known(a, n), CallsAreNew(a),
         NEW entries, CallsAreNewIn(entries), KnownIn(entries, n)
  PROVE  Fresh(a, entries, n, Len(a))
<1>1. \A i \in 1 .. Len(a) : ~(i > Len(a)) OBVIOUS
<1> QED BY <1>1 DEF Fresh

(* The invariant after a step of the harness without a call, when what is    *)
(* added to the log is part of the transcript.                               *)
LEMMA StillKeeps ==
  ASSUME CInv, TInv', Still, NEW u, Gains(log, log', u),
         \A m \in 1 .. Len(u) : \E i \in 1 .. Len(messages') : u[m] = messages'[i],
         Fresh(messages', log', issued', Written')
  PROVE  CInv'
<1>1. ASSUME pc' = "assistantEnd"
      PROVE  Strange(Makes(reply'), messages') /\ StrangeIn(Makes(reply'), log')
  <2>1. pc = "assistantEnd" /\ reply' = reply BY <1>1 DEF Still
  <2>2. Strange(Makes(reply), messages) /\ StrangeIn(Makes(reply), log)
    BY <2>1 DEF CInv, Coming
  <2>3. ASSUME NEW i \in 1 .. Len(messages') PROVE Makes(reply) \intersect Mentions(messages'[i]) = {}
    <3>0. Len(messages) \in Nat /\ Len(messages') \in Nat
      BY CallsHaveIds DEF TInv, IInv, H!TypeOK
    <3>1. CASE i > Len(messages) BY <1>1, <3>1 DEF Still
    <3>2. CASE ~(i > Len(messages))
      <4>1. i \in 1 .. Len(messages) BY <3>0, <3>2
      <4>2. messages'[i] = messages[i] BY <4>1 DEF Still, Quiet, Extends
      <4> QED BY <2>2, <4>1, <4>2 DEF Strange
    <3> QED BY <3>1, <3>2
  <2>4. Strange(Makes(reply), u) BY <2>3 DEF Strange
  <2>5. StrangeIn(Makes(reply), log') BY <2>2, <2>4, GainsStrange
  <2> QED BY <2>1, <2>3, <2>5 DEF Strange
<1>2. H!Elements(todo') \subseteq 1 .. issued' /\ Makes(reply') \subseteq 1 .. issued'
  BY DEF Still
<1> QED BY <1>1, <1>2 DEF CInv, Coming

(* Nothing is written.                                                       *)
LEMMA StillUnwritten ==
  ASSUME CInv, TInv', Still, log' = log, Written' \in {Written, Len(messages')}
  PROVE  CInv'
<1>1. Gains(log, log', << >>)
  <2>1. CallsAreNewIn(log) BY CallsHaveIds
  <2> QED BY <2>1 DEF Gains
<1>2. PICK a \in Seq(H!Messages) : a = messages BY CallsHaveIds
<1>3. PICK b : b = messages' OBVIOUS
<1>4. PICK n : n = issued OBVIOUS
<1>5. PICK entries : entries = log OBVIOUS
<1>6. PICK count \in Nat : count = Written BY CallsHaveIds
<1>7. Quiet(a, b, n) /\ Fresh(a, entries, n, count)
  BY <1>2, <1>3, <1>4, <1>5, <1>6 DEF Still, CInv
<1>8. Fresh(b, entries, n, count) BY <1>7, QuietFresh
<1>9. b \in Seq(H!Messages) BY <1>7 DEF Quiet, Extends
<1>10. Fresh(b, entries, n, Len(b)) BY <1>8, <1>9, FreshAll DEF Fresh
<1>11. Fresh(messages', log', issued', Written')
  <2>1. issued' = n /\ log' = entries /\ messages' = b BY <1>3, <1>4, <1>5 DEF Still
  <2> QED BY <1>3, <1>6, <1>8, <1>10, <2>1
<1> QED BY <1>1, <1>11, StillKeeps

(* What is written is the rest of the transcript.                            *)
LEMMA RestFacts ==
  ASSUME NEW msgs \in Seq(H!Messages), NEW count \in Nat
  PROVE  /\ Unwritten(msgs, count) \in Seq(H!Messages)
         /\ \A m \in 1 .. Len(Unwritten(msgs, count)) :
              count + m \in 1 .. Len(msgs) /\ Unwritten(msgs, count)[m] = msgs[count + m]
         /\ CallsAreNew(msgs) => CallsAreNew(Unwritten(msgs, count))
<1>1. PICK u \in Seq(H!Messages) : u = Unwritten(msgs, count) BY UnwrittenFacts
<1>2. \A m \in 1 .. Len(u) : count + m \in 1 .. Len(msgs) /\ u[m] = msgs[count + m]
  BY <1>1 DEF Unwritten
<1>3. ASSUME CallsAreNew(msgs), NEW i \in 1 .. Len(u), NEW j \in 1 .. Len(u), i < j
      PROVE  <<u[i], u[j]>> \in Unmentioned
  <2>1. /\ count + i \in 1 .. Len(msgs) /\ count + j \in 1 .. Len(msgs) /\ count + i < count + j
        /\ u[i] = msgs[count + i] /\ u[j] = msgs[count + j]
    BY <1>2, <1>3
  <2> QED BY <1>3, <2>1 DEF CallsAreNew, Pairwise
<1> QED BY <1>1, <1>2, <1>3 DEF CallsAreNew, Pairwise

(* Writing the rest of a transcript below a leaf.                            *)
LEMMA RestGains ==
  ASSUME NEW entries, NEW leaf, Placed(entries, leaf), NEW msgs \in Seq(H!Messages),
         NEW n, NEW count \in Nat, Fresh(msgs, entries, n, count), NEW u,
         u = Unwritten(msgs, count), NEW w, w = L!WithMessages(entries, leaf, u)
  PROVE  /\ Gains(entries, w, u) /\ KnownIn(w, n)
         /\ \A m \in 1 .. Len(u) : \E i \in 1 .. Len(msgs) : u[m] = msgs[i]
<1>1. /\ u \in Seq(H!Messages) /\ CallsAreNew(u)
      /\ \A m \in 1 .. Len(u) : count + m \in 1 .. Len(msgs) /\ u[m] = msgs[count + m]
  BY RestFacts DEF Fresh
<1>2. ASSUME NEW m \in 1 .. Len(u) PROVE StrangeIn(Makes(u[m]), entries)
  <2>1. count + m \in 1 .. Len(msgs) /\ u[m] = msgs[count + m] /\ count + m > count BY <1>1
  <2> QED BY <2>1 DEF Fresh
<1>3. CallsAreNewIn(entries) BY DEF Fresh
<1>4. Gains(entries, w, u) BY <1>1, <1>2, <1>3, WithGains
<1>5. Known(u, n) BY <1>1 DEF Known, Fresh
<1>6. KnownIn(w, n) BY <1>4, <1>5, GainsKnown DEF Fresh
<1> QED BY <1>1, <1>4, <1>6

(* All of it is written.                                                     *)
LEMMA StillWritten ==
  ASSUME CInv, TInv', Still, call \in Runs, PersistSince(messages', persisted),
         Written' = Len(messages')
  PROVE  CInv'
<1>1. PICK a \in Seq(H!Messages) : a = messages BY CallsHaveIds
<1>2. PICK b : b = messages' OBVIOUS
<1>3. PICK n : n = issued OBVIOUS
<1>4. PICK entries : entries = log OBVIOUS
<1>5. PICK leaf : leaf = lastParent OBVIOUS
<1>6. PICK count \in Nat : count = persisted /\ count = Written BY CallsHaveIds DEF Written
<1>7. PICK w : w = log' OBVIOUS
<1>8. PICK u : u = Unwritten(b, count) OBVIOUS
<1>9. Quiet(a, b, n) /\ Fresh(a, entries, n, count)
  BY <1>1, <1>2, <1>3, <1>4, <1>6 DEF Still, CInv
<1>10. Fresh(b, entries, n, count) /\ b \in Seq(H!Messages)
  BY <1>9, QuietFresh DEF Quiet, Extends
<1>11. w = L!WithMessages(entries, leaf, u)
  BY <1>2, <1>4, <1>5, <1>6, <1>7, <1>8, Zenon DEF PersistSince
<1>12. Placed(entries, leaf) BY <1>4, <1>5, CallsHaveIds
<1>13. /\ Gains(entries, w, u) /\ KnownIn(w, n)
       /\ \A m \in 1 .. Len(u) : \E i \in 1 .. Len(b) : u[m] = b[i]
  BY <1>8, <1>10, <1>11, <1>12, RestGains
<1>14. Fresh(b, w, n, Len(b)) BY <1>10, <1>13, FreshAll DEF Fresh, Gains
<1>15. Fresh(messages', log', issued', Written')
  <2>1. issued' = n BY <1>3 DEF Still
  <2> QED BY <1>2, <1>7, <1>14, <2>1
<1>16. Gains(log, log', u) BY <1>4, <1>7, <1>13
<1>17. \A m \in 1 .. Len(u) : \E i \in 1 .. Len(messages') : u[m] = messages'[i] BY <1>2, <1>13
<1> QED BY <1>15, <1>16, <1>17, StillKeeps

(* The output of a terminal command is written alone.                        *)
LEMMA TerminalStill ==
  ASSUME CInv, TInv', TerminalCommand
  PROVE  CInv'
<1>1. PICK a \in Seq(H!Messages) : a = messages BY CallsHaveIds
<1>2. PICK b : b = messages' OBVIOUS
<1>3. PICK n : n = issued OBVIOUS
<1>4. PICK entries : entries = log OBVIOUS
<1>5. PICK leaf : leaf = lastParent OBVIOUS
<1>6. PICK count \in Nat : count = Written BY CallsHaveIds
<1>7. PICK w : w = log' OBVIOUS
<1>8. PICK u : u = Unwritten(b, Len(a)) OBVIOUS
<1>9. Still BY CallsHaveIds, HarnessStill DEF TerminalCommand
<1>10. Quiet(a, b, n) /\ Fresh(a, entries, n, count)
  BY <1>1, <1>2, <1>3, <1>4, <1>6, <1>9 DEF Still, CInv
<1>11. Fresh(b, entries, n, count) /\ b \in Seq(H!Messages)
  BY <1>10, QuietFresh DEF Quiet, Extends
<1>12. PICK x \in H!Messages : x = H!User(submitted + 1, "append") /\ Makes(x) = {} /\ Mentions(x) = {}
  <2>1. submitted + 1 \in Nat /\ "append" \in H!Via BY CallsHaveIds DEF H!TypeOK, H!Via
  <2>2. H!User(submitted + 1, "append") \in H!UserMessages BY <2>1, UserTyped
  <2> QED BY <2>2, UserQuiet
<1>13. b = Append(a, x) BY <1>1, <1>2, <1>12 DEF TerminalCommand, H!AppendMessage
<1>14. \A i \in 1 .. Len(b) : i > Len(a) => b[i] = x
  BY <1>13
<1>15. Len(a) \in Nat OBVIOUS
<1>16. Fresh(b, entries, n, Len(a))
  <2>1. StrangeIn(Makes(x), entries) BY <1>12 DEF StrangeIn
  <2> QED BY <1>11, <1>14, <2>1 DEF Fresh
<1>17. w = L!WithMessages(entries, leaf, u)
  BY <1>1, <1>2, <1>4, <1>5, <1>7, <1>8, Zenon DEF TerminalCommand, PersistSince
<1>18. Placed(entries, leaf) BY <1>4, <1>5, CallsHaveIds
<1>19. /\ Gains(entries, w, u)
       /\ \A m \in 1 .. Len(u) : \E i \in 1 .. Len(b) : u[m] = b[i]
  BY <1>8, <1>11, <1>15, <1>16, <1>17, <1>18, RestGains
<1>20. \A m \in 1 .. Len(u) : Mentions(u[m]) = {}
  <2>1. \A m \in 1 .. Len(u) : Len(a) + m \in 1 .. Len(b) /\ u[m] = b[Len(a) + m]
    BY <1>8, <1>11, <1>15, RestFacts
  <2>2. \A m \in 1 .. Len(u) : Len(a) + m > Len(a) BY <1>15
  <2> QED BY <1>12, <1>14, <2>1, <2>2
<1>21. Fresh(b, w, n, count) BY <1>11, <1>19, <1>20, GainFresh
<1>22. Fresh(b, w, n, Len(b)) BY <1>11, <1>21, FreshAll DEF Fresh
<1>23. Fresh(messages', log', issued', Written')
  <2>1. issued' = n BY <1>3, <1>9 DEF Still
  <2>2. Written' = count \/ Written' = Len(b)
    BY <1>2, <1>6 DEF Written, TerminalCommand
  <2> QED BY <1>2, <1>7, <1>21, <1>22, <2>1, <2>2
<1>24. Gains(log, log', u) BY <1>4, <1>7, <1>19
<1>25. \A m \in 1 .. Len(u) : \E i \in 1 .. Len(messages') : u[m] = messages'[i] BY <1>2, <1>19
<1> QED BY <1>9, <1>23, <1>24, <1>25, StillKeeps

(* An entry beside the messages.                                             *)
LEMMA CustomStill ==
  ASSUME CInv, TInv', AppendCustomEntry
  PROVE  CInv'
<1>1. PICK entries : entries = log OBVIOUS
<1>2. PICK leaf : leaf = lastParent OBVIOUS
<1>3. PICK w : w = log' OBVIOUS
<1>4. PICK e : e = L!CustomEntry(leaf) OBVIOUS
<1>5. Tree(entries) /\ leaf \in 0 .. Len(L!Opened(entries)) /\ CallsAreNewIn(entries)
  BY <1>1, <1>2, CallsHaveIds DEF Placed
<1>6. e \in Entry /\ e.type \notin {"leaf", "message"} /\ e.parent \in 0 .. Len(L!Opened(entries))
  <2>1. leaf \in Nat
    <3>1. Len(L!Opened(entries)) \in Nat BY <1>5, OpenedFacts
    <3> QED BY <1>5, <3>1
  <2> QED BY <1>4, <1>5, <2>1 DEF L!CustomEntry, Entry
<1>7. w = L!Appended(entries, e) BY <1>1, <1>2, <1>3, <1>4 DEF AppendCustomEntry
<1>8. Gains(entries, w, << >>) BY <1>5, <1>6, <1>7, AppendedGains
<1>9. Gains(log, log', << >>) BY <1>1, <1>3, <1>8
<1>10. Still BY CallsHaveIds, HarnessStill DEF AppendCustomEntry
<1>11. Fresh(messages, log', issued, Written)
  <2>1. Fresh(messages, log, issued, Written) BY DEF CInv
  <2>2. \A m \in 1 .. Len(<< >>) : Mentions(<< >>[m]) = {} OBVIOUS
  <2> QED BY <1>9, <2>1, <2>2, GainFresh
<1>12. messages' = messages /\ issued' = issued /\ Written' = Written
  BY DEF AppendCustomEntry, harnessVars, Written
<1>13. \A m \in 1 .. Len(<< >>) : \E i \in 1 .. Len(messages') : << >>[m] = messages'[i]
  OBVIOUS
<1>14. Fresh(messages', log', issued', Written') BY <1>11, <1>12
<1> QED BY <1>9, <1>10, <1>13, <1>14, StillKeeps

-----------------------------------------------------------------------------
(* Where a transcript is replayed there is no run.                           *)
LEMMA ReplayedStill ==
  ASSUME CInv, TInv', messages' = Replayed(log', lastParent'), log' # << >>,
         CallsAreNewIn(log'), KnownIn(log', issued), UNCHANGED <<todo, reply, issued>>,
         call' \notin Runs
  PROVE  CInv'
<1>1. PICK w : w = log' OBVIOUS
<1>2. PICK leaf : leaf = lastParent' OBVIOUS
<1>3. PICK n : n = issued OBVIOUS
<1>4. Placed(w, leaf) BY <1>1, <1>2 DEF TInv, IInv
<1>5. Fresh(Replayed(w, leaf), w, n, Len(Replayed(w, leaf)))
  BY <1>1, <1>3, <1>4, ReplayFresh
<1>6. Written' = Len(messages') BY DEF Written
<1>7. Fresh(messages', log', issued', Written') BY <1>1, <1>2, <1>3, <1>5, <1>6
<1>8. pc' = "idle" BY DEF TInv
<1> QED BY <1>7, <1>8 DEF CInv, Coming

(* A log that gains no message.                                              *)
LEMMA GainsNew ==
  ASSUME NEW a, NEW w, NEW n, KnownIn(a, n), Gains(a, w, << >>)
  PROVE  CallsAreNewIn(w) /\ KnownIn(w, n)
<1>1. Known(<< >>, n) BY DEF Known
<1> QED BY <1>1, GainsKnown DEF Gains

(* A branch.                                                                 *)
LEMMA BranchStill ==
  ASSUME CInv, TInv', BranchToEntry \/ BranchSummarized
  PROVE  CInv'
<1>1. PICK entries : entries = log OBVIOUS
<1>2. PICK w : w = log' OBVIOUS
<1>3. PICK n : n = issued OBVIOUS
<1>4. IInv /\ Tree(entries) /\ CallsAreNewIn(entries) /\ KnownIn(entries, n)
  BY <1>1, <1>3, CallsHaveIds
<1>5. /\ messages' = Replayed(log', lastParent') /\ call' = call /\ Keeps(log, log')
      /\ call \in {"idle", "manualCompact"}
  BY <1>4, BranchKeeps
<1>6. /\ Gains(entries, w, << >>) /\ entries # << >> /\ UNCHANGED <<todo, reply, issued>>
  <2>1. CASE BranchToEntry
    <3>1. PICK m \in DOMAIN log : \E target \in {L!BranchTarget(log, m), m} :
            log' = L!MovedTo(log, target) /\ ReplayAt(target)
      BY <2>1, Zenon DEF BranchToEntry
    <3>2. PICK target \in {L!BranchTarget(log, m), m} :
            log' = L!MovedTo(log, target) /\ ReplayAt(target)
      BY <3>1
    <3>3. m \in 1 .. Len(entries) /\ Len(entries) \in Nat /\ entries # << >>
      BY <1>1, <1>4 DEF Tree
    <3>4. target \in 0 .. Len(entries)
      <4>1. L!BranchTarget(entries, m) \in {entries[m].parent, m} BY DEF L!BranchTarget
      <4>2. entries[m].parent \in 0 .. m - 1 BY <1>4, <3>3 DEF Tree
      <4> QED BY <1>1, <3>2, <3>3, <4>1, <4>2
    <3>5. w = L!MovedTo(entries, target) BY <1>1, <1>2, <3>2
    <3>6. Gains(entries, w, << >>) BY <1>4, <3>4, <3>5, MovedGains
    <3> QED BY <3>2, <3>3, <3>6 DEF ReplayAt
  <2>2. CASE BranchSummarized
    <3>1. branch.from \in 1 .. Len(log) /\ log' = Summarized /\ ReplayAt(Len(log) + 1)
      BY <1>4, <2>2 DEF BranchSummarized, IInv, Waits
    <3>2. PICK from : from = branch.from OBVIOUS
    <3>3. PICK e : e = L!BranchSummaryEntry(from) OBVIOUS
    <3>4. from \in 1 .. Len(entries) /\ Len(entries) \in Nat /\ entries # << >>
      BY <1>1, <1>4, <3>1, <3>2 DEF Tree
    <3>5. /\ e \in Entry /\ e.type \notin {"leaf", "message"}
          /\ e.parent \in 0 .. Len(L!Opened(entries))
      <4>1. L!Opened(entries) = entries BY <3>4 DEF L!Opened
      <4> QED BY <3>3, <3>4, <4>1 DEF L!BranchSummaryEntry, Entry
    <3>6. w = L!Appended(entries, e) BY <1>1, <1>2, <3>1, <3>2, <3>3 DEF Summarized
    <3>7. Gains(entries, w, << >>) BY <1>4, <3>5, <3>6, AppendedGains
    <3> QED BY <3>1, <3>4, <3>7 DEF ReplayAt
  <2> QED BY <2>1, <2>2
<1>7. CallsAreNewIn(w) /\ KnownIn(w, n) BY <1>4, <1>6, GainsNew
<1>8. log' # << >>
  <2>1. Len(log) <= Len(log') /\ Len(log) > 0 BY <1>1, <1>4, <1>5, <1>6 DEF Keeps, Tree
  <2>2. Len(<< >>) = 0 OBVIOUS
  <2>3. Len(log) \in Nat BY <1>1, <1>4 DEF Tree
  <2> QED BY <2>1, <2>2, <2>3
<1>9. call' \notin Runs BY <1>5 DEF Runs
<1> QED BY <1>2, <1>3, <1>5, <1>6, <1>7, <1>8, <1>9, ReplayedStill

(* A compaction, and the prompt that waited for it.                          *)
LEMMA CompactStill ==
  ASSUME CInv, TInv', Compact
  PROVE  CInv'
<1>1. PICK entries : entries = log OBVIOUS
<1>2. PICK w : w = log' OBVIOUS
<1>3. PICK n : n = issued OBVIOUS
<1>4. PICK leaf : leaf = lastParent OBVIOUS
<1>5. PICK ids : ids = plan OBVIOUS
<1>6. PICK e : e = L!CompactionEntry(leaf, ids) OBVIOUS
<1>7. /\ IInv /\ Tree(entries) /\ CallsAreNewIn(entries) /\ KnownIn(entries, n)
      /\ Placed(entries, leaf) /\ ids \subseteq Nat
  BY <1>1, <1>3, <1>4, <1>5, CallsHaveIds DEF IInv
<1>8. /\ call' \in {"run", "retryStart", "idle"}
      /\ call' # "run" => messages' = Replayed(log', lastParent')
      /\ Keeps(log, log') /\ entries # << >>
  BY <1>1, <1>7, CompactKeeps DEF IInv, Compact
<1>9. leaf \in 0 .. Len(L!Opened(entries)) /\ leaf \in Nat
  <2>1. Len(L!Opened(entries)) \in Nat BY <1>7, OpenedFacts
  <2> QED BY <1>7, <2>1 DEF Placed
<1>10. e \in Entry /\ e.type \notin {"leaf", "message"} /\ e.parent \in 0 .. Len(L!Opened(entries))
  BY <1>6, <1>7, <1>9 DEF L!CompactionEntry, Entry
<1>11. w = L!Appended(entries, e) BY <1>1, <1>2, <1>4, <1>5, <1>6 DEF Compact
<1>12. Gains(entries, w, << >>) BY <1>7, <1>10, <1>11, AppendedGains
<1>13. CallsAreNewIn(w) /\ KnownIn(w, n) BY <1>7, <1>12, GainsNew
<1>14. w # << >>
  <2>1. Len(log) <= Len(log') /\ Len(log) > 0 /\ Len(log) \in Nat
    BY <1>1, <1>7, <1>8 DEF Keeps, Tree
  <2>2. Len(<< >>) = 0 OBVIOUS
  <2> QED BY <1>2, <2>1, <2>2
<1>15. CASE call # "preCompact"
  <2>1. call' \notin Runs /\ messages' = Replayed(log', lastParent')
        /\ UNCHANGED <<todo, reply, issued>>
    <3>1. call' # "run" BY <1>15 DEF Compact, AfterCompaction
    <3> QED BY <1>8, <1>15, <3>1 DEF Compact, Runs
  <2> QED BY <1>2, <1>3, <1>13, <1>14, <2>1, ReplayedStill
<1>16. CASE call = "preCompact"
  <2>1. PICK last : last = lastParent' OBVIOUS
  <2>2. PICK t : t = L!MessagesOf(L!Rows(w, last)) OBVIOUS
  <2>3. H!PromptOn(t) /\ persisted' = Len(t) /\ call' = "run"
    BY <1>2, <1>16, <2>1, <2>2 DEF Compact
  <2>4. Placed(w, last) BY <1>2, <2>1 DEF TInv, IInv
  <2>5. t = Replayed(w, last) BY <1>14, <2>2, <2>4, ReplayedTyped
  <2>6. t \in Seq(H!Messages) /\ Fresh(t, w, n, Len(t))
    BY <1>13, <1>14, <2>4, <2>5, ReplayFresh
  <2>7. PICK b : b = messages' OBVIOUS
  <2>8. H!TypeOK BY CallsHaveIds
  <2>9. Quiet(t, b, n) BY <2>3, <2>6, <2>7, <2>8, PromptQuiet DEF Fresh
  <2>10. PICK count \in Nat : count = Len(t) BY <2>6
  <2>11. Fresh(b, w, n, count) BY <2>6, <2>9, <2>10, QuietFresh
  <2>12. Written' = count BY <2>3, <2>10 DEF Written, Runs
  <2>13. UNCHANGED <<todo, reply, issued>> /\ pc' = "start" BY <2>3 DEF H!PromptOn
  <2>14. Fresh(messages', log', issued', Written') BY <1>2, <1>3, <2>7, <2>11, <2>12, <2>13
  <2> QED BY <2>13, <2>14 DEF CInv, Coming
<1> QED BY <1>15, <1>16

(* A step of a run: a reply may make calls, and then it enters.              *)
LEMMA MoreIds ==
  ASSUME NEW a, NEW entries, NEW n \in Nat, NEW count, Fresh(a, entries, n, count),
         NEW k \in Nat, n <= k
  PROVE  Fresh(a, entries, k, count)
<1>1. 1 .. n \subseteq 1 .. k OBVIOUS
<1>2. Known(a, k) BY <1>1 DEF Fresh, Known
<1>3. KnownIn(entries, k) BY <1>1 DEF Fresh, KnownIn
<1> QED BY <1>2, <1>3 DEF Fresh

(* A step of the run; the only one that makes calls.                         *)
LEMMA RunStill ==
  ASSUME FreshCallIds, CInv, TInv', RunStep
  PROVE  CInv'
<1>0. /\ log' = log /\ Written' = Written /\ H!TypeOK /\ HasIds
      /\ KnownIn(log, issued) /\ issued \in Nat
  BY CallsHaveIds DEF RunStep, logVars, Written
<1>1. CASE H!ProviderEnds
  <2>1. /\ UNCHANGED <<messages, todo>> /\ issued' \in Nat /\ issued <= issued'
        /\ Makes(reply') \subseteq 1 .. issued'
        /\ Strange(Makes(reply'), messages') /\ StrangeIn(Makes(reply'), log)
    BY <1>0, <1>1, ReplyIsNew
  <2>2. Fresh(messages, log, issued', Written)
    <3>1. Fresh(messages, log, issued, Written) BY DEF CInv
    <3> QED BY <1>0, <2>1, <3>1, MoreIds
  <2>3. H!Elements(todo') \subseteq 1 .. issued'
    <3>1. 1 .. issued \subseteq 1 .. issued' BY <1>0, <2>1
    <3> QED BY <1>0, <2>1, <3>1 DEF HasIds
  <2>4. Fresh(messages', log', issued', Written') BY <1>0, <2>1, <2>2
  <2>5. Strange(Makes(reply'), messages') /\ StrangeIn(Makes(reply'), log') BY <1>0, <2>1
  <2> QED BY <2>1, <2>3, <2>4, <2>5 DEF CInv, Coming
<1>2. CASE H!LeaveAssistantEnd
  <2>1. /\ pc = "assistantEnd" /\ messages' = Append(messages, reply)
        /\ todo' \in {todo, reply.calls} /\ pc' # "assistantEnd" /\ UNCHANGED <<reply, issued>>
    BY <1>2 DEF H!LeaveAssistantEnd
  <2>2. /\ Strange(Makes(reply), messages) /\ StrangeIn(Makes(reply), log)
        /\ H!Elements(todo) \subseteq 1 .. issued /\ Makes(reply) \subseteq 1 .. issued
    BY <2>1 DEF CInv, Coming
  <2>3. /\ reply \in H!Messages /\ reply.role = "assistant"
        /\ Makes(reply) = H!Elements(reply.calls) /\ Mentions(reply) = Makes(reply)
    <3>1. reply \in H!AssistantMessages BY <1>0 DEF H!TypeOK
    <3>2. reply.role = "assistant" BY <3>1 DEF H!AssistantMessages
    <3> QED BY <3>1, <3>2 DEF H!Messages, Makes, Mentions
  <2>4. PICK a \in Seq(H!Messages) : a = messages BY CallsHaveIds
  <2>5. PICK r \in H!Messages : r = reply BY <2>3
  <2>6. PICK count \in Nat : count = Written BY CallsHaveIds
  <2>7. PICK entries : entries = log OBVIOUS
  <2>8. PICK n : n = issued OBVIOUS
  <2>9. /\ Fresh(a, entries, n, count) /\ Mentions(r) \subseteq 1 .. n
        /\ Strange(Makes(r), a) /\ StrangeIn(Makes(r), entries)
    BY <2>2, <2>3, <2>4, <2>5, <2>6, <2>7, <2>8 DEF CInv
  <2>10. Fresh(Append(a, r), entries, n, count) BY <2>9, ReplyFresh
  <2>11. Fresh(messages', log', issued', Written')
    BY <1>0, <2>1, <2>4, <2>5, <2>6, <2>7, <2>8, <2>10
  <2>12. H!Elements(todo') \subseteq 1 .. issued' BY <2>1, <2>2, <2>3
  <2> QED BY <2>1, <2>2, <2>11, <2>12 DEF CInv, Coming
<1>3. CASE \/ H!LeaveStart \/ H!LeaveTurnStart \/ H!ToolRefused \/ H!ToolRuns
           \/ H!ToolReturns \/ H!LeaveToolEnd \/ H!LeaveTurnEnd
  <2>1. Still BY <1>0, <1>3, HarnessStill
  <2> QED BY <1>0, <2>1, StillUnwritten
<1> QED BY <1>1, <1>2, <1>3 DEF RunStep

(* The steps that write nothing.                                             *)
LEMMA UnwrittenStill ==
  ASSUME CInv, TInv',
         \/ SendPrompt \/ SendContinue \/ RetryRun \/ Abandon \/ Queue \/ Cancel
         \/ OverflowCompaction \/ StartPreCompaction \/ StartManualCompaction
         \/ AbandonCompaction \/ StartBranchSummary \/ CompactionFails \/ UNCHANGED vars
  PROVE  CInv'
<1>0. H!TypeOK /\ HasIds BY CallsHaveIds
<1>1. CASE SendPrompt
  <2>1. H!Prompt /\ log' = log /\ Written' = Written
    BY <1>1 DEF SendPrompt, logVars, Written, Runs
  <2> QED BY <1>0, <2>1, HarnessStill, StillUnwritten
<1>2. CASE SendContinue \/ RetryRun
  <2>1. H!Resume /\ log' = log /\ Written' = Written
    BY <1>2 DEF SendContinue, RetryRun, H!Continue, logVars, Written, Runs
  <2> QED BY <1>0, <2>1, HarnessStill, StillUnwritten
<1>3. CASE Abandon
  <2>1. H!Finally /\ log' = log /\ Written' = Len(messages')
    BY <1>3 DEF Abandon, H!Close, logVars, Written, Runs
  <2> QED BY <1>0, <2>1, HarnessStill, StillUnwritten
<1>4. CASE Queue \/ Cancel
  <2>1. (H!Steer \/ H!FollowUp \/ H!Cancel) /\ log' = log /\ Written' = Written
    BY <1>4 DEF Queue, Cancel, logVars, Written, H!Steer, H!FollowUp, H!Cancel
  <2> QED BY <1>0, <2>1, HarnessStill, StillUnwritten
<1>5. CASE \/ OverflowCompaction \/ StartPreCompaction \/ StartManualCompaction
           \/ AbandonCompaction \/ StartBranchSummary \/ UNCHANGED vars
  <2>1. /\ UNCHANGED harnessVars /\ log' = log /\ messages' = messages /\ Written' = Written
    <3>1. UNCHANGED harnessVars /\ UNCHANGED logVars /\ UNCHANGED persisted
      BY <1>5 DEF OverflowCompaction, StartPreCompaction, StartManualCompaction,
                  AbandonCompaction, StartBranchSummary, vars
    <3>2. messages' = messages /\ log' = log BY <3>1 DEF harnessVars, logVars
    <3>3. call' \in Runs <=> call \in Runs
      BY <1>5 DEF OverflowCompaction, StartPreCompaction, StartManualCompaction,
                  AbandonCompaction, StartBranchSummary, vars, Runs, Compactions
    <3> QED BY <3>1, <3>2, <3>3 DEF Written
  <2> QED BY <1>0, <2>1, HarnessStill, StillUnwritten
<1>6. CASE CompactionFails
  <2>1. (H!Prompt \/ UNCHANGED harnessVars) /\ log' = log /\ Written' = Written
    <3>1. log' = log /\ call \notin Runs
      BY <1>6 DEF CompactionFails, logVars, Runs, Compactions
    <3>2. CASE call = "preCompact"
      <4>1. H!Prompt /\ persisted' = Len(messages) /\ call' = "run"
        BY <1>6, <3>2 DEF CompactionFails
      <4> QED BY <3>1, <4>1 DEF Written, Runs
    <3>3. CASE call # "preCompact"
      <4>1. UNCHANGED harnessVars /\ call' = "idle" BY <1>6, <3>3 DEF CompactionFails
      <4>2. messages' = messages BY <4>1 DEF harnessVars
      <4> QED BY <3>1, <4>1, <4>2 DEF Written, Runs
    <3> QED BY <3>2, <3>3
  <2> QED BY <1>0, <2>1, HarnessStill, StillUnwritten
<1> QED BY <1>1, <1>2, <1>3, <1>4, <1>5, <1>6

(* The steps of a run that write.                                            *)
LEMMA WriterStill ==
  ASSUME CInv, TInv', HandleMessageEnd \/ FinishRun
  PROVE  CInv'
<1>0. H!TypeOK /\ HasIds BY CallsHaveIds
<1>1. CASE HandleMessageEnd
  <2>1. UNCHANGED harnessVars /\ messages' = messages /\ call' = call /\ call \in Runs
    BY <1>1 DEF HandleMessageEnd, harnessVars, CInv, TInv, IInv, Heard
  <2>2. Still BY <1>0, <2>1, HarnessStill
  <2>3. PersistSince(messages', persisted) /\ persisted' = Len(messages)
    BY <1>1, <2>1 DEF HandleMessageEnd, PersistSince
  <2>4. Written' = Len(messages') BY <2>1, <2>3 DEF Written
  <2> QED BY <2>1, <2>2, <2>3, <2>4, StillWritten
<1>2. CASE FinishRun
  <2>1. H!Finally /\ call \in Runs /\ PersistSince(messages', persisted)
        /\ call' \in {"idle", "overflow", "postCompact"}
    BY <1>2 DEF FinishRun, H!Finish
  <2>2. Still BY <1>0, <2>1, HarnessStill
  <2>3. Written' = Len(messages') BY <2>1 DEF Written, Runs
  <2> QED BY <2>1, <2>2, <2>3, StillWritten
<1> QED BY <1>1, <1>2

-----------------------------------------------------------------------------
(* The log that a write in progress would leave makes new calls as well.     *)
LEMMA NextLogsNew ==
  ASSUME CInv, call # "down", log # << >>, NEW next \in NextLogs
  PROVE  CallsAreNewIn(next) /\ KnownIn(next, issued)
<1>1. PICK entries : entries = log OBVIOUS
<1>2. PICK leaf : leaf = lastParent OBVIOUS
<1>3. PICK n : n = issued OBVIOUS
<1>4. /\ IInv /\ Tree(entries) /\ entries # << >> /\ CallsAreNewIn(entries) /\ KnownIn(entries, n)
      /\ Placed(entries, leaf) /\ L!Opened(entries) = entries
      /\ leaf \in 0 .. Len(entries) /\ Len(entries) \in Nat
  <2>1. /\ IInv /\ Tree(entries) /\ CallsAreNewIn(entries) /\ KnownIn(entries, n)
        /\ Placed(entries, leaf) /\ entries # << >>
    BY <1>1, <1>2, <1>3, CallsHaveIds
  <2>2. L!Opened(entries) = entries BY <2>1 DEF L!Opened
  <2> QED BY <2>1, <2>2 DEF Placed, Tree
<1>5. CASE next = log
  BY <1>1, <1>3, <1>4, <1>5
<1>6. CASE due /\ next = L!WithMessages(log, lastParent, Unwritten(messages, persisted))
  <2>1. PICK msgs \in Seq(H!Messages) : msgs = messages BY CallsHaveIds
  <2>2. call \in Runs BY <1>4, <1>6 DEF IInv, Heard
  <2>3. PICK count \in Nat : count = persisted /\ count = Written
    BY <2>2, CallsHaveIds DEF Written
  <2>4. PICK u : u = Unwritten(msgs, count) OBVIOUS
  <2>5. PICK w : w = next OBVIOUS
  <2>6. w = L!WithMessages(entries, leaf, u)
    BY <1>1, <1>2, <1>6, <2>1, <2>3, <2>4, <2>5, Zenon
  <2>7. Fresh(msgs, entries, n, count) BY <1>1, <1>3, <2>1, <2>3 DEF CInv
  <2>8. Gains(entries, w, u) /\ KnownIn(w, n) BY <1>4, <2>4, <2>6, <2>7, RestGains
  <2> QED BY <1>3, <2>5, <2>8 DEF Gains
<1>7. CASE next = L!Appended(log, L!CompactionEntry(lastParent, plan))
  <2>1. PICK ids : ids = plan OBVIOUS
  <2>2. PICK e : e = L!CompactionEntry(leaf, ids) OBVIOUS
  <2>3. PICK w : w = next OBVIOUS
  <2>4. /\ e \in Entry /\ e.type \notin {"leaf", "message"}
        /\ e.parent \in 0 .. Len(L!Opened(entries))
    BY <1>4, <2>1, <2>2 DEF L!CompactionEntry, Entry, IInv
  <2>5. w = L!Appended(entries, e) BY <1>1, <1>2, <1>7, <2>1, <2>2, <2>3, Zenon
  <2>6. Gains(entries, w, << >>) BY <1>4, <2>4, <2>5, AppendedGains
  <2>7. CallsAreNewIn(w) /\ KnownIn(w, n) BY <1>4, <2>6, GainsNew
  <2> QED BY <1>3, <2>3, <2>7
<1>8. CASE branch # NoBranch /\ next = Summarized
  <2>1. branch.from \in 1 .. Len(log) BY <1>4, <1>8 DEF IInv, Waits
  <2>2. PICK from : from = branch.from OBVIOUS
  <2>3. PICK e : e = L!BranchSummaryEntry(from) OBVIOUS
  <2>4. PICK w : w = next OBVIOUS
  <2>5. /\ e \in Entry /\ e.type \notin {"leaf", "message"}
        /\ e.parent \in 0 .. Len(L!Opened(entries))
    <3>1. from \in 1 .. Len(entries) BY <1>1, <2>1, <2>2
    <3> QED BY <1>4, <2>3, <3>1 DEF L!BranchSummaryEntry, Entry
  <2>6. w = L!Appended(entries, e) BY <1>1, <1>8, <2>2, <2>3, <2>4, Zenon DEF Summarized
  <2>7. Gains(entries, w, << >>) BY <1>4, <2>5, <2>6, AppendedGains
  <2>8. CallsAreNewIn(w) /\ KnownIn(w, n) BY <1>4, <2>7, GainsNew
  <2> QED BY <1>3, <2>4, <2>8
<1> QED BY <1>5, <1>6, <1>7, <1>8 DEF NextLogs

(* A process that dies.                                                      *)
LEMMA DieStill ==
  ASSUME CInv, TInv', Die
  PROVE  CInv'
<1>1. call # "down" /\ log # << >> /\ IInv /\ Tree(log)
  BY CallsHaveIds DEF Die
<1>2. PICK next \in NextLogs : \E n \in Len(log) .. Len(next) : log' = SubSeq(next, 1, n)
  BY DEF Die
<1>3. PICK n \in Len(log) .. Len(next) : log' = SubSeq(next, 1, n)
  BY <1>2
<1>4. Tree(next) /\ Keeps(log, next) BY <1>1, NextLogsKeep
<1>5. CallsAreNewIn(next) /\ KnownIn(next, issued) BY <1>1, NextLogsNew
<1>6. PICK w : w = next OBVIOUS
<1>7. PICK v : v = log' OBVIOUS
<1>8. n \in 0 .. Len(w) /\ v = SubSeq(w, 1, n) /\ Tree(w) /\ CallsAreNewIn(w) /\ Len(w) \in Nat
  <2>1. Len(log) \in Nat /\ Len(w) \in Nat BY <1>1, <1>4, <1>6 DEF Tree
  <2> QED BY <1>3, <1>4, <1>5, <1>6, <1>7, <2>1
<1>9. Tree(v) /\ Len(v) = n BY <1>8, PrefixTree
<1>10. Keeps(v, w)
  <2>1. w \in Seq(Entry) BY <1>8 DEF Tree
  <2>2. \A i \in 1 .. n : w[i] = v[i] BY <1>8, <2>1
  <2> QED BY <1>8, <1>9, <2>2 DEF Keeps
<1>11. CallsAreNewIn(v) /\ KnownIn(v, issued)
  BY <1>5, <1>6, <1>8, <1>9, <1>10, CutIsNew
<1>12. /\ messages' = << >> /\ reply' = H!ErrorMessage /\ todo' = << >> /\ issued' = issued
       /\ pc' = "idle" /\ call' = "down"
  BY DEF Die
<1>13. Fresh(<< >>, v, issued, Len(<< >>))
  <2>1. << >> \in Seq(H!Messages) OBVIOUS
  <2>2. Known(<< >>, issued) /\ CallsAreNew(<< >>) BY DEF Known, CallsAreNew, Pairwise
  <2> QED BY <1>11, <2>1, <2>2, FreshAll
<1>14. Written' = Len(messages') BY <1>12 DEF Written, Runs
<1>15. Fresh(messages', log', issued', Written') BY <1>7, <1>12, <1>13, <1>14
<1>16. H!Elements(todo') = {} /\ Makes(reply') = {}
  BY <1>12, UserQuiet DEF H!Elements
<1> QED BY <1>12, <1>15, <1>16 DEF CInv, Coming

-----------------------------------------------------------------------------
(* Sequences in order, one after the other.                                  *)
LEMMA FlattenPairs ==
  ASSUME NEW S, NEW seqs \in Seq(Seq(S)), NEW R, \A k \in 1 .. Len(seqs) : Pairwise(seqs[k], R),
         \A i, k \in 1 .. Len(seqs) : i < k =>
           \A x \in L!ToSet(seqs[i]), y \in L!ToSet(seqs[k]) : <<x, y>> \in R
  PROVE  Pairwise(L!FlattenSeq(seqs), R)
<1>0. Joined(S, seqs) BY FlattenSteps
<1>1. PICK f \in [0 .. Len(seqs) -> Seq(S)] :
        /\ f[0] = << >> /\ L!FlattenSeq(seqs) = f[Len(seqs)]
        /\ \A k \in 1 .. Len(seqs) : f[k] = f[k - 1] \o seqs[k]
  BY <1>0 DEF Joined
<1>2. Len(seqs) \in Nat OBVIOUS
<1> DEFINE K == {k \in 0 .. Len(seqs) :
                   /\ Pairwise(f[k], R)
                   /\ \A x \in L!ToSet(f[k]) : \E j \in 1 .. k : x \in L!ToSet(seqs[j])}
<1>3. ASSUME NEW k \in 0 .. Len(seqs), \A j \in 0 .. Len(seqs) : j < k => j \in K PROVE k \in K
  <2>1. CASE k = 0
    <3>1. L!ToSet(f[k]) = {} /\ Pairwise(f[k], R) BY <1>1, <2>1 DEF L!ToSet, Pairwise
    <3> QED BY <3>1
  <2>2. CASE k # 0
    <3>1. k \in 1 .. Len(seqs) /\ k - 1 \in 0 .. Len(seqs) /\ k - 1 < k /\ k \in Nat
      BY <1>2, <2>2
    <3>2. /\ Pairwise(f[k - 1], R)
          /\ \A x \in L!ToSet(f[k - 1]) : \E j \in 1 .. k - 1 : x \in L!ToSet(seqs[j])
      BY <1>3, <3>1
    <3>3. PICK a \in Seq(S) : a = f[k - 1] BY <1>1, <3>1
    <3>4. PICK b \in Seq(S) : b = seqs[k] BY <3>1
    <3>5. /\ L!ToSet(a \o b) = L!ToSet(a) \union L!ToSet(b)
          /\ Pairwise(a, R) /\ Pairwise(b, R)
             /\ (\A x \in L!ToSet(a), y \in L!ToSet(b) : <<x, y>> \in R)
             => Pairwise(a \o b, R)
      BY ConcatPairs
    <3>6. f[k] = a \o b BY <1>1, <3>1, <3>3, <3>4
    <3>7. ASSUME NEW x \in L!ToSet(a), NEW y \in L!ToSet(b) PROVE <<x, y>> \in R
      <4>1. PICK j \in 1 .. k - 1 : x \in L!ToSet(seqs[j]) BY <3>2, <3>3
      <4>2. j \in 1 .. Len(seqs) /\ j < k BY <3>1
      <4> QED BY <3>1, <3>4, <4>1, <4>2
    <3>8. Pairwise(a \o b, R) BY <3>1, <3>2, <3>3, <3>4, <3>5, <3>7
    <3>9. ASSUME NEW x \in L!ToSet(f[k]) PROVE \E j \in 1 .. k : x \in L!ToSet(seqs[j])
      <4>1. CASE x \in L!ToSet(a)
        <5>1. PICK j \in 1 .. k - 1 : x \in L!ToSet(seqs[j]) BY <3>2, <3>3, <4>1
        <5>2. j \in 1 .. k BY <3>1
        <5> QED BY <5>1, <5>2
      <4>2. CASE x \in L!ToSet(b)
        <5>1. k \in 1 .. k BY <3>1
        <5> QED BY <3>4, <4>2, <5>1
      <4> QED BY <3>5, <3>6, <4>1, <4>2
    <3> QED BY <3>6, <3>8, <3>9
  <2> QED BY <2>1, <2>2
<1> HIDE DEF K
<1>4. \A k \in 0 .. Len(seqs) : k \in K BY <1>2, <1>3, UpTo
<1>5. Pairwise(f[Len(seqs)], R) BY <1>2, <1>4 DEF K
<1> QED BY <1>1, <1>5

(* What a load writes again of row i, and adds to it: a result for each call *)
(* that is first made there and that no row answers.                         *)
Piece(rows, i) ==
  (IF i = L!RepairPoint(rows) THEN << >> ELSE <<rows[i].message>>)
    \o L!Synthetic(L!InterruptedAt(rows, i))
Interrupts(rows, i, c) ==
  /\ L!IsCall(rows, i, c) /\ ~L!HasResult(rows, c)
  /\ \A j \in 1 .. i - 1 : ~L!IsCall(rows, j, c)
Synthesized(c) == [role |-> "toolResult", call |-> c, how |-> "interrupted"]

(* Such a result is a message, and names its call only.                      *)
LEMMA SynthesizedFacts ==
  ASSUME NEW c \in H!CallIds
  PROVE  /\ Synthesized(c) \in H!Messages /\ Makes(Synthesized(c)) = {}
         /\ Mentions(Synthesized(c)) = {c}
BY DEF Synthesized, H!Messages, H!ToolResults, H!Outcomes, Makes, Mentions

(* The calls of a message.                                                   *)
LEMMA CallsTyped ==
  ASSUME NEW N, NEW rows \in Seq(Row(N)), NEW i \in 1 .. Len(rows)
  PROVE  /\ rows[i].message \in H!Messages
         /\ rows[i].message.role = "assistant" =>
              /\ rows[i].message.calls \in Seq(H!CallIds)
              /\ Makes(rows[i].message) = L!ToSet(rows[i].message.calls)
         /\ Makes(rows[i].message) \subseteq H!CallIds
         /\ \A c : L!IsCall(rows, i, c) <=> c \in Makes(rows[i].message)
<1>1. PICK m : m = rows[i].message OBVIOUS
<1>2. m \in H!Messages
  <2>1. rows[i] \in Row(N) OBVIOUS
  <2> QED BY <1>1, <2>1 DEF Row
<1>3. m.role = "assistant" => m.calls \in Seq(H!CallIds)
  BY <1>2 DEF H!Messages, H!UserMessages, H!AssistantMessages, H!ToolResults
<1>4. m.role = "assistant" => Makes(m) = L!ToSet(m.calls)
  BY DEF Makes, H!Elements, L!ToSet
<1>5. Makes(m) \subseteq H!CallIds
  <2>1. CASE m.role = "assistant"
    <3>1. PICK s \in Seq(H!CallIds) : s = m.calls BY <1>3, <2>1
    <3>2. L!ToSet(s) \subseteq H!CallIds BY DEF L!ToSet
    <3> QED BY <1>4, <2>1, <3>1, <3>2
  <2>2. CASE m.role # "assistant" BY <2>2 DEF Makes
  <2> QED BY <2>1, <2>2
<1>6. \A c : L!IsCall(rows, i, c) <=> c \in Makes(m)
  BY <1>1 DEF L!IsCall, Makes, H!Elements, L!ToSet
<1> QED BY <1>1, <1>2, <1>3, <1>4, <1>5, <1>6

(* The calls InterruptedAt lists.                                            *)
LEMMA InterruptedFacts ==
  ASSUME NEW N, NEW rows \in Seq(Row(N)), NEW i \in 1 .. Len(rows)
  PROVE  /\ L!InterruptedAt(rows, i) \in Seq(H!CallIds)
         /\ \A c : c \in L!ToSet(L!InterruptedAt(rows, i)) <=> Interrupts(rows, i, c)
<1>1. CASE rows[i].message.role # "assistant"
  <2>1. L!InterruptedAt(rows, i) = << >> BY <1>1 DEF L!InterruptedAt
  <2>2. L!ToSet(<< >>) = {} BY DEF L!ToSet
  <2>3. \A c : ~Interrupts(rows, i, c) BY <1>1 DEF Interrupts, L!IsCall
  <2> QED BY <2>1, <2>2, <2>3
<1>2. CASE rows[i].message.role = "assistant"
  <2>1. PICK s \in Seq(H!CallIds) : s = rows[i].message.calls BY <1>2, CallsTyped
  <2>2. PICK those : those = {c \in L!ToSet(s) :
             ~L!HasResult(rows, c) /\ \A j \in 1 .. i - 1 : ~L!IsCall(rows, j, c)}
    OBVIOUS
  <2>3. L!InterruptedAt(rows, i) = L!Among(s, those)
    BY <1>2, <2>1, <2>2 DEF L!InterruptedAt
  <2>4. /\ L!Among(s, those) \in Seq(H!CallIds \intersect those)
        /\ \A x : x \in L!ToSet(L!Among(s, those)) <=> x \in L!ToSet(s) /\ x \in those
    BY AmongElements
  <2>5. \A c : Interrupts(rows, i, c) <=> c \in L!ToSet(s) /\ c \in those
    BY <1>2, <2>1, <2>2 DEF Interrupts, L!IsCall
  <2>6. L!InterruptedAt(rows, i) \in Seq(H!CallIds) BY <2>3, <2>4
  <2> QED BY <2>3, <2>4, <2>5, <2>6
<1> QED BY <1>1, <1>2

(* A row written again, with its results.                                    *)
LEMMA PieceFacts ==
  ASSUME NEW N, NEW rows \in Seq(Row(N)), NEW i \in 1 .. Len(rows)
  PROVE  /\ Piece(rows, i) \in Seq(H!Messages)
         /\ \A x : x \in L!ToSet(Piece(rows, i)) <=>
              \/ i # L!RepairPoint(rows) /\ x = rows[i].message
              \/ \E c \in H!CallIds : Interrupts(rows, i, c) /\ x = Synthesized(c)
         /\ Pairwise(Piece(rows, i), Unmentioned)
<1>1. PICK m \in H!Messages : m = rows[i].message BY CallsTyped
<1>2. PICK a : a = IF i = L!RepairPoint(rows) THEN << >> ELSE <<m>> OBVIOUS
<1>3. /\ a \in Seq(H!Messages) /\ Pairwise(a, Unmentioned)
      /\ \A x : x \in L!ToSet(a) <=> i # L!RepairPoint(rows) /\ x = m
  <2>1. CASE i = L!RepairPoint(rows)
    <3>1. a = << >> BY <1>2, <2>1
    <3>2. L!ToSet(<< >>) = {} /\ Pairwise(<< >>, Unmentioned) BY DEF L!ToSet, Pairwise
    <3> QED BY <2>1, <3>1, <3>2
  <2>2. CASE i # L!RepairPoint(rows)
    <3>1. a = <<m>> BY <1>2, <2>2
    <3>2. L!ToSet(<<m>>) = {m} /\ Pairwise(<<m>>, Unmentioned) BY DEF L!ToSet, Pairwise
    <3> QED BY <2>2, <3>1, <3>2
  <2> QED BY <2>1, <2>2
<1>4. PICK s \in Seq(H!CallIds) : s = L!InterruptedAt(rows, i) BY InterruptedFacts
<1>5. PICK b : b = L!Synthetic(s) OBVIOUS
<1>6. b = [j \in 1 .. Len(s) |-> Synthesized(s[j])]
  BY <1>5 DEF L!Synthetic, Synthesized
<1>7. \A j \in 1 .. Len(s) : s[j] \in H!CallIds /\ Len(s) \in Nat OBVIOUS
<1>8. \A j \in 1 .. Len(s) : Synthesized(s[j]) \in H!Messages /\ Makes(Synthesized(s[j])) = {}
  BY <1>7, SynthesizedFacts
<1>9. b \in Seq(H!Messages) /\ Len(b) = Len(s) /\ \A j \in 1 .. Len(s) : b[j] = Synthesized(s[j])
  BY <1>6, <1>8
<1>10. \A x : x \in L!ToSet(b) <=> \E c \in L!ToSet(s) : x = Synthesized(c)
  <2>1. L!ToSet(b) = {b[j] : j \in 1 .. Len(s)} BY <1>9 DEF L!ToSet
  <2>2. L!ToSet(s) = {s[j] : j \in 1 .. Len(s)} BY DEF L!ToSet
  <2> QED BY <1>9, <2>1, <2>2
<1>11. \A c : c \in L!ToSet(s) <=> c \in H!CallIds /\ Interrupts(rows, i, c)
  <2>1. \A c : c \in L!ToSet(s) <=> Interrupts(rows, i, c) BY <1>4, InterruptedFacts
  <2>2. L!ToSet(s) \subseteq H!CallIds BY DEF L!ToSet
  <2> QED BY <2>1, <2>2
<1>12. ASSUME NEW x \in H!Messages, NEW y \in L!ToSet(b) PROVE <<x, y>> \in Unmentioned
  <2>1. PICK j \in 1 .. Len(s) : y = b[j] BY <1>9 DEF L!ToSet
  <2>2. y \in H!Messages /\ Makes(y) = {} BY <1>8, <1>9, <2>1
  <2> QED BY <2>2 DEF Unmentioned
<1>13. Pairwise(b, Unmentioned)
  <2>1. \A j \in 1 .. Len(b) : b[j] \in H!Messages /\ b[j] \in L!ToSet(b) BY <1>9 DEF L!ToSet
  <2> QED BY <1>12, <2>1 DEF Pairwise
<1>14. PICK d \in Seq(H!Messages) : d = b BY <1>9
<1>15. PICK e \in Seq(H!Messages) : e = a BY <1>3
<1>16. /\ e \o d \in Seq(H!Messages) /\ L!ToSet(e \o d) = L!ToSet(e) \union L!ToSet(d)
       /\ Pairwise(e, Unmentioned) /\ Pairwise(d, Unmentioned)
          /\ (\A x \in L!ToSet(e), y \in L!ToSet(d) : <<x, y>> \in Unmentioned)
          => Pairwise(e \o d, Unmentioned)
  BY ConcatPairs
<1>17. \A x \in L!ToSet(e) : x \in H!Messages BY <1>1, <1>3, <1>15
<1>18. Pairwise(e \o d, Unmentioned)
  BY <1>3, <1>12, <1>13, <1>14, <1>15, <1>16, <1>17
<1>19. Piece(rows, i) = e \o d BY <1>1, <1>2, <1>4, <1>5, <1>14, <1>15 DEF Piece
<1>20. \A x : x \in L!ToSet(e \o d) <=>
         \/ i # L!RepairPoint(rows) /\ x = m
         \/ \E c \in H!CallIds : Interrupts(rows, i, c) /\ x = Synthesized(c)
  BY <1>3, <1>10, <1>11, <1>14, <1>15, <1>16
<1> QED BY <1>1, <1>16, <1>18, <1>19, <1>20

(* All that a load writes again and adds.                                    *)
SuffixHolds(rows, p, suffix) ==
  \A x : x \in L!ToSet(suffix) <=>
    \E i \in p .. Len(rows) :
      \/ i # p /\ x = rows[i].message
      \/ \E c \in H!CallIds : Interrupts(rows, i, c) /\ x = Synthesized(c)

(* That, and none of its calls is made twice.                                *)
LEMMA SuffixFacts ==
  ASSUME NEW N, NEW rows \in Seq(Row(N)), L!RepairNeeded(rows), CallsAreNew(L!MessagesOf(rows))
  PROVE  /\ L!RepairPoint(rows) \in 1 .. Len(rows)
         /\ \E c : Interrupts(rows, L!RepairPoint(rows), c)
         /\ L!RepairSuffix(rows) \in Seq(H!Messages) /\ L!RepairSuffix(rows) # << >>
         /\ SuffixHolds(rows, L!RepairPoint(rows), L!RepairSuffix(rows))
         /\ CallsAreNew(L!RepairSuffix(rows))
<1>1. PICK p : p = L!RepairPoint(rows) OBVIOUS
<1>2. p \in 1 .. Len(rows) /\ L!InterruptedAt(rows, p) # << >>
  <2> DEFINE U == {i \in DOMAIN rows : L!InterruptedAt(rows, i) # << >>}
  <2>1. U # {} BY DEF L!RepairNeeded
  <2>2. U \subseteq Nat OBVIOUS
  <2>3. p = L!Min(U) BY <1>1 DEF L!RepairPoint
  <2>4. \A i \in U : i \in 1 .. Len(rows) /\ L!InterruptedAt(rows, i) # << >> OBVIOUS
  <2> HIDE DEF U
  <2>5. p \in U BY <2>1, <2>2, <2>3, LeastOf
  <2> QED BY <2>4, <2>5
<1>3. PICK c0 : Interrupts(rows, p, c0)
  <2>1. PICK s \in Seq(H!CallIds) : s = L!InterruptedAt(rows, p) BY <1>2, InterruptedFacts
  <2>2. 1 \in DOMAIN s BY <1>2, <2>1
  <2>3. s[1] \in L!ToSet(s) BY <2>2 DEF L!ToSet
  <2> QED BY <1>2, <2>1, <2>3, InterruptedFacts
<1>4. c0 \in H!CallIds BY <1>2, <1>3, CallsTyped DEF Interrupts
<1>5. PICK n : n = Len(rows) - p + 1 OBVIOUS
<1>6. n \in Nat /\ \A k \in 1 .. n : p + k - 1 \in 1 .. Len(rows) BY <1>2, <1>5
<1>7. PICK seqs : seqs = [k \in 1 .. n |-> Piece(rows, p + k - 1)] OBVIOUS
<1>8. \A k \in 1 .. n : seqs[k] = Piece(rows, p + k - 1) /\ seqs[k] \in Seq(H!Messages)
  BY <1>6, <1>7, PieceFacts
<1>9. seqs \in Seq(Seq(H!Messages)) /\ Len(seqs) = n BY <1>6, <1>7, <1>8
<1>10. L!RepairSuffix(rows) = L!FlattenSeq(seqs)
  BY <1>1, <1>5, <1>7 DEF L!RepairSuffix, Piece
<1>11. PICK suffix : suffix = L!FlattenSeq(seqs) OBVIOUS
<1>12. /\ suffix \in Seq(H!Messages)
       /\ \A x : x \in L!ToSet(suffix) <=> \E k \in 1 .. Len(seqs) : x \in L!ToSet(seqs[k])
  BY <1>9, <1>11, FlattenElements
<1>13. \A i \in p .. Len(rows) : i \in 1 .. Len(rows) /\ i - p + 1 \in 1 .. n /\ p + (i - p + 1) - 1 = i
  BY <1>2, <1>5
<1>14. ASSUME NEW x
       PROVE  x \in L!ToSet(suffix) <=> \E i \in p .. Len(rows) : x \in L!ToSet(Piece(rows, i))
  <2>1. ASSUME x \in L!ToSet(suffix) PROVE \E i \in p .. Len(rows) : x \in L!ToSet(Piece(rows, i))
    <3>1. PICK k \in 1 .. n : x \in L!ToSet(seqs[k]) BY <1>9, <1>12, <2>1
    <3>2. p + k - 1 \in p .. Len(rows) BY <1>2, <1>6
    <3> QED BY <1>8, <3>1, <3>2
  <2>2. ASSUME NEW i \in p .. Len(rows), x \in L!ToSet(Piece(rows, i)) PROVE x \in L!ToSet(suffix)
    <3>1. PICK k \in 1 .. n : p + k - 1 = i BY <1>13
    <3>2. seqs[k] = Piece(rows, i) BY <1>8, <3>1
    <3> QED BY <1>9, <1>12, <2>2, <3>2
  <2> QED BY <2>1, <2>2
<1>15. SuffixHolds(rows, p, suffix)
  <2>1. \A i \in p .. Len(rows) : \A x : x \in L!ToSet(Piece(rows, i)) <=>
              \/ i # p /\ x = rows[i].message
              \/ \E c \in H!CallIds : Interrupts(rows, i, c) /\ x = Synthesized(c)
    BY <1>1, <1>13, PieceFacts
  <2> QED BY <1>14, <2>1 DEF SuffixHolds
<1>16. suffix # << >>
  <2>1. p \in p .. Len(rows) BY <1>2
  <2>2. Synthesized(c0) \in L!ToSet(suffix) BY <1>3, <1>4, <1>15, <2>1 DEF SuffixHolds
  <2>3. L!ToSet(<< >>) = {} BY DEF L!ToSet
  <2> QED BY <2>2, <2>3
<1>17. ASSUME NEW i \in 1 .. Len(rows), NEW k \in 1 .. Len(rows), i < k,
              NEW x \in L!ToSet(Piece(rows, i)), NEW y \in L!ToSet(Piece(rows, k))
       PROVE  <<x, y>> \in Unmentioned
  <2>1. PICK a \in H!Messages : a = rows[i].message BY CallsTyped
  <2>2. PICK b \in H!Messages : b = rows[k].message BY CallsTyped
  <2>3. <<a, b>> \in Unmentioned
    <3>1. /\ Len(L!MessagesOf(rows)) = Len(rows)
          /\ \A j \in 1 .. Len(rows) : L!MessagesOf(rows)[j] = rows[j].message
      BY MessagesFacts
    <3> QED BY <1>17, <2>1, <2>2, <3>1 DEF CallsAreNew, Pairwise
  <2>4. x \in H!Messages /\ Mentions(x) \subseteq Mentions(a)
    <3>1. CASE x = a BY <3>1
    <3>2. CASE \E c \in H!CallIds : Interrupts(rows, i, c) /\ x = Synthesized(c)
      <4>1. PICK c \in H!CallIds : Interrupts(rows, i, c) /\ x = Synthesized(c) BY <3>2
      <4>2. c \in Makes(a) BY <2>1, <4>1, CallsTyped DEF Interrupts
      <4>3. Mentions(x) = {c} /\ x \in H!Messages BY <4>1, SynthesizedFacts
      <4> QED BY <4>2, <4>3 DEF Mentions
    <3> QED BY <2>1, <3>1, <3>2, PieceFacts
  <2>5. y \in H!Messages /\ (y = b \/ Makes(y) = {})
    <3>1. CASE y = b BY <3>1
    <3>2. CASE \E c \in H!CallIds : Interrupts(rows, k, c) /\ y = Synthesized(c)
      BY <3>2, SynthesizedFacts
    <3> QED BY <2>2, <3>1, <3>2, PieceFacts
  <2> QED BY <2>3, <2>4, <2>5 DEF Unmentioned
<1>18. CallsAreNew(suffix)
  <2>1. \A k \in 1 .. Len(seqs) : Pairwise(seqs[k], Unmentioned)
    BY <1>6, <1>8, <1>9, PieceFacts
  <2>2. ASSUME NEW i \in 1 .. Len(seqs), NEW k \in 1 .. Len(seqs), i < k,
               NEW x \in L!ToSet(seqs[i]), NEW y \in L!ToSet(seqs[k])
        PROVE  <<x, y>> \in Unmentioned
    <3>0. i \in 1 .. n /\ k \in 1 .. n BY <1>9
    <3>1. p + i - 1 \in 1 .. Len(rows) /\ seqs[i] = Piece(rows, p + i - 1) BY <1>6, <1>8, <3>0
    <3>2. p + k - 1 \in 1 .. Len(rows) /\ seqs[k] = Piece(rows, p + k - 1) BY <1>6, <1>8, <3>0
    <3>3. p + i - 1 < p + k - 1 BY <1>2, <2>2
    <3> QED BY <1>17, <2>2, <3>1, <3>2, <3>3
  <2>3. Pairwise(L!FlattenSeq(seqs), Unmentioned) BY <1>9, <2>1, <2>2, FlattenPairs
  <2> QED BY <1>11, <2>3 DEF CallsAreNew
<1> QED BY <1>1, <1>2, <1>3, <1>10, <1>11, <1>12, <1>15, <1>16, <1>18

(* The entries a repair writes: the messages in one chain below the last good *)
(* row, and a leaf at its end.                                                *)
LEMMA RepairWritten ==
  ASSUME NEW entries, Tree(entries), NEW leaf \in 0 .. Len(entries), CallsAreNewIn(entries),
         NEW rows, rows = L!Rows(entries, leaf), L!RepairNeeded(rows),
         NEW u, u = L!RepairSuffix(rows), NEW q, q = rows[L!RepairPoint(rows)].id,
         NEW pos, pos = [m \in 1 .. Len(u) |-> Len(entries) + m],
         NEW w, w = L!Repair(entries, leaf)
  PROVE  /\ Linked(entries, w, q, u, pos) /\ q \in 1 .. Len(entries)
         /\ Len(u) \in Nat \ {0} /\ pos[Len(u)] = Len(entries) + Len(u)
         /\ L!ActiveLeaf(w) = pos[Len(u)]
<1>1. PICK n \in Nat : n = Len(entries) BY DEF Tree
<1>2. rows \in Seq(Row(n)) BY <1>1, RowsFacts
<1>3. CallsAreNew(L!MessagesOf(rows)) BY RowsAreNew
<1>4. /\ L!RepairPoint(rows) \in 1 .. Len(rows)
      /\ u \in Seq(H!Messages) /\ u # << >>
  BY <1>2, <1>3, SuffixFacts
<1>5. PICK k \in Nat \ {0} : k = Len(u) BY <1>4
<1>6. q \in 1 .. n
  <2>1. rows[L!RepairPoint(rows)] \in Row(n) BY <1>2, <1>4
  <2> QED BY <2>1 DEF Row
<1>7. Tree(w) /\ Keeps(entries, w) BY RepairKeepsLog DEF Keeps
<1> DEFINE entry(j) == L!MessageEntry(IF j = 1 THEN q ELSE n + j - 1, u[j])
<1>8. PICK a : a = [j \in 1 .. k |-> entry(j)] OBVIOUS
<1>9. PICK z : z = L!LeafEntry(n + k) OBVIOUS
<1>10. w = (entries \o a) \o <<z>>
  <2>1. DOMAIN u = 1 .. k BY <1>4, <1>5
  <2> QED BY <1>1, <1>5, <1>8, <1>9, <2>1 DEF L!Repair
<1> HIDE DEF entry
<1>11. \A j \in 1 .. k : entry(j) \in Entry
  <2> TAKE j \in 1 .. k
  <2>1. u[j] \in H!Messages BY <1>4, <1>5
  <2>2. PICK x : x = IF j = 1 THEN q ELSE n + j - 1 OBVIOUS
  <2>3. entry(j) = L!MessageEntry(x, u[j]) /\ x \in Nat BY <1>6, <2>2 DEF entry
  <2> QED BY <2>1, <2>3 DEF L!MessageEntry, Entry
<1>12. a \in Seq(Entry) /\ Len(a) = k /\ \A j \in 1 .. k : a[j] = entry(j) BY <1>8, <1>11
<1>13. z \in Entry /\ z.type = "leaf" /\ z.target = n + k BY <1>9 DEF L!LeafEntry, Entry
<1>14. entries \in Seq(Entry) BY DEF Tree
<1>15. PICK b : b = entries \o a OBVIOUS
<1>16. b \in Seq(Entry) /\ Len(b) = n + k
       /\ \A i \in 1 .. n + k : b[i] = IF i <= n THEN entries[i] ELSE a[i - n]
  BY <1>1, <1>12, <1>14, <1>15, ConcatProperties
<1>17. w = Append(b, z)
  <2>1. w = b \o <<z>> BY <1>10, <1>15
  <2> QED BY <1>13, <1>16, <2>1
<1>18. Len(w) = n + k + 1 /\ w[n + k + 1] = z /\ \A i \in 1 .. n + k : w[i] = b[i]
  <2>1. PICK y \in Entry : y = z BY <1>13
  <2>2. PICK d \in Seq(Entry) : d = b BY <1>16
  <2>3. PICK v : v = Append(d, y) OBVIOUS
  <2>4. Len(d) = n + k /\ n + k \in Nat BY <1>16, <2>2
  <2>5. Len(v) = n + k + 1 /\ v[n + k + 1] = y /\ \A i \in 1 .. n + k : v[i] = d[i]
    BY <2>3, <2>4
  <2> QED BY <1>17, <2>1, <2>2, <2>3, <2>5
<1>19. \A j \in 1 .. k : pos[j] = n + j /\ n + j \in 1 .. n + k BY <1>1, <1>5
<1>20. \A j \in 1 .. k : w[n + j] = entry(j)
  <2> TAKE j \in 1 .. k
  <2>1. n + j \in 1 .. n + k /\ ~(n + j <= n) /\ (n + j) - n = j BY <1>19
  <2> QED BY <1>12, <1>16, <1>18, <2>1
<1>21. \A j \in 1 .. k : w[pos[j]] = L!MessageEntry(IF j = 1 THEN q ELSE pos[j - 1], u[j])
  <2> TAKE j \in 1 .. k
  <2>1. w[pos[j]] = entry(j) BY <1>19, <1>20
  <2>2. CASE j = 1 BY <2>1, <2>2 DEF entry
  <2>3. CASE j # 1
    <3>1. j - 1 \in 1 .. k /\ n + (j - 1) = n + j - 1 BY <1>5, <2>3
    <3>2. pos[j - 1] = n + j - 1 BY <1>19, <3>1
    <3> QED BY <2>1, <2>3, <3>2 DEF entry
  <2> QED BY <2>2, <2>3
<1>22. \A i \in 1 .. Len(w) : i > n /\ w[i].type = "message" => \E m \in 1 .. k : i = pos[m]
  <2> TAKE i \in 1 .. Len(w)
  <2> HAVE i > n /\ w[i].type = "message"
  <2>1. i # n + k + 1 BY <1>13, <1>18
  <2>2. i - n \in 1 .. k /\ n + (i - n) = i BY <1>18, <2>1
  <2> QED BY <1>19, <2>2
<1>23. pos \in [1 .. k -> 1 .. Len(w)]
  <2>1. \A j \in 1 .. k : n + j \in 1 .. Len(w) BY <1>18
  <2> QED BY <1>1, <1>5, <2>1
<1>24. Linked(entries, w, q, u, pos)
  <2>1. q \in 0 .. Len(entries) BY <1>1, <1>6
  <2> QED BY <1>1, <1>4, <1>5, <1>7, <1>21, <1>22, <1>23, <2>1 DEF Linked
<1>25. L!ActiveLeaf(w) = n + k
  <2>1. Len(w) > 0 /\ w[Len(w)] = z BY <1>18
  <2> QED BY <1>7, <1>13, <2>1, LastLeaf
<1>26. pos[k] = n + k BY <1>5, <1>19
<1> QED BY <1>1, <1>5, <1>6, <1>24, <1>25, <1>26

(* The row a repair begins at is a message, and stands above those behind it. *)
LEMMA RepairStart ==
  ASSUME NEW entries, Tree(entries), NEW leaf \in 0 .. Len(entries),
         NEW rows, rows = L!Rows(entries, leaf),
         NEW p \in 1 .. Len(rows), NEW c, Interrupts(rows, p, c)
  PROVE  /\ rows[p].id \in MessageEntries(entries)
         /\ \A i \in 1 .. Len(rows) : i > p =>
              \/ rows[i].message = SummaryMessage
              \/ /\ rows[i].id \in MessageEntries(entries)
                 /\ rows[i].message = entries[rows[i].id].message
                 /\ rows[p].id \in L!Path(entries, entries[rows[i].id].parent)
<1>1. rows \in Seq(Row(Len(entries))) BY RowsFacts
<1>2. /\ \A r \in L!ToSet(rows) : RowTold(entries, leaf, r)
      /\ Pairwise(rows, Replays(entries))
  BY RowsInOrder
<1>3. \A i \in 1 .. Len(rows) : rows[i] \in Row(Len(entries)) /\ RowTold(entries, leaf, rows[i])
  <2>1. \A i \in 1 .. Len(rows) : rows[i] \in L!ToSet(rows) BY <1>1 DEF L!ToSet
  <2> QED BY <1>1, <1>2, <2>1
<1>4. rows[p].id \in MessageEntries(entries)
  <2>1. c \in Makes(rows[p].message) BY <1>1, CallsTyped DEF Interrupts
  <2>2. rows[p].message # SummaryMessage BY <2>1, SummaryMentionsNone
  <2>3. RowTold(entries, leaf, rows[p]) BY <1>3
  <2> QED BY <2>2, <2>3 DEF RowTold
<1>5. ASSUME NEW i \in 1 .. Len(rows), i > p, rows[i].message # SummaryMessage
      PROVE  /\ rows[i].id \in MessageEntries(entries)
             /\ rows[i].message = entries[rows[i].id].message
             /\ rows[p].id \in L!Path(entries, entries[rows[i].id].parent)
  <2>1. RowTold(entries, leaf, rows[i]) BY <1>3
  <2>2. rows[i].id \in MessageEntries(entries) /\ rows[i].message = entries[rows[i].id].message
    BY <1>5, <2>1 DEF RowTold
  <2>3. <<rows[p], rows[i]>> \in Replays(entries) BY <1>1, <1>2, <1>5 DEF Pairwise
  <2>4. PICK r : r = rows[p] OBVIOUS
  <2>5. PICK s : s = rows[i] OBVIOUS
  <2>6. r.id \in L!Path(entries, entries[s.id].parent)
    <3>1. <<r, s>> \in Replays(entries) /\ r.id \in MessageEntries(entries)
          /\ s.id \in MessageEntries(entries)
      BY <1>4, <2>2, <2>3, <2>4, <2>5
    <3> QED BY <3>1 DEF Replays
  <2> QED BY <2>2, <2>4, <2>5, <2>6
<1> QED BY <1>4, <1>5

(* What is replayed names no call that was not issued.                       *)
LEMMA RowsKnown ==
  ASSUME NEW entries, Tree(entries), NEW leaf \in 0 .. Len(entries),
         NEW rows, rows = L!Rows(entries, leaf), NEW n, KnownIn(entries, n)
  PROVE  \A i \in 1 .. Len(rows) : Mentions(rows[i].message) \subseteq 1 .. n
<1> TAKE i \in 1 .. Len(rows)
<1>1. rows \in Seq(Row(Len(entries))) BY RowsFacts
<1>2. \A r \in L!ToSet(rows) : RowTold(entries, leaf, r) BY RowsInOrder
<1>3. RowTold(entries, leaf, rows[i]) BY <1>1, <1>2 DEF L!ToSet
<1>4. CASE rows[i].id \in MessageEntries(entries) BY <1>3, <1>4 DEF RowTold, KnownIn
<1>5. CASE rows[i].id \notin MessageEntries(entries)
  BY <1>3, <1>5, SummaryMentionsNone DEF RowTold
<1> QED BY <1>4, <1>5

(* So a repair makes no call anew, and names none that was not issued.        *)
LEMMA RepairIsNew ==
  ASSUME NEW entries, Tree(entries), NEW leaf \in 0 .. Len(entries), CallsAreNewIn(entries),
         NEW w, w = L!Repair(entries, leaf)
  PROVE  CallsAreNewIn(w) /\ \A n : KnownIn(entries, n) => KnownIn(w, n)
<1>1. PICK rows : rows = L!Rows(entries, leaf) OBVIOUS
<1>2. CASE ~L!RepairNeeded(rows)
  <2>1. w = entries BY <1>1, <1>2 DEF L!Repair
  <2> QED BY <2>1
<1>3. CASE L!RepairNeeded(rows)
  <2>1. PICK u : u = L!RepairSuffix(rows) OBVIOUS
  <2>2. PICK p : p = L!RepairPoint(rows) OBVIOUS
  <2>3. PICK q : q = rows[L!RepairPoint(rows)].id OBVIOUS
  <2>4. PICK pos : pos = [m \in 1 .. Len(u) |-> Len(entries) + m] OBVIOUS
  <2>5. Linked(entries, w, q, u, pos) BY <1>1, <1>3, <2>1, <2>3, <2>4, RepairWritten
  <2>6. rows \in Seq(Row(Len(entries))) BY <1>1, RowsFacts
  <2>7. CallsAreNew(L!MessagesOf(rows)) BY <1>1, RowsAreNew
  <2>8. /\ p \in 1 .. Len(rows) /\ \E c : Interrupts(rows, p, c)
        /\ u \in Seq(H!Messages) /\ SuffixHolds(rows, p, u) /\ CallsAreNew(u)
    BY <1>3, <2>1, <2>2, <2>6, <2>7, SuffixFacts
  <2>9. PICK c0 : Interrupts(rows, p, c0) BY <2>8
  <2>10. \A i \in 1 .. Len(rows) : i > p =>
              \/ rows[i].message = SummaryMessage
              \/ /\ rows[i].id \in MessageEntries(entries)
                 /\ rows[i].message = entries[rows[i].id].message
                 /\ rows[p].id \in L!Path(entries, entries[rows[i].id].parent)
    BY <1>1, <2>8, <2>9, RepairStart
  <2>11. ASSUME NEW m \in 1 .. Len(u)
         PROVE  \/ \E i \in 1 .. Len(rows) : i > p /\ u[m] = rows[i].message
                \/ \E i \in 1 .. Len(rows) : \E c \in H!CallIds :
                     Interrupts(rows, i, c) /\ u[m] = Synthesized(c)
    <3>1. u[m] \in L!ToSet(u) BY <2>8 DEF L!ToSet
    <3>2. PICK i \in p .. Len(rows) :
            \/ i # p /\ u[m] = rows[i].message
            \/ \E c \in H!CallIds : Interrupts(rows, i, c) /\ u[m] = Synthesized(c)
      BY <2>8, <3>1 DEF SuffixHolds
    <3>3. i \in 1 .. Len(rows) /\ (i # p => i > p) BY <2>8
    <3> QED BY <3>2, <3>3
  <2>12. ASSUME NEW m \in 1 .. Len(u), NEW x \in MessageEntries(entries) \intersect L!Path(entries, q)
         PROVE  Makes(u[m]) \intersect Mentions(entries[x].message) = {}
    <3>1. CASE \E i \in 1 .. Len(rows) : i > p /\ u[m] = rows[i].message
      <4>1. PICK i \in 1 .. Len(rows) : i > p /\ u[m] = rows[i].message BY <3>1
      <4>2. CASE rows[i].message = SummaryMessage BY <4>1, <4>2, SummaryMentionsNone
      <4>3. CASE rows[i].message # SummaryMessage
        <5>1. PICK s : s = rows[i].id OBVIOUS
        <5>2. /\ s \in MessageEntries(entries) /\ u[m] = entries[s].message
              /\ q \in L!Path(entries, entries[s].parent)
          BY <2>2, <2>3, <2>10, <4>1, <4>3, <5>1
        <5>3. entries[s].parent \in 0 .. Len(entries)
          <6>1. s \in 1 .. Len(entries) /\ Len(entries) \in Nat BY <5>2 DEF MessageEntries, Tree
          <6>2. entries[s].parent \in 0 .. s - 1 BY <6>1 DEF Tree
          <6> QED BY <6>1, <6>2
        <5>4. L!Path(entries, q) \subseteq L!Path(entries, entries[s].parent)
          BY <5>2, <5>3, PathAbove
        <5> QED BY <5>2, <5>4 DEF CallsAreNewIn
      <4> QED BY <4>2, <4>3
    <3>2. CASE \E i \in 1 .. Len(rows) : \E c \in H!CallIds :
                 Interrupts(rows, i, c) /\ u[m] = Synthesized(c)
      BY <3>2, SynthesizedFacts
    <3> QED BY <2>11, <3>1, <3>2
  <2>13. CallsAreNewIn(w)
    <3>1. \A m \in 1 .. Len(u) : \A x \in MessageEntries(entries) \intersect L!Path(entries, q) :
            Makes(u[m]) \intersect Mentions(entries[x].message) = {}
      BY <2>12
    <3>2. CallsAreNew(u) BY <2>8
    <3> HIDE DEF CallsAreNew, CallsAreNewIn
    <3> QED BY <2>5, <3>1, <3>2, WrittenAreNew
  <2>14. ASSUME NEW n, KnownIn(entries, n) PROVE KnownIn(w, n)
    <3>1. \A i \in 1 .. Len(rows) : Mentions(rows[i].message) \subseteq 1 .. n
      BY <1>1, <2>14, RowsKnown
    <3>2. ASSUME NEW m \in 1 .. Len(u) PROVE Mentions(u[m]) \subseteq 1 .. n
      <4>1. CASE \E i \in 1 .. Len(rows) : i > p /\ u[m] = rows[i].message BY <3>1, <4>1
      <4>2. CASE \E i \in 1 .. Len(rows) : \E c \in H!CallIds :
                   Interrupts(rows, i, c) /\ u[m] = Synthesized(c)
        <5>1. PICK i \in 1 .. Len(rows) : \E c \in H!CallIds :
                Interrupts(rows, i, c) /\ u[m] = Synthesized(c)
          BY <4>2
        <5>2. PICK c \in H!CallIds : Interrupts(rows, i, c) /\ u[m] = Synthesized(c) BY <5>1
        <5>3. c \in Makes(rows[i].message) BY <2>6, <5>2, CallsTyped DEF Interrupts
        <5>4. c \in Mentions(rows[i].message) BY <5>3 DEF Mentions
        <5>5. Mentions(u[m]) = {c} BY <5>2, SynthesizedFacts
        <5> QED BY <3>1, <5>4, <5>5
      <4> QED BY <2>11, <4>1, <4>2
    <3>3. ASSUME NEW x \in MessageEntries(w) PROVE Mentions(w[x].message) \subseteq 1 .. n
      <4>1. CASE x \in 1 .. Len(entries)
        <5>1. w[x] = entries[x] BY <2>5, <4>1 DEF Linked, Keeps
        <5> QED BY <2>14, <3>3, <4>1, <5>1 DEF KnownIn, MessageEntries
      <4>2. CASE x \notin 1 .. Len(entries)
        <5>1. x \in 1 .. Len(w) /\ x > Len(entries) /\ w[x].type = "message"
          BY <2>5, <3>3, <4>2 DEF MessageEntries, Linked, Tree
        <5>2. PICK m \in 1 .. Len(u) : x = pos[m] BY <2>5, <5>1 DEF Linked
        <5>3. w[x].message = u[m] BY <2>5, <5>2, LinkedPath
        <5> QED BY <3>2, <5>3
      <4> QED BY <4>1, <4>2
    <3> QED BY <3>3 DEF KnownIn
  <2> QED BY <2>13, <2>14
<1> QED BY <1>2, <1>3

(* A load.                                                                    *)
LEMMA LoadStill ==
  ASSUME CInv, TInv', Load
  PROVE  CInv'
<1>1. PICK entries : entries = log OBVIOUS
<1>2. PICK w : w = log' OBVIOUS
<1>3. PICK n : n = issued OBVIOUS
<1>4. IInv /\ Tree(entries) /\ CallsAreNewIn(entries) /\ KnownIn(entries, n)
  BY <1>1, <1>3, CallsHaveIds
<1>5. messages' = Replayed(log', lastParent') /\ call' = "idle" /\ Keeps(log, log')
  BY <1>4, LoadKeeps
<1>6. PICK leaf \in 0 .. Len(entries) : leaf = L!ActiveLeaf(entries) BY <1>4, LeafThere
<1>7. w = L!Repair(entries, leaf) BY <1>1, <1>2, <1>6 DEF Load
<1>8. CallsAreNewIn(w) /\ KnownIn(w, n) BY <1>4, <1>6, <1>7, RepairIsNew
<1>9. log' # << >>
  <2>1. call = "down" BY DEF Load
  <2>2. log # << >> BY <1>4, <2>1 DEF IInv
  <2>3. Len(entries) # 0 /\ Len(entries) \in Nat BY <1>1, <1>4, <2>2 DEF Tree
  <2>4. Len(w) # 0 BY <1>1, <1>2, <1>5, <2>3 DEF Keeps
  <2> QED BY <1>2, <2>4
<1>10. UNCHANGED <<todo, reply, issued>> /\ call' \notin Runs BY <1>5 DEF Load, Runs
<1> QED BY <1>2, <1>3, <1>5, <1>8, <1>9, <1>10, ReplayedStill

(* A process that dies while it repairs.                                     *)
LEMMA DieLoadingStill ==
  ASSUME CInv, TInv', DieLoading
  PROVE  CInv'
<1>1. PICK entries : entries = log OBVIOUS
<1>2. PICK v : v = log' OBVIOUS
<1>3. IInv /\ Tree(entries) /\ CallsAreNewIn(entries) /\ KnownIn(entries, issued)
      /\ messages \in Seq(H!Messages)
  BY <1>1, CallsHaveIds
<1>4. PICK w : w = L!Repair(entries, L!ActiveLeaf(entries)) OBVIOUS
<1>5. PICK n \in Len(entries) + 1 .. Len(w) : v = SubSeq(w, 1, n)
  BY <1>1, <1>2, <1>4 DEF DieLoading
<1>6. call = "down" /\ call' = "down" /\ UNCHANGED <<messages, todo, reply, issued, pc>>
  BY DEF DieLoading, harnessVars
<1>7. PICK leaf \in 0 .. Len(entries) : leaf = L!ActiveLeaf(entries) BY <1>3, LeafThere
<1>8. CallsAreNewIn(w) /\ KnownIn(w, issued) BY <1>3, <1>4, <1>7, RepairIsNew
<1>9. Tree(w) BY <1>3, <1>4, <1>7, RepairKeepsLog
<1>10. n \in 0 .. Len(w) /\ Len(w) \in Nat
  <2>1. Len(entries) \in Nat /\ Len(w) \in Nat BY <1>3, <1>9 DEF Tree
  <2> QED BY <1>5, <2>1
<1>11. Tree(v) /\ Len(v) = n BY <1>5, <1>9, <1>10, PrefixTree
<1>12. Keeps(v, w)
  <2>1. w \in Seq(Entry) BY <1>9 DEF Tree
  <2>2. \A i \in 1 .. n : w[i] = v[i] BY <1>5, <1>10, <2>1
  <2> QED BY <1>10, <1>11, <2>2 DEF Keeps
<1>13. CallsAreNewIn(v) /\ KnownIn(v, issued) BY <1>8, <1>9, <1>11, <1>12, CutIsNew
<1>14. Written = Len(messages) /\ Written' = Len(messages') BY <1>6 DEF Written, Runs
<1>15. Fresh(messages, v, issued, Len(messages))
  <2>1. Known(messages, issued) /\ CallsAreNew(messages) BY DEF CInv, Fresh
  <2> QED BY <1>3, <1>13, <2>1, FreshAll
<1>16. Fresh(messages', log', issued', Written') BY <1>2, <1>6, <1>14, <1>15
<1>17. pc' = "idle" BY <1>6 DEF TInv, Runs
<1> QED BY <1>6, <1>16, <1>17 DEF CInv, Coming

(* Every step keeps the invariant.                                           *)
LEMMA CallsStep ==
  ASSUME FreshCallIds
  PROVE  CInv /\ [Next]_vars => CInv'
<1> SUFFICES ASSUME CInv, [Next]_vars PROVE CInv'
  OBVIOUS
<1>0. TInv' BY StepTypes DEF CInv
<1>1. CASE RunStep BY <1>0, <1>1, RunStill
<1>2. CASE \/ SendPrompt \/ SendContinue \/ RetryRun \/ Abandon \/ Queue \/ Cancel
           \/ OverflowCompaction \/ StartPreCompaction \/ StartManualCompaction
           \/ AbandonCompaction \/ StartBranchSummary \/ CompactionFails \/ UNCHANGED vars
  BY <1>0, <1>2, UnwrittenStill
<1>3. CASE HandleMessageEnd \/ FinishRun BY <1>0, <1>3, WriterStill
<1>4. CASE TerminalCommand BY <1>0, <1>4, TerminalStill
<1>5. CASE AppendCustomEntry BY <1>0, <1>5, CustomStill
<1>6. CASE Compact BY <1>0, <1>6, CompactStill
<1>7. CASE BranchToEntry \/ BranchSummarized BY <1>0, <1>7, BranchStill
<1>8. CASE Die BY <1>0, <1>8, DieStill
<1>9. CASE Load BY <1>0, <1>9, LoadStill
<1>10. CASE DieLoading BY <1>0, <1>10, DieLoadingStill
<1> QED
  BY <1>1, <1>2, <1>3, <1>4, <1>5, <1>6, <1>7, <1>8, <1>9, <1>10
     DEF Next, Progress, Teardown, User, Restart

LEMMA CallsInit == Init => CInv
<1> SUFFICES ASSUME Init PROVE CInv
  OBVIOUS
<1>1. /\ messages = << >> /\ log = << >> /\ call = "idle" /\ pc = "idle" /\ todo = << >>
      /\ reply = H!ErrorMessage /\ due = FALSE /\ plan = {}
  BY DEF Init, H!Init
<1>2. TInv BY <1>1, InitInvariant DEF TInv, Calls, Runs, Compactions
<1>3. << >> \in Seq(H!Messages) /\ Len(<< >>) = 0 OBVIOUS
<1>4. Known(<< >>, issued) /\ CallsAreNew(<< >>) BY DEF Known, CallsAreNew, Pairwise
<1>5. CallsAreNewIn(<< >>) /\ KnownIn(<< >>, issued)
  BY <1>3 DEF CallsAreNewIn, KnownIn, MessageEntries
<1>6. Fresh(<< >>, << >>, issued, Len(<< >>)) BY <1>3, <1>4, <1>5, FreshAll
<1>7. Fresh(messages, log, issued, Written) BY <1>1, <1>6 DEF Written, Runs
<1>8. H!Elements(todo) = {} /\ Makes(reply) = {} BY <1>1, UserQuiet DEF H!Elements
<1> QED BY <1>1, <1>2, <1>7, <1>8 DEF CInv, Coming

LEMMA CallsStayNew ==
  ASSUME FreshCallIds
  PROVE  Spec => []CInv
BY CallsInit, CallsStep, PTL DEF Spec

-----------------------------------------------------------------------------
(* What a load replays.  A call nobody answered interrupts at its first row,  *)
(* and no row before the point of repair interrupts.                          *)
LEMMA FirstCall ==
  ASSUME NEW N, NEW rows \in Seq(Row(N)), NEW i \in 1 .. Len(rows),
         NEW c \in Makes(rows[i].message), ~L!HasResult(rows, c)
  PROVE  \E j \in 1 .. Len(rows) : Interrupts(rows, j, c)
<1> DEFINE T == {j \in 1 .. Len(rows) : L!IsCall(rows, j, c)}
<1>1. i \in T BY CallsTyped
<1>2. T \subseteq Nat OBVIOUS
<1>3. \A j : j \in T <=> j \in 1 .. Len(rows) /\ L!IsCall(rows, j, c) OBVIOUS
<1> HIDE DEF T
<1>4. PICK j \in T : \A k \in T : j <= k BY <1>1, <1>2, LeastOne
<1>5. j \in 1 .. Len(rows) /\ L!IsCall(rows, j, c) BY <1>3
<1>6. \A k \in 1 .. j - 1 : ~L!IsCall(rows, k, c)
  <2> TAKE k \in 1 .. j - 1
  <2>1. k \in 1 .. Len(rows) /\ ~(j <= k) BY <1>5
  <2> QED BY <1>3, <1>4, <2>1
<1> QED BY <1>5, <1>6 DEF Interrupts

LEMMA NeedsRepair ==
  ASSUME NEW N, NEW rows \in Seq(Row(N)), NEW j \in 1 .. Len(rows), NEW c, Interrupts(rows, j, c)
  PROVE  L!RepairNeeded(rows) /\ L!RepairPoint(rows) <= j
<1>1. L!InterruptedAt(rows, j) # << >>
  <2>1. c \in L!ToSet(L!InterruptedAt(rows, j)) BY InterruptedFacts
  <2>2. L!ToSet(<< >>) = {} BY DEF L!ToSet
  <2> QED BY <2>1, <2>2
<1> DEFINE U == {i \in DOMAIN rows : L!InterruptedAt(rows, i) # << >>}
<1>2. j \in U BY <1>1
<1>3. U \subseteq Nat OBVIOUS
<1>4. L!RepairPoint(rows) = L!Min(U) BY DEF L!RepairPoint
<1>5. L!RepairNeeded(rows) BY <1>1 DEF L!RepairNeeded
<1> HIDE DEF U
<1>6. L!Min(U) <= j BY <1>2, <1>3, LeastOf
<1> QED BY <1>4, <1>5, <1>6

(* The rows up to a message's own are those below which it was written, but   *)
(* for a summary, and itself.                                                 *)
LEMMA RowsUpTo ==
  ASSUME NEW entries, Tree(entries), NEW leaf \in 0 .. Len(entries),
         NEW rows, rows = L!Rows(entries, leaf),
         NEW p \in 1 .. Len(rows), rows[p].id \in MessageEntries(entries),
         NEW i \in 1 .. p
  PROVE  \/ rows[i].message = SummaryMessage
         \/ rows[i].message \in MessageSet(L!MessagesOf(L!Rows(entries, rows[p].id)))
<1>1. rows \in Seq(Row(Len(entries))) BY RowsFacts
<1>2. /\ \A r \in L!ToSet(rows) : RowTold(entries, leaf, r)
      /\ Pairwise(rows, Replays(entries))
  BY RowsInOrder
<1>3. i \in 1 .. Len(rows) BY <1>1
<1>4. PICK r : r = rows[i] OBVIOUS
<1>5. PICK s : s = rows[p] OBVIOUS
<1>6. PICK q \in 1 .. Len(entries) : q = s.id BY <1>5 DEF MessageEntries
<1>7. RowTold(entries, leaf, r) /\ RowTold(entries, leaf, s)
  <2>1. r \in L!ToSet(rows) /\ s \in L!ToSet(rows) BY <1>1, <1>3, <1>4, <1>5 DEF L!ToSet
  <2> QED BY <1>2, <2>1
<1>8. entries[q].type = "message" /\ s.message = entries[q].message /\ s \in Row(Len(entries))
  BY <1>5, <1>6, <1>7 DEF RowTold, MessageEntries
<1>9. entries[q].parent \in 0 .. Len(entries)
  <2>1. entries[q].parent \in 0 .. q - 1 /\ Len(entries) \in Nat BY DEF Tree
  <2> QED BY <2>1
<1>10. PICK above \in Seq(Row(Len(entries))) : above = L!Rows(entries, entries[q].parent)
  BY <1>9, RowsFacts
<1>11. PICK z : z = [id |-> q, message |-> entries[q].message] OBVIOUS
<1>12. z = s BY <1>6, <1>8, <1>11 DEF Row
<1>13. PICK all : all = L!Rows(entries, q) OBVIOUS
<1>14. all = Append(above, s)
  <2>1. all = Grown(entries[q], q, above) BY <1>10, <1>13, RowsFacts
  <2> QED BY <1>8, <1>11, <1>12, <2>1 DEF Grown
<1>15. all \in Seq(Row(Len(entries))) /\ L!ToSet(all) = L!ToSet(above) \union {s}
  BY <1>8, <1>14, AppendPairs
<1>16. ASSUME NEW x \in L!ToSet(all) PROVE x.message \in MessageSet(L!MessagesOf(all))
  <2>1. PICK k \in 1 .. Len(all) : x = all[k] BY <1>15 DEF L!ToSet
  <2>2. Len(L!MessagesOf(all)) = Len(all) /\ L!MessagesOf(all)[k] = all[k].message
        /\ L!MessagesOf(all) \in Seq(H!Messages)
    BY <1>15, MessagesFacts
  <2>3. k \in DOMAIN L!MessagesOf(all) BY <2>2
  <2> QED BY <2>1, <2>2, <2>3 DEF MessageSet
<1>17. CASE r.id \notin MessageEntries(entries) BY <1>4, <1>7, <1>17 DEF RowTold
<1>18. CASE i = p
  <2>1. r = s BY <1>4, <1>5, <1>18
  <2> QED BY <1>4, <1>5, <1>6, <1>13, <1>15, <1>16, <2>1
<1>19. CASE r.id \in MessageEntries(entries) /\ i # p
  <2>1. i < p /\ p \in 1 .. Len(rows) BY <1>1, <1>19
  <2>2. <<rows[i], rows[p]>> \in Replays(entries) BY <1>1, <1>2, <1>3, <2>1 DEF Pairwise
  <2>3. <<r, s>> \in Replays(entries) /\ s.id \in MessageEntries(entries)
    BY <1>4, <1>5, <2>2
  <2>4. r \in L!ToSet(L!Rows(entries, entries[s.id].parent)) BY <1>19, <2>3 DEF Replays
  <2>5. r \in L!ToSet(all) BY <1>6, <1>10, <1>15, <2>4
  <2> QED BY <1>4, <1>5, <1>6, <1>13, <1>16, <2>5
<1> QED BY <1>17, <1>18, <1>19

(* An answer stands behind the call it is for.                                *)
LEMMA AnswerIsLater ==
  ASSUME NEW t \in Seq(H!Messages), CallsAreNew(t), NEW i \in 1 .. Len(t), NEW k \in 1 .. Len(t),
         NEW c, H!CallsAt(t, i, c), H!AnswersAt(t, k, c)
  PROVE  k > i
<1>1. t[i].role = "assistant" /\ c \in Makes(t[i]) BY DEF H!CallsAt, Makes
<1>2. t[k].role = "toolResult" /\ c \in Mentions(t[k]) BY DEF H!AnswersAt, Mentions
<1>3. k # i BY <1>1, <1>2
<1>4. ~(k < i)
  <2> SUFFICES ASSUME k < i PROVE FALSE
    OBVIOUS
  <2>1. <<t[k], t[i]>> \in Unmentioned BY DEF CallsAreNew, Pairwise
  <2>2. Makes(t[i]) \intersect Mentions(t[k]) = {} BY <2>1 DEF Unmentioned
  <2> QED BY <1>1, <1>2, <2>2
<1>5. i \in Int /\ k \in Int OBVIOUS
<1> QED BY <1>3, <1>4, <1>5

(* A transcript that holds the rows, and an answer for each call of theirs.   *)
Answers(rows, t) ==
  /\ \A i \in 1 .. Len(rows) :
       rows[i].message = SummaryMessage \/ rows[i].message \in MessageSet(t)
  /\ \A i \in 1 .. Len(rows) : \A c \in Makes(rows[i].message) :
       \E k \in 1 .. Len(t) : H!AnswersAt(t, k, c)

(* A load brings them back, repaired or not.                                 *)
LEMMA LoadAnswers ==
  ASSUME NEW entries, Tree(entries), NEW leaf \in 0 .. Len(entries), CallsAreNewIn(entries),
         NEW rows, rows = L!Rows(entries, leaf),
         NEW w, w = L!Repair(entries, leaf), ~L!RepairNeeded(rows) => L!ActiveLeaf(w) = leaf,
         NEW t, t = L!MessagesOf(L!Rows(w, L!ActiveLeaf(w)))
  PROVE  t \in Seq(H!Messages) /\ CallsAreNew(t) /\ Answers(rows, t)
<1>1. rows \in Seq(Row(Len(entries))) BY RowsFacts
<1>2. Tree(w) BY RepairKeepsLog
<1>3. PICK last \in 0 .. Len(w) : last = L!ActiveLeaf(w) BY <1>2, LeafThere
<1>4. CallsAreNewIn(w) BY RepairIsNew
<1>5. CallsAreNew(t) BY <1>2, <1>3, <1>4, RowsAreNew
<1>6. t \in Seq(H!Messages)
  <2>1. L!Rows(w, last) \in Seq(Row(Len(w))) BY <1>2, RowsFacts
  <2> QED BY <1>3, <2>1, MessagesFacts
<1>7. ASSUME \A i \in 1 .. Len(rows) :
               rows[i].message = SummaryMessage \/ rows[i].message \in MessageSet(t),
             NEW c, L!HasResult(rows, c)
      PROVE  \E k \in 1 .. Len(t) : H!AnswersAt(t, k, c)
  <2>1. PICK i \in 1 .. Len(rows) :
          rows[i].message.role = "toolResult" /\ rows[i].message.call = c
    BY <1>1, <1>7 DEF L!HasResult
  <2>2. rows[i].message # SummaryMessage BY <2>1 DEF SummaryMessage, H!User
  <2>3. PICK k \in DOMAIN t : rows[i].message = t[k] BY <1>7, <2>2 DEF MessageSet
  <2>4. k \in 1 .. Len(t) BY <1>6
  <2> QED BY <2>1, <2>3, <2>4 DEF H!AnswersAt
<1>8. CASE ~L!RepairNeeded(rows)
  <2>1. w = entries /\ t = L!MessagesOf(rows) BY <1>8 DEF L!Repair
  <2>2. Len(t) = Len(rows) /\ \A i \in 1 .. Len(rows) : t[i] = rows[i].message
    BY <1>1, <2>1, MessagesFacts
  <2>3. \A i \in 1 .. Len(rows) : rows[i].message \in MessageSet(t)
    BY <1>1, <1>6, <2>2 DEF MessageSet
  <2>4. ASSUME NEW i \in 1 .. Len(rows), NEW c \in Makes(rows[i].message)
        PROVE  L!HasResult(rows, c)
    BY <1>1, <1>8, FirstCall, NeedsRepair
  <2> QED BY <1>5, <1>6, <1>7, <2>3, <2>4 DEF Answers
<1>9. CASE L!RepairNeeded(rows)
  <2>1. PICK u : u = L!RepairSuffix(rows) OBVIOUS
  <2>2. PICK p : p = L!RepairPoint(rows) OBVIOUS
  <2>3. PICK q : q = rows[L!RepairPoint(rows)].id OBVIOUS
  <2>4. PICK pos : pos = [m \in 1 .. Len(u) |-> Len(entries) + m] OBVIOUS
  <2>5. /\ Linked(entries, w, q, u, pos) /\ q \in 1 .. Len(entries)
        /\ Len(u) \in Nat \ {0} /\ L!ActiveLeaf(w) = pos[Len(u)]
    BY <1>9, <2>1, <2>3, <2>4, RepairWritten
  <2>6. CallsAreNew(L!MessagesOf(rows)) BY RowsAreNew
  <2>7. /\ p \in 1 .. Len(rows) /\ \E c : Interrupts(rows, p, c)
        /\ u \in Seq(H!Messages) /\ SuffixHolds(rows, p, u)
    BY <1>1, <1>9, <2>1, <2>2, <2>6, SuffixFacts
  <2>8. PICK c0 : Interrupts(rows, p, c0) BY <2>7
  <2>9. rows[p].id \in MessageEntries(entries) BY <2>7, <2>8, RepairStart
  <2>10. PICK old \in Seq(H!Messages) : old = L!MessagesOf(L!Rows(entries, q))
    <3>1. q \in 0 .. Len(entries) BY <2>5
    <3>2. L!Rows(entries, q) \in Seq(Row(Len(entries))) BY <3>1, RowsFacts
    <3> QED BY <3>2, MessagesFacts
  <2>11. t = old \o u
    <3>1. PICK m \in 1 .. Len(u) : m = Len(u) BY <2>5
    <3>2. t = L!MessagesOf(L!Rows(w, pos[m])) BY <2>5, <3>1
    <3>3. L!MessagesOf(L!Rows(w, pos[m])) = L!MessagesOf(L!Rows(entries, q)) \o SubSeq(u, 1, m)
      BY <2>5, LinkedPath
    <3>4. SubSeq(u, 1, m) = u BY <2>7, <3>1
    <3> QED BY <2>10, <3>2, <3>3, <3>4
  <2>12. MessageSet(t) = MessageSet(old) \union MessageSet(u) BY <2>7, <2>11, SetOfBoth
  <2>13. MessageSet(u) = L!ToSet(u) BY DEF MessageSet, L!ToSet
  <2>14. ASSUME NEW i \in 1 .. Len(rows)
         PROVE  rows[i].message = SummaryMessage \/ rows[i].message \in MessageSet(t)
    <3>1. CASE i \in 1 .. p
      <4>1. \/ rows[i].message = SummaryMessage
            \/ rows[i].message \in MessageSet(L!MessagesOf(L!Rows(entries, rows[p].id)))
        BY <2>7, <2>9, <3>1, RowsUpTo
      <4> QED BY <2>2, <2>3, <2>10, <2>12, <4>1
    <3>2. CASE i \notin 1 .. p
      <4>1. i \in p .. Len(rows) /\ i # p BY <2>7, <3>2
      <4>2. rows[i].message \in L!ToSet(u) BY <2>7, <4>1 DEF SuffixHolds
      <4> QED BY <2>12, <2>13, <4>2
    <3> QED BY <3>1, <3>2
  <2>15. ASSUME NEW i \in 1 .. Len(rows), NEW c \in Makes(rows[i].message)
         PROVE  \E k \in 1 .. Len(t) : H!AnswersAt(t, k, c)
    <3>1. CASE L!HasResult(rows, c) BY <1>7, <2>14, <3>1
    <3>2. CASE ~L!HasResult(rows, c)
      <4>1. PICK j \in 1 .. Len(rows) : Interrupts(rows, j, c) BY <1>1, <3>2, FirstCall
      <4>2. j \in p .. Len(rows)
        <5>1. p <= j BY <1>1, <2>2, <4>1, NeedsRepair
        <5> QED BY <2>7, <5>1
      <4>3. c \in H!CallIds BY <1>1, CallsTyped
      <4>4. Synthesized(c) \in L!ToSet(u) BY <2>7, <4>1, <4>2, <4>3 DEF SuffixHolds
      <4>5. PICK k \in DOMAIN t : t[k] = Synthesized(c) BY <2>12, <2>13, <4>4 DEF MessageSet
      <4>6. k \in 1 .. Len(t) BY <1>6
      <4> QED BY <4>5, <4>6 DEF H!AnswersAt, Synthesized
    <3> QED BY <3>1, <3>2
  <2> QED BY <1>5, <1>6, <2>14, <2>15 DEF Answers
<1> QED BY <1>8, <1>9

(* The step LoadIsRepaired is about.                                         *)
LEMMA LoadRepairs ==
  ASSUME CInv, Load
  PROVE  /\ MessageSet(Found) \subseteq MessageSet(messages') \union {H!User(0, "summary")}
         /\ \A i \in DOMAIN messages' : \A c \in H!Called(Found) :
              H!CallsAt(messages', i, c) =>
                \E k \in DOMAIN messages' : k > i /\ H!AnswersAt(messages', k, c)
<1>1. PICK entries : entries = log OBVIOUS
<1>2. PICK w : w = log' OBVIOUS
<1>3. IInv /\ Tree(entries) /\ CallsAreNewIn(entries) BY <1>1, CallsHaveIds
<1>4. PICK leaf \in 0 .. Len(entries) : leaf = L!ActiveLeaf(entries) BY <1>3, LeafThere
<1>5. w = L!Repair(entries, leaf) BY <1>1, <1>2, <1>4 DEF Load
<1>6. PICK rows \in Seq(Row(Len(entries))) : rows = L!Rows(entries, leaf)
  BY <1>3, RowsFacts
<1>7. ~L!RepairNeeded(rows) => L!ActiveLeaf(w) = leaf
  BY <1>4, <1>5, <1>6 DEF L!Repair
<1>8. PICK t : t = messages' OBVIOUS
<1>9. t = L!MessagesOf(L!Rows(w, L!ActiveLeaf(w))) BY <1>2, <1>8 DEF Load
<1>10. t \in Seq(H!Messages) /\ CallsAreNew(t) /\ Answers(rows, t)
  BY <1>3, <1>5, <1>6, <1>7, <1>9, LoadAnswers
<1>11. PICK found : found = Found OBVIOUS
<1>12. /\ found \in Seq(H!Messages) /\ Len(found) = Len(rows)
       /\ \A i \in 1 .. Len(rows) : found[i] = rows[i].message
  <2>1. found = L!MessagesOf(rows) BY <1>1, <1>4, <1>6, <1>11 DEF Found
  <2> QED BY <2>1, MessagesFacts
<1>13. MessageSet(found) \subseteq MessageSet(t) \union {SummaryMessage}
  <2> SUFFICES ASSUME NEW x \in MessageSet(found)
               PROVE  x = SummaryMessage \/ x \in MessageSet(t)
    OBVIOUS
  <2>1. PICK i \in DOMAIN found : x = found[i] BY DEF MessageSet
  <2>2. i \in 1 .. Len(rows) BY <1>12
  <2> QED BY <1>10, <1>12, <2>1, <2>2 DEF Answers
<1>14. ASSUME NEW i \in DOMAIN t, NEW c \in H!Called(found), H!CallsAt(t, i, c)
       PROVE  \E k \in DOMAIN t : k > i /\ H!AnswersAt(t, k, c)
  <2>1. PICK j \in DOMAIN found : found[j].role = "assistant" /\ c \in H!Elements(found[j].calls)
    BY DEF H!Called
  <2>2. j \in 1 .. Len(rows) /\ c \in Makes(rows[j].message) BY <1>12, <2>1 DEF Makes
  <2>3. PICK k \in 1 .. Len(t) : H!AnswersAt(t, k, c) BY <1>10, <2>2 DEF Answers
  <2>4. i \in 1 .. Len(t) /\ k \in DOMAIN t BY <1>10, <2>3
  <2>5. k > i BY <1>10, <1>14, <2>3, <2>4, AnswerIsLater
  <2> QED BY <2>3, <2>4, <2>5
<1> QED BY <1>8, <1>11, <1>13, <1>14 DEF SummaryMessage

(* LoadIsRepaired: whatever was torn, lost or half repaired, a load brings    *)
(* back every message that was active, and none of the calls made there       *)
(* without its result behind it, as long as a provider uses no id again.      *)
THEOREM LoadIsAlwaysRepaired ==
  ASSUME FreshCallIds
  PROVE  Spec => LoadIsRepaired
<1>1. CInv /\ [Next]_vars => [call = "down" /\ call' = "idle" =>
       /\ MessageSet(Found) \subseteq MessageSet(messages') \union {H!User(0, "summary")}
       /\ \A i \in DOMAIN messages' : \A c \in H!Called(Found) :
            H!CallsAt(messages', i, c) =>
              \E k \in DOMAIN messages' : k > i /\ H!AnswersAt(messages', k, c)]_vars
  <2> SUFFICES ASSUME CInv, [Next]_vars, call = "down", call' = "idle"
               PROVE  /\ MessageSet(Found) \subseteq MessageSet(messages') \union {H!User(0, "summary")}
                      /\ \A i \in DOMAIN messages' : \A c \in H!Called(Found) :
                           H!CallsAt(messages', i, c) =>
                             \E k \in DOMAIN messages' : k > i /\ H!AnswersAt(messages', k, c)
    OBVIOUS
  <2>1. ~UNCHANGED vars BY DEF vars
  <2>2. ~(Progress \/ Teardown)
    BY DEF Progress, Teardown, RunStep, HandleMessageEnd, RetryRun, CompactionFails, FinishRun,
           OverflowCompaction, Compact, Abandon, AbandonCompaction, Runs, Compactions, CInv, TInv,
           IInv, Heard
  <2>3. ~(User \/ TerminalCommand)
    BY DEF User, SendPrompt, SendContinue, Queue, Cancel, StartPreCompaction,
           StartManualCompaction, AppendCustomEntry, BranchToEntry, StartBranchSummary,
           BranchSummarized, TerminalCommand, ReplayAt, Runs
  <2>4. ~(Die \/ DieLoading) BY DEF Die, DieLoading
  <2>5. Load BY <2>1, <2>2, <2>3, <2>4 DEF Next, Restart
  <2> QED BY <2>5, LoadRepairs
<1>2. Spec => []CInv BY CallsStayNew
<1> QED BY <1>1, <1>2, PTL DEF Spec, LoadIsRepaired
=============================================================================
