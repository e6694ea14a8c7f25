----------------------- MODULE ToolsAndStreamsProofs -----------------------
(* Proofs that a call of the bash tool is over when it ends, for any set of  *)
(* processes the command may start, that a file is read as a whole, that a   *)
(* provider's answer reaches the agent loop whole and once, that the history *)
(* is sent to every provider in a form that it takes, and that an edit does  *)
(* what its replacements mean.                                               *)
EXTENDS ToolsAndStreams, FiniteSetTheorems, SequenceTheorems, WellFoundedInduction, TLAPS

Killed == {"timed out", "cancelled", "aborted"}

(* A group that was killed stays empty, since only its own processes could   *)
(* add to it, and a call that waits for the rest of the output has a reason. *)
BashInv ==
  /\ at \in {"idle", "waits", "drains", "over"}
  /\ at # "over" => outcome = "none"
  /\ at = "drains" \/ outcome \in Killed => group = {}
  /\ at = "drains" => expired \/ signal.seen
  /\ signal \in [set : BOOLEAN, seen : BOOLEAN]
  /\ signal.seen => signal.set
  /\ B!OutcomeIsTrue

(* Every step of the command, its children, the timers and the user keeps    *)
(* the invariant.                                                            *)
LEMMA BashNext ==
  ASSUME BashInv, [B!Next]_(B!vars)
  PROVE  BashInv'
<1> USE DEF BashInv, B!OutcomeIsTrue, Killed, B!procs
<1>1. CASE B!Refuse
  BY <1>1 DEF B!Refuse, B!Over
<1>2. ASSUME NEW t \in BOOLEAN, B!Start(t) PROVE BashInv'
  BY <1>2 DEF B!Start
<1>3. ASSUME NEW c \in Child, NEW leaves \in BOOLEAN, NEW redirects \in BOOLEAN,
             B!Fork(c, leaves, redirects)
      PROVE  BashInv'
  BY <1>3 DEF B!Fork
<1>4. ASSUME NEW p \in B!Process, B!Exit(p) PROVE BashInv'
  BY <1>4 DEF B!Exit
<1>5. CASE B!Communicated
  BY <1>5 DEF B!Communicated
<1>6. CASE B!Expire
  BY <1>6 DEF B!Expire
<1>7. CASE B!Cancel
  BY <1>7 DEF B!Cancel
<1>8. CASE B!Watch
  BY <1>8 DEF B!Watch
<1>9. CASE B!Wake
  BY <1>9 DEF B!Wake, B!Over, B!Kill
<1>10. CASE B!Drained
  BY <1>10 DEF B!Drained, B!Over
<1>11. CASE B!Abort
  BY <1>11 DEF B!Abort, B!Over, B!Kill
<1>12. CASE UNCHANGED B!vars
  BY <1>12 DEF B!vars
<1> QED
  BY <1>1, <1>2, <1>3, <1>4, <1>5, <1>6, <1>7, <1>8, <1>9, <1>10, <1>11, <1>12 DEF B!Next

(* However output, timeout, cancellation and abort race, a call that ended   *)
(* left nothing of its process group behind and says what happened.          *)
THEOREM CallIsAlwaysOver == Spec => []CallIsOver
<1>1. Init => BashInv
  BY DEF Init, B!Init, BashInv, B!OutcomeIsTrue, Killed
<1>2. BashInv /\ [Next]_vars => BashInv'
  BY BashNext DEF Next, vars, bashVars, B!vars, B!procs
<1>3. BashInv => CallIsOver
  BY DEF BashInv, CallIsOver, B!CallIsOver, B!GroupIsGone, Killed
<1> QED BY <1>1, <1>2, <1>3, PTL DEF Spec

-----------------------------------------------------------------------------
(* What holds of k whenever it holds below k holds up to n.                  *)
LEMMA UpTo ==
  ASSUME NEW n \in Nat, NEW T, 0 \in T, \A k \in 1 .. n : k - 1 \in T => k \in T
  PROVE  \A k \in 0 .. n : k \in T
<1> DEFINE R == OpToRel(<, Nat)
           Left == (0 .. n) \ T
<1>1. IsWellFoundedOn(R, Nat)
  BY NatLessThanWellFounded
<1>2. \A x, y \in Nat : y < x => <<y, x>> \in R
  BY DEF OpToRel
<1>3. Left \subseteq Nat OBVIOUS
<1> HIDE DEF R
<1>4. SUFFICES ASSUME Left # {} PROVE FALSE
  OBVIOUS
<1> HIDE DEF Left
<1>5. PICK x \in Left : \A y \in Left : ~(<<y, x>> \in R)
  BY <1>1, <1>3, <1>4, WFMin
<1>6. x \in 1 .. n
  BY DEF Left
<1>7. x - 1 \in Left
  BY <1>6 DEF Left
<1>8. x - 1 \in Nat /\ x \in Nat /\ x - 1 < x
  BY <1>6
<1> QED BY <1>2, <1>5, <1>7, <1>8, Zenon

(* A function whose value at k is made of the one before it ...              *)
Stepwise(n, V, base, st) ==
  \E f \in [0 .. n -> V] : f[0] = base /\ \A k \in 1 .. n : f[k] = st[<<k, f[k - 1]>>]

(* ... exists.                                                               *)
LEMMA Recursion ==
  ASSUME NEW n \in Nat, NEW V, NEW base \in V,
         NEW st, \A k \in 1 .. n : \A v \in V : st[<<k, v>>] \in V
  PROVE  Stepwise(n, V, base, st)
<1> DEFINE T == {k \in 0 .. n : Stepwise(k, V, base, st)}
<1>1. 0 \in T
  <2> DEFINE f == [j \in 0 .. 0 |-> base]
  <2>1. f \in [0 .. 0 -> V] /\ f[0] = base /\ 1 .. 0 = {} OBVIOUS
  <2> HIDE DEF f
  <2> QED BY <2>1 DEF Stepwise
<1>2. ASSUME NEW k \in 1 .. n, k - 1 \in T PROVE k \in T
  <2>1. k \in 0 .. n OBVIOUS
  <2>2. PICK f \in [0 .. k - 1 -> V] :
           f[0] = base /\ \A j \in 1 .. k - 1 : f[j] = st[<<j, f[j - 1]>>]
    BY <1>2 DEF Stepwise
  <2> DEFINE g == [j \in 0 .. k |-> IF j = k THEN st[<<k, f[k - 1]>>] ELSE f[j]]
  <2>3. k - 1 \in 0 .. k - 1 /\ f[k - 1] \in V /\ st[<<k, f[k - 1]>>] \in V
    BY <2>2
  <2>4. g \in [0 .. k -> V] BY <2>2, <2>3
  <2>5. \A j \in 0 .. k - 1 : g[j] = f[j] OBVIOUS
  <2>6. g[k] = st[<<k, f[k - 1]>>] OBVIOUS
  <2> HIDE DEF g
  <2>7. g[0] = base BY <2>2, <2>5
  <2>8. ASSUME NEW j \in 1 .. k PROVE g[j] = st[<<j, g[j - 1]>>]
    <3>1. j - 1 \in 0 .. k - 1 /\ g[j - 1] = f[j - 1] BY <2>5
    <3>2. CASE j = k BY <2>6, <3>1, <3>2
    <3>3. CASE j # k
      <4>1. j \in 1 .. k - 1 /\ j \in 0 .. k - 1 BY <3>3
      <4> QED BY <2>2, <2>5, <3>1, <4>1
    <3> QED BY <3>2, <3>3
  <2>9. Stepwise(k, V, base, st) BY <2>4, <2>7, <2>8 DEF Stepwise
  <2> QED BY <2>1, <2>9
<1> HIDE DEF T
<1>3. \A k \in 0 .. n : k \in T
  BY <1>1, <1>2, UpTo
<1>4. n \in T BY <1>3
<1> QED BY <1>4 DEF T

-----------------------------------------------------------------------------
(***************************************************************************)
(* TextWindow: the pages of a file, and the end of a command's output.     *)
(***************************************************************************)
(* The bytes of the first lines, line by line.                               *)
Sums(s, f) ==
  /\ f \in [0 .. Len(s) -> Nat] /\ f[0] = 0 /\ W!Total(s) = f[Len(s)]
  /\ \A k \in 1 .. Len(s) : f[k] = f[k - 1] + s[k]

(* A total is made of one line after another.                                *)
LEMMA TotalSteps ==
  ASSUME NEW s \in Seq(Nat)
  PROVE  \E f : Sums(s, f)
<1> DEFINE n == Len(s)
           Unfolds(g) == g = [k \in 0 .. Len(s) |-> IF k = 0 THEN 0 ELSE g[k - 1] + s[k]]
           F == CHOOSE g : Unfolds(g)
           st == [x \in (1 .. n) \X Nat |-> x[2] + s[x[1]]]
<1>0. n \in Nat OBVIOUS
<1>1. \A k \in 1 .. n : s[k] \in Nat OBVIOUS
<1>2. \A k \in 1 .. n : \A v \in Nat : st[<<k, v>>] \in Nat /\ st[<<k, v>>] = v + s[k] BY <1>1
<1> HIDE DEF st, n
<1>3. Stepwise(n, Nat, 0, st)
  <2>1. 0 \in Nat OBVIOUS
  <2> QED BY <1>0, <1>2, <2>1, Recursion, Zenon
<1>4. PICK f \in [0 .. n -> Nat] : f[0] = 0 /\ \A k \in 1 .. n : f[k] = st[<<k, f[k - 1]>>]
  BY <1>3 DEF Stepwise
<1>5. \A k \in 0 .. n : f[k] = IF k = 0 THEN 0 ELSE f[k - 1] + s[k]
  <2> TAKE k \in 0 .. n
  <2>1. CASE k = 0 BY <1>4, <2>1
  <2>2. CASE k # 0
    <3>1. k \in 1 .. n /\ k - 1 \in 0 .. n BY <1>0, <2>2
    <3>2. f[k] = st[<<k, f[k - 1]>>] /\ f[k - 1] \in Nat BY <1>4, <3>1
    <3> QED BY <1>2, <2>2, <3>1, <3>2
  <2> QED BY <2>1, <2>2
<1>6. Unfolds(f) BY <1>4, <1>5 DEF n
<1> HIDE DEF Unfolds
<1>7. Unfolds(F) BY <1>6, Zenon
<1> HIDE DEF F
<1>8. F = [k \in 0 .. n |-> IF k = 0 THEN 0 ELSE F[k - 1] + s[k]] BY <1>7 DEF Unfolds, n
<1>9. F[0] = 0 BY <1>0, <1>8
<1>10. \A k \in 1 .. n : F[k] = F[k - 1] + s[k]
  <2> TAKE k \in 1 .. n
  <2>1. k \in 0 .. n /\ k # 0 BY <1>0
  <2> QED BY <1>8, <2>1
<1> DEFINE K == {k \in 0 .. n : F[k] \in Nat}
<1>11. 0 \in K BY <1>0, <1>9
<1>12. ASSUME NEW k \in 1 .. n, k - 1 \in K PROVE k \in K
  <2>1. k \in 0 .. n /\ F[k - 1] \in Nat BY <1>0, <1>12
  <2> QED BY <1>1, <1>10, <2>1
<1> HIDE DEF K
<1>13. \A k \in 0 .. n : k \in K BY <1>0, <1>11, <1>12, UpTo
<1>14. F \in [0 .. n -> Nat] BY <1>8, <1>13 DEF K
<1>15. W!Total(s) = F[n] BY Zenon DEF W!Total, F, Unfolds, n
<1>16. Sums(s, F) BY <1>9, <1>10, <1>14, <1>15 DEF Sums, n
<1> QED BY <1>16

(* A part of a text: its lines and their bytes.                              *)
PartIs(s, f, i, j) ==
  LET t == SubSeq(s, i + 1, j)
  IN  /\ t \in Seq(Nat) /\ Len(t) = j - i /\ \A k \in 1 .. j - i : t[k] = s[i + k]
      /\ W!Total(t) \in Nat /\ f[j] = f[i] + W!Total(t)
(* The total of a part is the difference of two totals.                      *)
LEMMA PartTotal ==
  ASSUME NEW s \in Seq(Nat), NEW f, Sums(s, f), NEW i \in 0 .. Len(s), NEW j \in i .. Len(s)
  PROVE  PartIs(s, f, i, j)
<1>0. i \in Nat /\ j \in Nat /\ Len(s) \in Nat /\ j - i \in Nat /\ i <= j /\ j <= Len(s) OBVIOUS
<1>1. /\ SubSeq(s, i + 1, j) \in Seq(Nat) /\ Len(SubSeq(s, i + 1, j)) = j - i
      /\ \A k \in 1 .. j - i : SubSeq(s, i + 1, j)[k] = s[i + k]
  <2>1. \A k \in i + 1 .. j : s[k] \in Nat BY <1>0
  <2>2. SubSeq(s, i + 1, j) = [k \in 1 .. j - i |-> s[i + k]] BY <1>0
  <2>3. \A k \in 1 .. j - i : i + k \in i + 1 .. j BY <1>0
  <2>4. PICK m \in Nat : m = j - i BY <1>0
  <2>5. [k \in 1 .. m |-> s[i + k]] \in Seq(Nat) BY <2>1, <2>3, <2>4
  <2> QED BY <2>2, <2>4, <2>5
<1>2. PICK t \in Seq(Nat) : t = SubSeq(s, i + 1, j) BY <1>1
<1>3. PICK g : Sums(t, g) BY TotalSteps
<1> DEFINE K == {k \in 0 .. j - i : f[i + k] = f[i] + g[k]}
<1>4. f \in [0 .. Len(s) -> Nat] /\ \A k \in 1 .. Len(s) : f[k] = f[k - 1] + s[k] BY DEF Sums
<1>5. /\ g \in [0 .. j - i -> Nat] /\ g[0] = 0 /\ W!Total(t) = g[j - i]
      /\ \A k \in 1 .. j - i : g[k] = g[k - 1] + t[k]
  BY <1>1, <1>2, <1>3 DEF Sums
<1>6. 0 \in K
  <2>1. i \in 0 .. Len(s) /\ 0 \in 0 .. j - i /\ i + 0 = i BY <1>0
  <2>2. f[i] \in Nat BY <1>4, <2>1
  <2>3. f[i + 0] = f[i] + g[0] BY <1>5, <2>1, <2>2
  <2> QED BY <2>1, <2>3
<1>7. ASSUME NEW k \in 1 .. j - i, k - 1 \in K PROVE k \in K
  <2>1. /\ i + k \in 1 .. Len(s) /\ k \in 0 .. j - i /\ i + k - 1 = i + (k - 1)
        /\ k - 1 \in 0 .. j - i /\ i \in 0 .. Len(s)
    BY <1>0
  <2>2. f[i + k] = f[i + (k - 1)] + s[i + k] BY <1>4, <2>1
  <2>3. f[i + (k - 1)] = f[i] + g[k - 1] BY <1>7
  <2>4. g[k] = g[k - 1] + s[i + k] BY <1>1, <1>2, <1>5
  <2>5. f[i] \in Nat /\ g[k - 1] \in Nat /\ s[i + k] \in Nat
    <3>1. f[i] \in Nat BY <1>4, <2>1
    <3>2. g[k - 1] \in Nat BY <1>5, <2>1
    <3>3. s[i + k] \in Nat BY <2>1
    <3> QED BY <3>1, <3>2, <3>3
  <2>6. f[i + k] = f[i] + g[k] BY <2>2, <2>3, <2>4, <2>5
  <2> QED BY <2>1, <2>6
<1> HIDE DEF K
<1>8. j - i \in K
  <2>1. j - i \in 0 .. j - i BY <1>0
  <2> QED BY <1>0, <1>6, <1>7, <2>1, UpTo
<1>9. f[i + (j - i)] = f[i] + g[j - i] BY <1>8 DEF K
<1>10. i + (j - i) = j /\ g[j - i] \in Nat BY <1>0, <1>5
<1>11. W!Total(t) \in Nat /\ f[j] = f[i] + W!Total(t) BY <1>5, <1>9, <1>10
<1> QED BY <1>1, <1>2, <1>11 DEF PartIs

(* The first lines of a text take no more bytes than more of them.           *)
Grows(s, i, j) ==
  /\ SubSeq(s, 1, i) \in Seq(Nat) /\ Len(SubSeq(s, 1, i)) = i
  /\ \A k \in 1 .. i : SubSeq(s, 1, i)[k] = s[k]
  /\ W!Bytes(SubSeq(s, 1, i)) \in Nat /\ W!Bytes(SubSeq(s, 1, j)) \in Nat
  /\ W!Bytes(SubSeq(s, 1, i)) <= W!Bytes(SubSeq(s, 1, j))
(* A page that takes more lines takes no fewer bytes.                        *)
LEMMA BytesGrow ==
  ASSUME NEW s \in Seq(Nat), NEW i \in 0 .. Len(s), NEW j \in i .. Len(s)
  PROVE  Grows(s, i, j)
<1>0. i \in Nat /\ j \in Nat /\ i <= j /\ j \in 0 .. Len(s) /\ 0 \in 0 .. Len(s) /\ Len(s) \in Nat
      /\ i \in 0 .. Len(s)
  OBVIOUS
<1>1. PICK f : Sums(s, f) BY TotalSteps
<1>2. PartIs(s, f, 0, i) /\ PartIs(s, f, 0, j) /\ PartIs(s, f, i, j) BY <1>0, <1>1, PartTotal
<1>3. f[0] = 0 /\ f[i] \in Nat /\ f[j] \in Nat BY <1>0, <1>1 DEF Sums
<1>4. f[i] <= f[j]
  <2>1. PICK d \in Nat : f[j] = f[i] + d BY <1>2 DEF PartIs
  <2> QED BY <1>3, <2>1
<1>5. 0 + 1 = 1 /\ i - 0 = i /\ j - 0 = j /\ \A k \in 1 .. i : 0 + k = k BY <1>0
<1>6. PICK p : p = SubSeq(s, 1, i) OBVIOUS
<1>7. PICK q : q = SubSeq(s, 1, j) OBVIOUS
<1>8. p \in Seq(Nat) /\ Len(p) = i /\ W!Total(p) = f[i] /\ \A k \in 1 .. i : p[k] = s[k]
  BY <1>2, <1>3, <1>5, <1>6 DEF PartIs
<1>9. q \in Seq(Nat) /\ Len(q) = j /\ W!Total(q) = f[j]
  BY <1>2, <1>3, <1>5, <1>7 DEF PartIs
<1>10. /\ W!Bytes(p) = IF i = 0 THEN 0 ELSE f[i] + (i - 1)
       /\ W!Bytes(q) = IF j = 0 THEN 0 ELSE f[j] + (j - 1)
  <2>1. (p = << >> <=> i = 0) /\ (q = << >> <=> j = 0) BY <1>8, <1>9
  <2> QED BY <1>8, <1>9, <2>1 DEF W!Bytes
<1>11. W!Bytes(p) \in Nat /\ W!Bytes(q) \in Nat /\ W!Bytes(p) <= W!Bytes(q)
  BY <1>0, <1>3, <1>4, <1>10
<1> QED BY <1>6, <1>7, <1>8, <1>11 DEF Grows

(* A final newline does not count.                                           *)
CountedIs(s) ==
  LET c == W!Counted(s)
  IN  /\ c \in Seq(Nat) /\ c = SubSeq(s, 1, Len(c)) /\ Len(c) <= Len(s) /\ Len(s) <= Len(c) + 1
      /\ W!Bytes(c) \in Nat /\ W!Bytes(s) \in Nat /\ W!Bytes(c) <= W!Bytes(s)
(* Counted leaves out at most the last, empty line.                          *)
LEMMA CountedKeeps ==
  ASSUME NEW s \in Seq(Nat)
  PROVE  CountedIs(s)
<1>1. Len(s) \in Nat /\ SubSeq(s, 1, Len(s)) = s OBVIOUS
<1>2. CASE s # << >> /\ W!Last(s) = 0
  <2>1. Len(s) \in Nat \ {0} BY <1>2
  <2>2. PICK n \in Nat : n = Len(s) - 1 BY <2>1
  <2>3. n \in 0 .. Len(s) /\ Len(s) \in n .. Len(s) BY <2>1, <2>2
  <2>4. Grows(s, n, Len(s)) BY <2>3, BytesGrow
  <2>5. W!Counted(s) = SubSeq(s, 1, n) BY <1>2, <2>2 DEF W!Counted, W!Front
  <2>6. PICK c \in Seq(Nat) : c = W!Counted(s) BY <2>4, <2>5 DEF Grows
  <2>7. Len(c) = n /\ W!Bytes(c) \in Nat /\ W!Bytes(s) \in Nat /\ W!Bytes(c) <= W!Bytes(s)
    BY <1>1, <2>4, <2>5, <2>6 DEF Grows
  <2> QED BY <2>1, <2>2, <2>5, <2>6, <2>7 DEF CountedIs
<1>3. CASE ~(s # << >> /\ W!Last(s) = 0)
  <2>1. W!Counted(s) = s BY <1>3 DEF W!Counted
  <2>2. Grows(s, Len(s), Len(s)) BY <1>1, BytesGrow
  <2>3. W!Bytes(s) \in Nat BY <1>1, <2>2 DEF Grows
  <2> QED BY <1>1, <2>1, <2>3 DEF CountedIs
<1> QED BY <1>2, <1>3

(* What is within both limits still is when a final newline is left out.     *)
LEMMA CountedFits ==
  ASSUME W!WindowAssumption, NEW s \in Seq(Nat), W!Bytes(s) <= MaxBytes, Len(W!Counted(s)) <= MaxLines
  PROVE  W!Fits(W!Counted(s))
<1>1. CountedIs(s) BY CountedKeeps
<1>2. PICK a \in Nat : a = W!Bytes(s) BY <1>1 DEF CountedIs
<1>3. PICK b \in Nat : b = W!Bytes(W!Counted(s)) BY <1>1 DEF CountedIs
<1>4. b <= a /\ a <= MaxBytes /\ MaxBytes \in Nat BY <1>1, <1>2, <1>3 DEF CountedIs, W!WindowAssumption
<1>5. b <= MaxBytes BY <1>4
<1> QED BY <1>3, <1>5 DEF W!Fits

(* The lines that the loops take, and why they stop.                         *)
TakenIs(s, c, by) ==
  /\ W!Taken(s).count = c /\ W!Taken(s).by = by
  /\ c <= MaxLines /\ W!Bytes(SubSeq(s, 1, c)) <= MaxBytes
  /\ by = "none" => c = Len(s)
  /\ by = "lines" => c = MaxLines
  /\ by = "bytes" => c < Len(s) /\ ~(W!Bytes(SubSeq(s, 1, c + 1)) <= MaxBytes)
(* The loops of truncate_head and truncate_tail stop at the end, at the      *)
(* lines or at the bytes.                                                    *)
LEMMA TakenSteps ==
  ASSUME W!WindowAssumption, NEW s \in Seq(Nat)
  PROVE  \E c \in 0 .. Len(s), by \in {"none", "lines", "bytes"} : TakenIs(s, c, by)
<1> DEFINE n == Len(s)
           V == [count : Nat, bytes : Nat, by : {"none", "lines", "bytes"}]
           none == [count |-> 0, bytes |-> 0, by |-> "none"]
           more(k) == s[k] + (IF k > 1 THEN 1 ELSE 0)
           Step(so, k) == IF so.by # "none" THEN so
                          ELSE IF k > MaxLines THEN [so EXCEPT !.by = "lines"]
                          ELSE IF so.bytes + more(k) > MaxBytes THEN [so EXCEPT !.by = "bytes"]
                          ELSE [count |-> k, bytes |-> so.bytes + more(k), by |-> "none"]
           Unfolds(g) == g = [k \in 0 .. Len(s) |-> IF k = 0 THEN none ELSE Step(g[k - 1], k)]
           F == CHOOSE g : Unfolds(g)
           st == [x \in (1 .. n) \X V |-> Step(x[2], x[1])]
<1>0. n \in Nat /\ MaxLines \in Nat \ {0} /\ MaxBytes \in Nat \ {0} BY DEF W!WindowAssumption
<1>1. \A k \in 1 .. n : more(k) \in Nat OBVIOUS
<1> HIDE DEF more
<1>2. \A k \in 1 .. n : \A v \in V :
        /\ Step(v, k) \in V
        /\ \/ v.by # "none" /\ Step(v, k) = v
           \/ v.by = "none" /\ k > MaxLines /\ Step(v, k).by = "lines"
              /\ Step(v, k).count = v.count /\ Step(v, k).bytes = v.bytes
           \/ v.by = "none" /\ v.bytes + more(k) > MaxBytes /\ Step(v, k).by = "bytes"
              /\ Step(v, k).count = v.count /\ Step(v, k).bytes = v.bytes
           \/ v.by = "none" /\ k <= MaxLines /\ v.bytes + more(k) <= MaxBytes
              /\ Step(v, k).by = "none" /\ Step(v, k).count = k
              /\ Step(v, k).bytes = v.bytes + more(k)
  <2> TAKE k \in 1 .. n
  <2> TAKE v \in V
  <2>1. CASE v.by # "none" BY <2>1
  <2>2. CASE v.by = "none" /\ k > MaxLines BY <2>2
  <2>3. CASE v.by = "none" /\ ~(k > MaxLines) /\ v.bytes + more(k) > MaxBytes BY <2>3
  <2>4. CASE v.by = "none" /\ ~(k > MaxLines) /\ ~(v.bytes + more(k) > MaxBytes)
    <3>1. k \in Nat /\ v.bytes + more(k) \in Nat BY <1>1
    <3>2. PICK b \in Nat : b = v.bytes + more(k) BY <3>1
    <3>3. k <= MaxLines /\ b <= MaxBytes BY <1>0, <2>4, <3>2
    <3>4. Step(v, k) = [count |-> k, bytes |-> b, by |-> "none"] BY <2>4, <3>2
    <3> QED BY <2>4, <3>1, <3>2, <3>3, <3>4
  <2> QED BY <2>1, <2>2, <2>3, <2>4
<1>3. none \in V OBVIOUS
<1>4. \A k \in 1 .. n : \A v \in V : st[<<k, v>>] = Step(v, k) OBVIOUS
<1>5. none.count = 0 /\ none.bytes = 0 /\ none.by = "none" OBVIOUS
<1> HIDE DEF st, V, n, none, Step
<1>6. \A k \in 1 .. n : \A v \in V : st[<<k, v>>] \in V BY <1>2, <1>4
<1>7. Stepwise(n, V, none, st) BY <1>0, <1>3, <1>6, Recursion, Zenon
<1>8. PICK f \in [0 .. n -> V] : f[0] = none /\ \A k \in 1 .. n : f[k] = st[<<k, f[k - 1]>>]
  BY <1>7 DEF Stepwise
<1>9. \A k \in 0 .. n : f[k] = IF k = 0 THEN none ELSE Step(f[k - 1], k)
  <2> TAKE k \in 0 .. n
  <2>1. CASE k = 0 BY <1>8, <2>1
  <2>2. CASE k # 0
    <3>1. k \in 1 .. n /\ k - 1 \in 0 .. n BY <1>0, <2>2
    <3>2. f[k] = st[<<k, f[k - 1]>>] /\ f[k - 1] \in V BY <1>8, <3>1
    <3> QED BY <1>4, <2>2, <3>1, <3>2
  <2> QED BY <2>1, <2>2
<1>10. Unfolds(f) BY <1>8, <1>9 DEF n
<1> HIDE DEF Unfolds
<1>11. Unfolds(F) BY <1>10, Zenon
<1> HIDE DEF F
<1>12. F = [k \in 0 .. n |-> IF k = 0 THEN none ELSE Step(F[k - 1], k)] BY <1>11 DEF Unfolds, n
<1>13. F[0] = none BY <1>0, <1>12
<1>14. \A k \in 1 .. n : F[k] = Step(F[k - 1], k)
  <2> TAKE k \in 1 .. n
  <2>1. k \in 0 .. n /\ k # 0 BY <1>0
  <2> QED BY <1>12, <2>1
<1>15. W!Taken(s) = F[n] BY Zenon DEF W!Taken, F, Unfolds, n, none, Step, more
<1>16. PICK g : Sums(s, g) BY TotalSteps
<1>17. /\ g \in [0 .. n -> Nat] /\ g[0] = 0
       /\ \A k \in 1 .. n : g[k] = g[k - 1] + s[k]
  BY <1>16 DEF Sums, n
<1> DEFINE J(c) == IF c = 0 THEN 0 ELSE g[c] + (c - 1)
           Good(k, v) == /\ v \in V /\ v.count <= k /\ v.count <= MaxLines
                         /\ v.bytes = J(v.count) /\ v.bytes <= MaxBytes
                         /\ v.by = "none" => v.count = k
                         /\ v.by = "lines" => v.count = MaxLines
                         /\ v.by = "bytes" => v.count < k /\ ~(J(v.count + 1) <= MaxBytes)
           K == {k \in 0 .. n : Good(k, F[k])}
<1>18. 0 \in K
  <2>1. Good(0, none) BY <1>0, <1>3, <1>5
  <2> QED BY <1>0, <1>13, <2>1
<1>19. ASSUME NEW k \in 1 .. n, k - 1 \in K PROVE k \in K
  <2>1. k \in 0 .. n /\ k - 1 \in 0 .. n /\ k \in Nat /\ k - 1 \in Nat BY <1>0
  <2>2. PICK v : v = F[k - 1] OBVIOUS
  <2>3. Good(k - 1, v) BY <1>19, <2>2
  <2>4. F[k] = Step(v, k) BY <1>14, <2>2
  <2>5. PICK w : w = Step(v, k) OBVIOUS
  <2>6. v \in V /\ v.count \in Nat /\ v.bytes \in Nat /\ v.by \in {"none", "lines", "bytes"}
    BY <2>3 DEF V
  <2>7. J(k) = J(k - 1) + more(k)
    <3>1. g[k] = g[k - 1] + s[k] /\ g[k - 1] \in Nat /\ s[k] \in Nat
      <4>1. s[k] \in Nat BY DEF n
      <4> QED BY <1>17, <2>1, <4>1
    <3>2. CASE k = 1 BY <1>17, <3>1, <3>2 DEF more
    <3>3. CASE k # 1
      <4>1. more(k) = s[k] + 1 BY <2>1, <3>3 DEF more
      <4>2. J(k) = g[k - 1] + s[k] + (k - 1) /\ J(k - 1) = g[k - 1] + (k - 1 - 1)
        BY <2>1, <3>1, <3>3
      <4>3. PICK a \in Nat : a = g[k - 1] BY <3>1
      <4>4. PICK b \in Nat : b = s[k] BY <3>1
      <4>5. PICK d \in Nat : d = k - 1 BY <2>1
      <4>6. J(k) = a + b + d /\ J(k - 1) = a + (d - 1) /\ more(k) = b + 1
        BY <4>1, <4>2, <4>3, <4>4, <4>5
      <4>7. d - 1 + 1 = d /\ a + b + d = a + (d - 1) + (b + 1) BY <4>5
      <4> QED BY <4>6, <4>7
    <3> QED BY <3>2, <3>3
  <2>8. w \in V BY <1>2, <2>5, <2>6
  <2> HIDE DEF J
  <2>9. Good(k, w)
    <3>1. CASE v.by # "none" /\ w = v BY <2>1, <2>3, <2>6, <3>1, <1>0
    <3>2. CASE v.by = "none" /\ k > MaxLines /\ w.by = "lines"
               /\ w.count = v.count /\ w.bytes = v.bytes
      BY <1>0, <2>1, <2>3, <2>6, <2>8, <3>2
    <3>3. CASE v.by = "none" /\ v.bytes + more(k) > MaxBytes /\ w.by = "bytes"
               /\ w.count = v.count /\ w.bytes = v.bytes
      <4>1. v.count = k - 1 /\ v.count + 1 = k BY <2>1, <2>3, <3>3
      <4>2. J(k) = v.bytes + more(k) BY <2>3, <2>7, <4>1
      <4>3. ~(J(v.count + 1) <= MaxBytes)
        <5>1. PICK x \in Nat : x = v.bytes + more(k) BY <1>1, <2>6
        <5>2. ~(x <= MaxBytes) BY <1>0, <3>3, <5>1
        <5> QED BY <4>1, <4>2, <5>1, <5>2
      <4> QED BY <1>0, <2>1, <2>3, <2>6, <2>8, <3>3, <4>1, <4>3
    <3>4. CASE v.by = "none" /\ k <= MaxLines /\ v.bytes + more(k) <= MaxBytes
               /\ w.by = "none" /\ w.count = k /\ w.bytes = v.bytes + more(k)
      <4>1. v.count = k - 1 BY <2>3, <3>4
      <4>2. w.bytes = J(k) BY <2>3, <2>7, <3>4, <4>1
      <4> QED BY <1>0, <2>1, <2>8, <3>4, <4>2
    <3> QED BY <1>2, <2>5, <2>6, <3>1, <3>2, <3>3, <3>4
  <2> QED BY <2>1, <2>4, <2>5, <2>9
<1>20. Good(n, F[n])
  <2> HIDE DEF K
  <2>1. n \in 0 .. n BY <1>0
  <2>2. n \in K BY <1>0, <1>18, <1>19, <2>1, UpTo
  <2> QED BY <2>2 DEF K
<1>21. ASSUME NEW c \in 0 .. n PROVE W!Bytes(SubSeq(s, 1, c)) = J(c)
  <2>1. 0 \in 0 .. Len(s) /\ c \in 0 .. Len(s) /\ 0 + 1 = 1 /\ c - 0 = c /\ c \in Nat
    BY <1>0 DEF n
  <2>2. PartIs(s, g, 0, c) BY <1>16, <2>1, PartTotal
  <2>3. PICK t : t = SubSeq(s, 1, c) OBVIOUS
  <2>4. t \in Seq(Nat) /\ Len(t) = c /\ g[c] = W!Total(t)
    <3>1. t \in Seq(Nat) /\ Len(t) = c /\ W!Total(t) \in Nat /\ g[c] = 0 + W!Total(t)
      BY <1>17, <2>1, <2>2, <2>3 DEF PartIs
    <3> QED BY <3>1
  <2>5. t = << >> <=> c = 0 BY <2>4
  <2> QED BY <2>3, <2>4, <2>5 DEF W!Bytes
<1>22. PICK v : v = F[n] OBVIOUS
<1>23. /\ v \in V /\ v.count \in 0 .. n /\ v.by \in {"none", "lines", "bytes"}
       /\ v.by = "bytes" => v.count + 1 \in 0 .. n
  <2> HIDE DEF J
  <2>1. v \in V /\ v.count <= n /\ (v.by = "bytes" => v.count < n) BY <1>20, <1>22
  <2>2. v.count \in Nat /\ v.by \in {"none", "lines", "bytes"} BY <2>1 DEF V
  <2> QED BY <1>0, <2>1, <2>2
<1>24. TakenIs(s, v.count, v.by)
  <2>1. W!Bytes(SubSeq(s, 1, v.count)) = J(v.count) BY <1>21, <1>23
  <2>2. v.by = "bytes" => W!Bytes(SubSeq(s, 1, v.count + 1)) = J(v.count + 1) BY <1>21, <1>23
  <2> HIDE DEF J
  <2> QED BY <1>15, <1>20, <1>22, <2>1, <2>2 DEF TakenIs, n
<1> QED BY <1>23, <1>24 DEF n

(* The first lines that a page keeps.                                        *)
HeadIs(s, h) ==
  /\ h.count \in 0 .. Len(s) /\ h.long \in BOOLEAN /\ h.cut \in BOOLEAN
  /\ h.long => Len(s) > 0
  /\ ~h.cut => h.count = Len(s) /\ ~h.long
  /\ SubSeq(s, 1, h.count) \in Seq(Nat)
  /\ W!Bytes(SubSeq(s, 1, h.count)) <= MaxBytes /\ W!Fits(W!Counted(SubSeq(s, 1, h.count)))
(* A page from the start of a text is within both limits.                    *)
LEMMA HeadKeepsLimits ==
  ASSUME W!WindowAssumption, NEW s \in Seq(Nat)
  PROVE  HeadIs(s, W!Head_(s))
<1> DEFINE c == W!Counted(s)
<1>0. /\ Len(s) \in Nat /\ SubSeq(s, 1, Len(s)) = s /\ SubSeq(s, 1, 0) = << >>
      /\ MaxBytes \in Nat /\ MaxLines \in Nat
  BY DEF W!WindowAssumption
<1>1. CountedIs(s) BY CountedKeeps
<1>2. PICK yes \in BOOLEAN : yes = TRUE OBVIOUS
<1>3. PICK no \in BOOLEAN : no = FALSE OBVIOUS
<1>4. CASE W!Whole(s)
  <2>1. W!Fits(c) BY <1>4, CountedFits DEF W!Whole
  <2>2. PICK h : h = [count |-> Len(s), cut |-> no, long |-> no] OBVIOUS
  <2>3. W!Head_(s) = h BY <1>3, <1>4, <2>2 DEF W!Head_
  <2>4. h.count = Len(s) /\ h.cut = no /\ h.long = no BY <2>2
  <2>5. W!Bytes(s) <= MaxBytes BY <1>4 DEF W!Whole
  <2>6. Len(s) \in 0 .. Len(s) BY <1>0
  <2>7. HeadIs(s, h) BY <1>0, <1>3, <2>1, <2>4, <2>5, <2>6 DEF HeadIs
  <2> QED BY <2>3, <2>7
<1>5. CASE ~W!Whole(s) /\ c # << >> /\ s[1] > MaxBytes
  <2>1. PICK h : h = [count |-> 0, cut |-> yes, long |-> yes] OBVIOUS
  <2>2. W!Head_(s) = h BY <1>2, <1>5, <2>1 DEF W!Head_
  <2>3. h.count = 0 /\ h.cut = yes /\ h.long = yes BY <2>1
  <2>4. Len(s) > 0
    <3>1. PICK d \in Seq(Nat) : d = c BY <1>1 DEF CountedIs
    <3>2. Len(d) > 0 /\ Len(d) <= Len(s) /\ Len(d) \in Nat BY <1>1, <1>5, <3>1 DEF CountedIs
    <3> QED BY <1>0, <3>2
  <2>5. << >> \in Seq(Nat) /\ W!Bytes(<< >>) = 0 /\ W!Counted(<< >>) = << >> /\ Len(<< >>) = 0
    BY DEF W!Bytes, W!Counted
  <2>6. W!Fits(W!Counted(<< >>)) BY <1>0, <2>5 DEF W!Fits
  <2>7. 0 \in 0 .. Len(s) /\ W!Bytes(<< >>) <= MaxBytes BY <1>0, <2>5
  <2>8. HeadIs(s, h) BY <1>0, <1>2, <2>3, <2>4, <2>5, <2>6, <2>7 DEF HeadIs
  <2> QED BY <2>2, <2>8
<1>6. CASE ~W!Whole(s) /\ ~(c # << >> /\ s[1] > MaxBytes)
  <2>1. PICK d \in Seq(Nat) : d = c BY <1>1 DEF CountedIs
  <2>2. PICK k \in 0 .. Len(d), by \in {"none", "lines", "bytes"} : TakenIs(d, k, by)
    BY TakenSteps
  <2>3. PICK h : h = [count |-> k, cut |-> yes, long |-> no] OBVIOUS
  <2>4. W!Head_(s) = h
    <3>1. W!Head_(s) = [count |-> W!Taken(d).count, cut |-> TRUE, long |-> FALSE]
      BY <1>6, <2>1 DEF W!Head_
    <3> QED BY <1>2, <1>3, <2>2, <2>3, <3>1 DEF TakenIs
  <2>5. h.count = k /\ h.cut = yes /\ h.long = no BY <2>3
  <2>6. Len(d) \in Nat /\ Len(d) <= Len(s) /\ d = SubSeq(s, 1, Len(d)) BY <1>1, <2>1 DEF CountedIs
  <2>7. k \in 0 .. Len(s) /\ k \in Nat /\ k <= Len(d) BY <1>0, <2>6
  <2>8. SubSeq(d, 1, k) = SubSeq(s, 1, k)
    <3>1. Len(d) \in 0 .. Len(s) /\ Len(s) \in Len(d) .. Len(s) /\ k \in k .. Len(s)
          /\ Len(d) \in k .. Len(d)
      BY <1>0, <2>6, <2>7
    <3>2. Grows(s, Len(d), Len(s)) /\ Grows(s, k, k) BY <2>7, <3>1, BytesGrow
    <3>3. Grows(d, k, Len(d)) BY <2>7, <3>1, BytesGrow
    <3>4. \A i \in 1 .. Len(d) : d[i] = s[i] BY <2>6, <3>2 DEF Grows
    <3>5. PICK p \in Seq(Nat) : p = SubSeq(d, 1, k) BY <3>3 DEF Grows
    <3>6. PICK q \in Seq(Nat) : q = SubSeq(s, 1, k) BY <3>2 DEF Grows
    <3>7. Len(p) = k /\ Len(q) = k /\ \A i \in 1 .. k : p[i] = q[i]
      BY <2>6, <2>7, <3>2, <3>3, <3>4, <3>5, <3>6 DEF Grows
    <3>8. p = q BY <3>7, SeqEqual
    <3> QED BY <3>5, <3>6, <3>8
  <2>9. PICK p \in Seq(Nat) : p = SubSeq(s, 1, k)
    <3>1. k \in k .. Len(s) BY <1>0, <2>7
    <3>2. Grows(s, k, k) BY <2>7, <3>1, BytesGrow
    <3> QED BY <3>2 DEF Grows
  <2>10. W!Bytes(p) <= MaxBytes /\ Len(p) = k /\ k <= MaxLines
    <3>1. k \in k .. Len(s) BY <1>0, <2>7
    <3>2. Grows(s, k, k) BY <2>7, <3>1, BytesGrow
    <3> QED BY <2>2, <2>8, <2>9, <3>2 DEF TakenIs, Grows
  <2>11. W!Fits(W!Counted(p))
    <3>1. CountedIs(p) BY CountedKeeps
    <3>2. PICK m \in Nat : m = Len(W!Counted(p))
      <4>1. PICK t \in Seq(Nat) : t = W!Counted(p) BY <3>1 DEF CountedIs
      <4> QED BY <4>1
    <3>3. m <= k BY <2>10, <3>1, <3>2 DEF CountedIs
    <3>4. Len(W!Counted(p)) <= MaxLines BY <1>0, <2>7, <2>10, <3>2, <3>3
    <3> QED BY <2>10, <3>4, CountedFits
  <2>12. HeadIs(s, h) BY <1>2, <1>3, <2>5, <2>7, <2>9, <2>10, <2>11 DEF HeadIs
  <2> QED BY <2>4, <2>12
<1> QED BY <1>4, <1>5, <1>6

(* The lines in reverse, and the bytes of the last ones.                     *)
EndIs(s, j) ==
  LET r == W!Reverse(s)
      t == SubSeq(s, Len(s) - j + 1, Len(s))
  IN  /\ r \in Seq(Nat) /\ Len(r) = Len(s)
      /\ t \in Seq(Nat) /\ Len(t) = j /\ W!Reverse(SubSeq(r, 1, j)) = t
      /\ W!Bytes(t) = W!Bytes(SubSeq(r, 1, j)) /\ W!Bytes(t) \in Nat
(* The lines that are taken from the end are the end of the text.            *)
LEMMA EndBytes ==
  ASSUME NEW s \in Seq(Nat), NEW j \in 0 .. Len(s)
  PROVE  EndIs(s, j)
<1> DEFINE n == Len(s)
<1>0. n \in Nat /\ j \in Nat /\ j <= n /\ n - j \in 0 .. n /\ n \in n - j .. n
      /\ n - (n - j) = j /\ 0 \in 0 .. n /\ j \in 0 .. n
  OBVIOUS
<1>1. PICK r \in Seq(Nat) : r = W!Reverse(s)
  <2>1. \A i \in 1 .. n : n - i + 1 \in 1 .. n BY <1>0
  <2>2. \A i \in 1 .. n : s[n - i + 1] \in Nat BY <2>1
  <2>3. [i \in 1 .. n |-> s[n - i + 1]] \in Seq(Nat) BY <1>0, <2>2
  <2> QED BY <2>3 DEF W!Reverse
<1>2. Len(r) = n /\ \A i \in 1 .. n : r[i] = s[n - i + 1]
  BY <1>0, <1>1 DEF W!Reverse
<1> HIDE DEF n
<1>3. PICK f : Sums(s, f) BY TotalSteps
<1>4. PICK g : Sums(r, g) BY TotalSteps
<1>5. /\ f \in [0 .. n -> Nat] /\ f[0] = 0 /\ \A k \in 1 .. n : f[k] = f[k - 1] + s[k]
      /\ g \in [0 .. n -> Nat] /\ g[0] = 0 /\ \A k \in 1 .. n : g[k] = g[k - 1] + r[k]
  BY <1>2, <1>3, <1>4 DEF Sums, n
<1> DEFINE K == {k \in 0 .. n : g[k] + f[n - k] = f[n]}
<1>6. 0 \in K
  <2>1. n - 0 = n /\ n \in 0 .. n BY <1>0
  <2>2. f[n] \in Nat BY <1>5, <2>1
  <2> QED BY <1>0, <1>5, <2>1, <2>2
<1>7. ASSUME NEW k \in 1 .. n, k - 1 \in K PROVE k \in K
  <2>1. /\ k \in 0 .. n /\ k - 1 \in 0 .. n /\ n - k \in 0 .. n /\ n - k + 1 \in 1 .. n
        /\ n - (k - 1) = n - k + 1 /\ n - k + 1 - 1 = n - k
    BY <1>0
  <2>2. f[n - k + 1] = f[n - k] + s[n - k + 1] BY <1>5, <2>1
  <2>3. g[k] = g[k - 1] + s[n - k + 1] BY <1>2, <1>5
  <2>4. g[k - 1] + f[n - k + 1] = f[n] BY <1>7, <2>1
  <2>5. PICK a \in Nat : a = g[k - 1] BY <1>5, <2>1
  <2>6. PICK b \in Nat : b = f[n - k] BY <1>5, <2>1
  <2>7. PICK d \in Nat : d = s[n - k + 1] BY <2>1 DEF n
  <2>8. \A x, y, z \in Nat : (x + z) + y = x + (y + z) OBVIOUS
  <2>9. g[k] + f[n - k] = f[n] BY <2>2, <2>3, <2>4, <2>5, <2>6, <2>7, <2>8
  <2> QED BY <2>1, <2>9
<1> HIDE DEF K
<1>8. g[j] + f[n - j] = f[n]
  <2>1. j \in K BY <1>0, <1>6, <1>7, UpTo
  <2> QED BY <2>1 DEF K
<1>9. PartIs(s, f, n - j, n) /\ PartIs(r, g, 0, j)
  <2>1. PartIs(s, f, n - j, n) BY <1>0, <1>3, PartTotal DEF n
  <2>2. 0 \in 0 .. Len(r) /\ j \in 0 .. Len(r) BY <1>0, <1>2
  <2>3. PartIs(r, g, 0, j) BY <1>4, <2>2, PartTotal
  <2> QED BY <2>1, <2>3
<1>10. PICK t \in Seq(Nat) : t = SubSeq(s, n - j + 1, n) BY <1>9 DEF PartIs
<1>11. PICK p \in Seq(Nat) : p = SubSeq(r, 1, j)
  <2>1. 0 + 1 = 1 OBVIOUS
  <2> QED BY <1>9, <2>1 DEF PartIs
<1>12. /\ Len(t) = j /\ \A k \in 1 .. j : t[k] = s[n - j + k]
       /\ W!Total(t) \in Nat /\ f[n] = f[n - j] + W!Total(t)
  BY <1>0, <1>9, <1>10 DEF PartIs
<1>13. Len(p) = j /\ (\A k \in 1 .. j : p[k] = r[k]) /\ W!Total(p) \in Nat /\ g[j] = W!Total(p)
  <2>1. 0 + 1 = 1 /\ j - 0 = j /\ \A k \in 1 .. j : 0 + k = k BY <1>0
  <2>2. Len(p) = j /\ (\A k \in 1 .. j : p[k] = r[k]) /\ W!Total(p) \in Nat
        /\ g[j] = g[0] + W!Total(p)
    BY <1>9, <1>11, <2>1 DEF PartIs
  <2> QED BY <1>5, <2>2
<1>14. W!Total(t) = W!Total(p)
  <2>1. PICK a \in Nat : a = W!Total(t) BY <1>12
  <2>2. PICK b \in Nat : b = W!Total(p) BY <1>13
  <2>3. PICK d \in Nat : d = f[n - j] BY <1>0, <1>5
  <2>4. b + d = d + a BY <1>8, <1>12, <1>13, <2>1, <2>2, <2>3
  <2>5. a = b BY <2>4
  <2> QED BY <2>1, <2>2, <2>5
<1>15. W!Bytes(t) = W!Bytes(p) /\ W!Bytes(t) \in Nat
  <2>1. (t = << >> <=> j = 0) /\ (p = << >> <=> j = 0) BY <1>0, <1>12, <1>13
  <2>2. W!Bytes(t) = W!Bytes(p) BY <1>12, <1>13, <1>14, <2>1 DEF W!Bytes
  <2>3. W!Bytes(t) \in Nat BY <1>0, <1>12, <2>1 DEF W!Bytes
  <2> QED BY <2>2, <2>3
<1>16. W!Reverse(p) = t
  <2>1. W!Reverse(p) = [i \in 1 .. j |-> p[j - i + 1]] BY <1>13 DEF W!Reverse
  <2>2. ASSUME NEW i \in 1 .. j PROVE p[j - i + 1] = t[i]
    <3>1. j - i + 1 \in 1 .. j /\ j - i + 1 \in 1 .. n /\ n - (j - i + 1) + 1 = n - j + i
      BY <1>0
    <3>2. p[j - i + 1] = r[j - i + 1] BY <1>13, <3>1
    <3>3. r[j - i + 1] = s[n - (j - i + 1) + 1] BY <1>2, <3>1
    <3> QED BY <1>12, <3>1, <3>2, <3>3
  <2>3. t = [i \in 1 .. j |-> t[i]] BY <1>12
  <2> QED BY <2>1, <2>2, <2>3
<1> QED BY <1>1, <1>2, <1>10, <1>11, <1>12, <1>15, <1>16 DEF EndIs, n

(* The end of the output is within the limits, and no longer end of it is.   *)
TailIs(s) ==
  /\ W!Bytes(W!Tail_(s)) <= MaxBytes /\ W!Fits(W!Counted(W!Tail_(s)))
  /\ \A t \in W!Suffixes(W!Counted(s)) : W!Fits(t) => Len(t) <= Len(W!Tail_(s))
(* The tail of a command's output is the longest end of it within the        *)
(* limits.                                                                   *)
LEMMA TailIsLongest ==
  ASSUME W!WindowAssumption, NEW s \in Seq(Nat)
  PROVE  TailIs(s)
<1>0. MaxBytes \in Nat /\ MaxBytes # 0 /\ MaxLines \in Nat /\ MaxLines # 0
  BY DEF W!WindowAssumption
<1>1. CountedIs(s) BY CountedKeeps
<1>2. PICK c \in Seq(Nat) : c = W!Counted(s) BY <1>1 DEF CountedIs
<1>3. Len(c) \in Nat /\ Len(c) <= Len(s) /\ Len(s) \in Nat BY <1>1, <1>2 DEF CountedIs
<1>4. ASSUME NEW t \in W!Suffixes(c)
      PROVE  \E j \in 0 .. Len(c) : t = SubSeq(c, Len(c) - j + 1, Len(c)) /\ Len(t) = j
  <2>1. CASE t = << >>
    <3>1. 0 \in 0 .. Len(c) BY <1>3
    <3>2. EndIs(c, 0) BY <3>1, EndBytes
    <3>3. PICK u \in Seq(Nat) : u = SubSeq(c, Len(c) - 0 + 1, Len(c)) /\ Len(u) = 0
      BY <3>2 DEF EndIs
    <3>4. u = << >> BY <3>3
    <3> QED BY <2>1, <3>1, <3>3, <3>4
  <2>2. CASE \E l \in 1 .. Len(c) : t = SubSeq(c, l, Len(c))
    <3>1. PICK l \in 1 .. Len(c) : t = SubSeq(c, l, Len(c)) BY <2>2
    <3>2. PICK j \in 0 .. Len(c) : j = Len(c) - l + 1 BY <1>3, <3>1
    <3>3. EndIs(c, j) BY <3>2, EndBytes
    <3>4. Len(c) - j + 1 = l BY <1>3, <3>2
    <3> QED BY <3>1, <3>3, <3>4 DEF EndIs
  <2> QED BY <2>1, <2>2 DEF W!Suffixes
<1>5. CASE W!Whole(s)
  <2>1. W!Tail_(s) = s BY <1>5 DEF W!Tail_
  <2>2. W!Fits(W!Counted(s)) /\ W!Bytes(s) <= MaxBytes BY <1>5, CountedFits DEF W!Whole
  <2>3. ASSUME NEW t \in W!Suffixes(c) PROVE Len(t) <= Len(s) BY <1>3, <1>4
  <2> QED BY <1>2, <2>1, <2>2, <2>3 DEF TailIs
<1>6. CASE ~W!Whole(s)
  <2>1. PICK r \in Seq(Nat) : r = W!Reverse(c) /\ Len(r) = Len(c)
    <3>1. 0 \in 0 .. Len(c) BY <1>3
    <3>2. EndIs(c, 0) BY <3>1, EndBytes
    <3> QED BY <3>2 DEF EndIs
  <2>2. PICK k \in 0 .. Len(r), by \in {"none", "lines", "bytes"} : TakenIs(r, k, by)
    BY TakenSteps
  <2>3. /\ W!Taken(r).count = k /\ W!Taken(r).by = by
        /\ k <= MaxLines /\ W!Bytes(SubSeq(r, 1, k)) <= MaxBytes
    BY <2>2 DEF TakenIs
  <2>4. ASSUME NEW t \in W!Suffixes(c), W!Fits(t) PROVE Len(t) <= k
    <3>1. PICK j \in 0 .. Len(c) : t = SubSeq(c, Len(c) - j + 1, Len(c)) /\ Len(t) = j
      BY <1>4
    <3>2. EndIs(c, j) BY EndBytes
    <3>3. j <= MaxLines /\ W!Bytes(SubSeq(r, 1, j)) <= MaxBytes
      BY <2>1, <2>4, <3>1, <3>2 DEF EndIs, W!Fits
    <3>4. CASE by = "none" BY <1>3, <2>1, <2>2, <3>1, <3>4 DEF TakenIs
    <3>5. CASE by = "lines" BY <2>2, <3>1, <3>3, <3>5 DEF TakenIs
    <3>6. CASE by = "bytes"
      <4>1. k < Len(r) /\ ~(W!Bytes(SubSeq(r, 1, k + 1)) <= MaxBytes)
        BY <2>2, <3>6 DEF TakenIs
      <4>2. SUFFICES ASSUME ~(j <= k) PROVE FALSE BY <3>1
      <4>3. k + 1 \in 0 .. Len(r) /\ j \in k + 1 .. Len(r) BY <1>3, <2>1, <4>1, <4>2
      <4>4. Grows(r, k + 1, j) BY <4>3, BytesGrow
      <4>5. PICK a \in Nat : a = W!Bytes(SubSeq(r, 1, k + 1)) BY <4>4 DEF Grows
      <4>6. PICK b \in Nat : b = W!Bytes(SubSeq(r, 1, j)) BY <4>4 DEF Grows
      <4>7. a <= b /\ b <= MaxBytes /\ ~(a <= MaxBytes)
        BY <3>3, <4>1, <4>4, <4>5, <4>6 DEF Grows
      <4> QED BY <1>0, <4>7
    <3> QED BY <3>4, <3>5, <3>6
  <2>5. CASE k = 0 /\ by = "bytes"
    <3>1. <<MaxBytes>> \in Seq(Nat) BY <1>0
    <3>2. PICK d \in Seq(Nat) : d = <<MaxBytes>> BY <3>1
    <3>3. W!Tail_(s) = d BY <1>2, <1>6, <2>1, <2>3, <2>5, <3>2 DEF W!Tail_
    <3>4. Len(d) = 1 /\ d[1] = MaxBytes /\ d # << >> BY <3>2
    <3>5. W!Counted(d) = d BY <1>0, <3>4 DEF W!Counted, W!Last
    <3>6. W!Bytes(d) = MaxBytes
      <4>1. PICK f : Sums(d, f) BY TotalSteps
      <4>2. f[0] = 0 /\ W!Total(d) = f[1] /\ f[1] = f[1 - 1] + d[1]
        <5>1. 1 \in 1 .. Len(d) BY <3>4
        <5> QED BY <3>4, <4>1, <5>1 DEF Sums
      <4>3. 1 - 1 = 0 OBVIOUS
      <4>4. W!Total(d) = 0 + MaxBytes BY <3>4, <4>2, <4>3
      <4>5. W!Bytes(d) = W!Total(d) + (1 - 1) BY <3>4 DEF W!Bytes
      <4> QED BY <1>0, <4>4, <4>5
    <3>7. W!Fits(d) BY <1>0, <3>4, <3>6 DEF W!Fits
    <3>8. W!Bytes(d) <= MaxBytes BY <1>0, <3>6
    <3>9. ASSUME NEW t \in W!Suffixes(c), W!Fits(t) PROVE Len(t) <= 1
      <4>1. PICK j \in 0 .. Len(c) : Len(t) = j BY <1>4
      <4>2. j <= 0 BY <2>4, <2>5, <3>9, <4>1
      <4> QED BY <4>1, <4>2
    <3> QED BY <1>2, <3>3, <3>4, <3>5, <3>7, <3>8, <3>9 DEF TailIs
  <2>6. CASE ~(k = 0 /\ by = "bytes")
    <3>1. k \in 0 .. Len(c) /\ k \in Nat BY <2>1, <2>2
    <3>2. EndIs(c, k) BY <3>1, EndBytes
    <3>3. PICK d \in Seq(Nat) : d = SubSeq(c, Len(c) - k + 1, Len(c)) BY <3>2 DEF EndIs
    <3>4. W!Tail_(s) = d
      <4>1. W!Tail_(s) = W!Reverse(SubSeq(r, 1, k))
        BY <1>2, <1>6, <2>1, <2>3, <2>6 DEF W!Tail_
      <4> QED BY <2>1, <3>2, <3>3, <4>1 DEF EndIs
    <3>5. Len(d) = k /\ W!Bytes(d) <= MaxBytes BY <2>1, <2>3, <3>2, <3>3 DEF EndIs
    <3>6. W!Fits(W!Counted(d))
      <4>1. CountedIs(d) BY CountedKeeps
      <4>2. PICK u \in Seq(Nat) : u = W!Counted(d) BY <4>1 DEF CountedIs
      <4>3. Len(u) \in Nat /\ Len(u) <= k BY <3>5, <4>1, <4>2 DEF CountedIs
      <4>4. Len(W!Counted(d)) <= MaxLines BY <1>0, <2>3, <3>1, <4>2, <4>3
      <4> QED BY <3>5, <4>4, CountedFits
    <3> QED BY <1>2, <2>4, <3>4, <3>5, <3>6 DEF TailIs
  <2> QED BY <2>5, <2>6
<1> QED BY <1>5, <1>6

-----------------------------------------------------------------------------
(* Every line up to the next offset was shown, each once.                    *)
PagesInv ==
  /\ text \in Seq(Nat) /\ text # << >>
  /\ offset = None \/ offset \in Nat \ {0}
  /\ ended \in BOOLEAN
  /\ \E k \in 0 .. Len(text) :
       /\ seen = [n \in 1 .. k |-> n]
       /\ IF ended THEN k = Len(text) ELSE W!Start = k + 1
  /\ W!WithinLimits

(* The end of what is selected.                                              *)
SelectedIs(limit, last) ==
  /\ last \in W!Start .. Len(text) /\ W!Selected(limit) = SubSeq(text, W!Start, last)
  /\ limit = None => last = Len(text)
(* What a call selects is a part of the text from its offset on.             *)
LEMMA SelectedLines ==
  ASSUME W!WindowAssumption, text \in Seq(Nat), NEW limit \in Limits,
         W!Start \in Nat \ {0}, W!Start <= Len(text)
  PROVE  \E last : SelectedIs(limit, last)
<1>0. Len(text) \in Nat OBVIOUS
<1>1. CASE limit = None
  <2>1. SelectedIs(limit, Len(text)) BY <1>0, <1>1 DEF SelectedIs, W!Selected
  <2> QED BY <2>1
<1>2. CASE limit # None
  <2>1. limit \in Nat \ {0} BY <1>2 DEF W!WindowAssumption
  <2>2. PICK a \in Nat : a = W!Start + limit - 1 BY <2>1
  <2>3. W!Start <= a BY <2>1, <2>2
  <2>4. PICK m \in {a, Len(text)} : m <= a /\ m <= Len(text)
    <3>1. CASE a <= Len(text) BY <2>2, <3>1
    <3>2. CASE ~(a <= Len(text)) BY <1>0, <2>2, <3>2
    <3> QED BY <3>1, <3>2
  <2>5. W!Min({a, Len(text)}) = m
    <3>1. \A y \in {a, Len(text)} : m <= y BY <2>4
    <3>2. \A x \in {a, Len(text)} : (\A y \in {a, Len(text)} : x <= y) => x = m
      BY <1>0, <2>2, <2>4
    <3> QED BY <3>1, <3>2 DEF W!Min
  <2>6. SelectedIs(limit, m)
    <3>1. m \in W!Start .. Len(text) BY <1>0, <2>2, <2>3, <2>4
    <3> QED BY <1>2, <2>2, <2>5, <3>1 DEF SelectedIs, W!Selected
  <2> QED BY <2>6
<1> QED BY <1>1, <1>2

(* A page follows what was shown, and its lines are within the limits.       *)
LEMMA ReadKeeps ==
  ASSUME W!WindowAssumption, PagesInv, NEW limit \in Limits, W!Read(limit)
  PROVE  PagesInv'
<1> DEFINE h == W!Head_(W!Selected(limit))
           after == W!Start + (IF h.long THEN 1 ELSE h.count)
           next == IF h.cut THEN after
                   ELSE IF limit # None /\ after <= Len(text) THEN after ELSE None
<1>1. /\ ~ended /\ W!Start <= Len(text)
      /\ page' = [lines |-> SubSeq(W!Selected(limit), 1, h.count), next |-> next]
      /\ seen' = seen \o [n \in 1 .. after - W!Start |-> W!Start + n - 1]
      /\ offset' = next /\ ended' = (next = None) /\ text' = text
  BY DEF W!Read
<1>2. text \in Seq(Nat) /\ text # << >> /\ Len(text) \in Nat /\ W!WithinLimits BY DEF PagesInv
<1>3. PICK k \in 0 .. Len(text) : seen = [n \in 1 .. k |-> n] /\ W!Start = k + 1
  BY <1>1 DEF PagesInv
<1>4. k \in Nat /\ W!Start \in Nat \ {0} /\ None \notin Nat BY <1>3 DEF W!WindowAssumption
<1>5. PICK last : SelectedIs(limit, last) BY <1>1, <1>2, <1>4, SelectedLines
<1>6. /\ last \in k + 1 .. Len(text) /\ W!Selected(limit) = SubSeq(text, k + 1, last)
      /\ limit = None => last = Len(text)
  BY <1>3, <1>5 DEF SelectedIs
<1>7. last \in Nat /\ last \in k .. Len(text) /\ last <= Len(text) /\ k < last BY <1>2, <1>4, <1>6
<1>8. PICK s \in Seq(Nat) : s = W!Selected(limit) /\ Len(s) = last - k
  <2>1. PICK f : Sums(text, f) BY <1>2, TotalSteps
  <2>2. PartIs(text, f, k, last) BY <1>2, <1>7, <2>1, PartTotal
  <2> QED BY <1>6, <2>2 DEF PartIs
<1>9. HeadIs(s, W!Head_(s)) BY HeadKeepsLimits
<1>10. HeadIs(s, h) BY <1>8, <1>9
<1> HIDE DEF h
<1>11. /\ h.count \in 0 .. last - k /\ h.long \in BOOLEAN /\ h.cut \in BOOLEAN
       /\ ~h.cut => h.count = last - k /\ ~h.long
       /\ W!Bytes(SubSeq(s, 1, h.count)) <= MaxBytes
       /\ W!Fits(W!Counted(SubSeq(s, 1, h.count)))
  BY <1>8, <1>10 DEF HeadIs
<1>12. PICK m \in Nat : m = IF h.long THEN 1 ELSE h.count BY <1>11
<1>13. m <= last - k
  <2>1. last - k \in Nat /\ 1 <= last - k BY <1>4, <1>7
  <2> QED BY <1>11, <1>12, <2>1
<1>14. after = k + 1 + m BY <1>3, <1>12
<1> HIDE DEF after
<1>15. PICK j \in 0 .. Len(text) : j = k + m BY <1>2, <1>4, <1>7, <1>13
<1>16. after = j + 1 /\ after - W!Start = m /\ j \in Nat
  <2>1. after = j + 1 BY <1>4, <1>14, <1>15
  <2>2. k + 1 + m - (k + 1) = m BY <1>4
  <2> QED BY <1>3, <1>14, <1>15, <2>1, <2>2
<1>17. seen' = [n \in 1 .. j |-> n]
  <2>1. seen' = [n \in 1 .. k |-> n] \o [n \in 1 .. m |-> k + 1 + n - 1] BY <1>1, <1>3, <1>16
  <2>2. PICK a : a = [n \in 1 .. k |-> n] OBVIOUS
  <2>3. PICK b : b = [n \in 1 .. m |-> k + 1 + n - 1] OBVIOUS
  <2>4. a \in Seq(Nat) /\ Len(a) = k BY <1>4, <2>2
  <2>5. b \in Seq(Nat) /\ Len(b) = m
    <3>1. \A n \in 1 .. m : k + 1 + n - 1 \in Nat BY <1>4
    <3> QED BY <2>3, <3>1
  <2>6. /\ Len(a \o b) = Len(a) + Len(b) /\ a \o b \in Seq(Nat)
        /\ \A n \in 1 .. Len(a) + Len(b) : (a \o b)[n] = IF n <= Len(a) THEN a[n] ELSE b[n - Len(a)]
    BY <2>4, <2>5, ConcatProperties
  <2>7. PICK c \in Seq(Nat) : c = a \o b BY <2>6
  <2>8. /\ Len(c) = j
        /\ \A n \in 1 .. j : c[n] = IF n <= k THEN a[n] ELSE b[n - k]
    BY <1>15, <2>4, <2>5, <2>6, <2>7
  <2>9. ASSUME NEW n \in 1 .. j PROVE c[n] = n
    <3>1. CASE n <= k
      <4>1. n \in 1 .. k BY <3>1
      <4> QED BY <2>2, <2>8, <3>1, <4>1
    <3>2. CASE ~(n <= k)
      <4>1. n - k \in 1 .. m /\ k + 1 + (n - k) - 1 = n BY <1>4, <1>15, <3>2
      <4> QED BY <2>3, <2>8, <3>2, <4>1
    <3> QED BY <3>1, <3>2
  <2>10. c = [n \in 1 .. j |-> c[n]] BY <2>8
  <2>11. c = [n \in 1 .. j |-> n] BY <2>9, <2>10
  <2> QED BY <2>1, <2>2, <2>3, <2>7, <2>11
<1>18. CASE next = None
  <2>1. ~h.cut /\ ~(limit # None /\ after <= Len(text)) BY <1>4, <1>16, <1>18
  <2>2. m = last - k BY <1>11, <1>12, <2>1
  <2>3. j = last BY <1>4, <1>7, <1>15, <2>2
  <2>4. last = Len(text)
    <3>1. CASE limit = None BY <1>6, <3>1
    <3>2. CASE limit # None BY <1>2, <1>7, <1>16, <2>1, <2>3, <3>2
    <3> QED BY <3>1, <3>2
  <2>5. ended' /\ ended' \in BOOLEAN /\ offset' = None BY <1>1, <1>18
  <2> HIDE DEF next
  <2> QED BY <1>1, <1>2, <1>11, <1>8, <1>17, <2>3, <2>4, <2>5 DEF PagesInv, W!WithinLimits
<1>19. CASE next # None
  <2>1. next = j + 1 BY <1>16, <1>19
  <2>2. ~ended' /\ ended' \in BOOLEAN /\ offset' = j + 1 BY <1>1, <1>19, <2>1
  <2>3. W!Start' = j + 1 /\ j + 1 \in Nat \ {0}
    <3>1. j + 1 \in Nat \ {0} BY <1>16
    <3>2. offset' # None BY <1>4, <2>2, <3>1
    <3> QED BY <2>2, <3>1, <3>2 DEF W!Start
  <2> HIDE DEF next
  <2> QED BY <1>1, <1>2, <1>11, <1>8, <1>17, <2>2, <2>3 DEF PagesInv, W!WithinLimits
<1> QED BY <1>18, <1>19

(* An offset past the end changes nothing of it.                             *)
LEMMA PagesNext ==
  ASSUME W!WindowAssumption, PagesInv, [W!Next]_(W!vars)
  PROVE  PagesInv'
<1>1. ASSUME NEW limit \in Limits, W!Read(limit) PROVE PagesInv' BY <1>1, ReadKeeps
<1>2. CASE W!Beyond
  <2>1. ~ended /\ W!Start > Len(text) /\ ended' = TRUE /\ UNCHANGED <<text, offset, seen, page>>
    BY <1>2 DEF W!Beyond
  <2>2. PICK k \in 0 .. Len(text) : seen = [n \in 1 .. k |-> n] /\ W!Start = k + 1
    BY <2>1 DEF PagesInv
  <2>3. k = Len(text)
    <3>1. Len(text) \in Nat BY DEF PagesInv
    <3> QED BY <2>1, <2>2, <3>1
  <2>4. ended' \in BOOLEAN /\ ended' BY <2>1
  <2> QED BY <2>1, <2>2, <2>3, <2>4 DEF PagesInv, W!WithinLimits
<1>3. CASE UNCHANGED W!vars
  BY <1>3 DEF W!vars, PagesInv, W!WithinLimits, W!Start
<1> QED BY <1>1, <1>2, <1>3 DEF W!Next

(* A file is read as a whole, each line once and in order, through pages of  *)
(* which none is too large, and the end of a command's output is the longest *)
(* one that is not: for any files, limits of a call and limits of a page.    *)
THEOREM PagesAlwaysCoverFile == Spec => []PagesCoverFile
<1>1. Init => PagesInv
  <2> SUFFICES ASSUME W!Init PROVE PagesInv BY DEF Init
  <2>1. text \in Seq(Nat) /\ text # << >> /\ Len(text) \in Nat
    BY PartsAssumption DEF W!Init, W!WindowAssumption
  <2>2. offset = None /\ seen = << >> /\ page = W!NoPage /\ ended = FALSE BY DEF W!Init
  <2>3. W!WithinLimits
    <3>1. TailIs(text) BY <2>1, PartsAssumption, TailIsLongest
    <3>2. page.lines = << >> BY <2>2 DEF W!NoPage
    <3>3. W!Bytes(<< >>) = 0 /\ W!Counted(<< >>) = << >> /\ Len(<< >>) = 0
      BY DEF W!Bytes, W!Counted
    <3>4. W!Bytes(page.lines) <= MaxBytes /\ W!Fits(W!Counted(page.lines))
      BY <3>2, <3>3, PartsAssumption DEF W!Fits, W!WindowAssumption
    <3> QED BY <3>1, <3>4 DEF TailIs, W!WithinLimits
  <2>4. 0 \in 0 .. Len(text) /\ seen = [n \in 1 .. 0 |-> n] /\ W!Start = 0 + 1
    BY <2>1, <2>2 DEF W!Start
  <2> QED BY <2>1, <2>2, <2>3, <2>4 DEF PagesInv
<1>2. PagesInv /\ [Next]_vars => PagesInv'
  <2> SUFFICES ASSUME PagesInv, [Next]_vars PROVE PagesInv' OBVIOUS
  <2>1. [W!Next]_(W!vars) BY DEF Next, vars, windowVars, W!vars
  <2> QED BY <2>1, PartsAssumption, PagesNext
<1>3. PagesInv => PagesCoverFile
  <2> SUFFICES ASSUME PagesInv PROVE W!EveryLineOnce BY DEF PagesCoverFile, W!PagesCoverFile, PagesInv
  <2>1. PICK k \in 0 .. Len(text) :
          seen = [n \in 1 .. k |-> n] /\ (ended => k = Len(text))
    BY DEF PagesInv
  <2>2. Len(seen) = k BY <2>1
  <2> QED BY <2>1, <2>2 DEF W!EveryLineOnce
<1> QED BY <1>1, <1>2, <1>3, PTL DEF Spec

-----------------------------------------------------------------------------
(***************************************************************************)
(* ProviderStream: the blocks, the pieces and the events of one request.   *)
(***************************************************************************)
(* Two functions made by the same steps agree.                               *)
Made(n, st, f) == \A k \in 1 .. n : f[k] = st[<<k, f[k - 1]>>]
(* By induction over the steps.                                              *)
LEMMA SameSteps ==
  ASSUME NEW n \in Nat, NEW f, NEW g, NEW st, f[0] = g[0], Made(n, st, f), Made(n, st, g)
  PROVE  f[n] = g[n]
<1> DEFINE T == {k \in 0 .. n : f[k] = g[k]}
<1>1. 0 \in T OBVIOUS
<1>2. ASSUME NEW k \in 1 .. n, k - 1 \in T PROVE k \in T
  <2>1. k \in 0 .. n /\ f[k - 1] = g[k - 1] BY <1>2
  <2>2. f[k] = st[<<k, f[k - 1]>>] /\ g[k] = st[<<k, g[k - 1]>>] BY DEF Made
  <2>3. f[k] = g[k] BY <2>1, <2>2, Zenon
  <2> QED BY <2>1, <2>3
<1> HIDE DEF T
<1>3. \A k \in 0 .. n : k \in T BY <1>1, <1>2, UpTo
<1>4. n \in 0 .. n OBVIOUS
<1> QED BY <1>3, <1>4 DEF T

(* What has been joined, part by part.                                       *)
Joins(U, ps, f) ==
  /\ f \in [0 .. Len(ps) -> Seq(U)] /\ f[0] = << >> /\ P!FlattenSeq(ps) = f[Len(ps)]
  /\ \A k \in 1 .. Len(ps) : f[k] = f[k - 1] \o ps[k]

(* The first steps of the library's definition.                              *)
LEMMA FlattenSteps ==
  ASSUME NEW U, NEW ps \in Seq(Seq(U))
  PROVE  \E f : Joins(U, ps, f)
<1> DEFINE n == Len(ps)
           Q(g) == g = [i \in 1 .. Len(ps) |-> IF i = 1 THEN ps[i] ELSE g[i - 1] \o ps[i]]
           F == CHOOSE g : Q(g)
           st == [x \in (1 .. n) \X Seq(U) |-> x[2] \o ps[x[1]]]
<1>1. n \in Nat OBVIOUS
<1>2. \A k \in 1 .. n : ps[k] \in Seq(U) OBVIOUS
<1>3. \A k \in 1 .. n : \A v \in Seq(U) : st[<<k, v>>] \in Seq(U) /\ st[<<k, v>>] = v \o ps[k]
  <2> TAKE k \in 1 .. n
  <2> TAKE v \in Seq(U)
  <2>1. v \o ps[k] \in Seq(U) BY <1>2
  <2> QED BY <2>1
<1>4. << >> \in Seq(U) OBVIOUS
<1> HIDE DEF st, n
<1>5. Stepwise(n, Seq(U), << >>, st)
  BY <1>1, <1>3, <1>4, Recursion, Zenon
<1>6. PICK f \in [0 .. n -> Seq(U)] :
        f[0] = << >> /\ \A k \in 1 .. n : f[k] = st[<<k, f[k - 1]>>]
  BY <1>5 DEF Stepwise
<1>7. \A k \in 1 .. n : f[k - 1] \in Seq(U) /\ f[k] \in Seq(U) /\ f[k] = f[k - 1] \o ps[k]
  <2> TAKE k \in 1 .. n
  <2>1. k - 1 \in 0 .. n /\ k \in 0 .. n BY <1>1
  <2>2. f[k - 1] \in Seq(U) /\ f[k] \in Seq(U) BY <1>6, <2>1
  <2> QED BY <1>3, <1>6, <2>2
<1> DEFINE h == [k \in 1 .. n |-> f[k]]
<1>8. \A i \in 1 .. n : h[i] = IF i = 1 THEN ps[i] ELSE h[i - 1] \o ps[i]
  <2> TAKE i \in 1 .. n
  <2>1. CASE i = 1
    <3>1. f[i] = f[i - 1] \o ps[i] BY <1>7, Zenon
    <3>2. i - 1 = 0 /\ f[i - 1] = << >> BY <1>6, <2>1
    <3>3. << >> \o ps[i] = ps[i] BY <1>2
    <3>4. f[i] = ps[i] BY <3>1, <3>2, <3>3
    <3> QED BY <2>1, <3>4
  <2>2. CASE i # 1
    <3>1. i - 1 \in 1 .. n BY <1>1, <2>2
    <3> QED BY <1>7, <2>2, <3>1
  <2> QED BY <2>1, <2>2
<1>9. Q(h)
  <2>1. h = [i \in 1 .. n |-> h[i]] OBVIOUS
  <2> HIDE DEF h
  <2> QED BY <1>8, <2>1 DEF n
<1> HIDE DEF Q
<1>10. Q(F) BY <1>9, Zenon
<1> HIDE DEF F, h
<1>11. F = [i \in 1 .. n |-> IF i = 1 THEN ps[i] ELSE F[i - 1] \o ps[i]] BY <1>10 DEF Q, n
<1> DEFINE T == {k \in 0 .. n : k # 0 => F[k] = f[k]}
<1>12. 0 \in T BY <1>1
<1>13. ASSUME NEW k \in 1 .. n, k - 1 \in T PROVE k \in T
  <2>1. k \in 0 .. n BY <1>1
  <2>2. CASE k = 1
    <3>1. F[k] = ps[k] BY <1>11, <2>2
    <3>2. f[k] = f[k - 1] \o ps[k] BY <1>7, Zenon
    <3>3. k - 1 = 0 /\ f[k - 1] = << >> BY <1>6, <2>2
    <3>4. << >> \o ps[k] = ps[k] BY <1>2
    <3> QED BY <2>1, <3>2, <3>1, <3>3, <3>4
  <2>3. CASE k # 1
    <3>1. F[k - 1] = f[k - 1] BY <1>1, <1>13, <2>3
    <3>2. F[k] = F[k - 1] \o ps[k] BY <1>11, <2>3
    <3> QED BY <1>7, <2>1, <3>1, <3>2
  <2> QED BY <2>2, <2>3
<1> HIDE DEF T
<1>14. \A k \in 0 .. n : k \in T BY <1>1, <1>12, <1>13, UpTo
<1>15. P!FlattenSeq(ps) = f[n]
  <2>1. CASE n = 0
    <3>1. ps = << >> BY <2>1 DEF n
    <3>2. P!FlattenSeq(ps) = ps BY <2>1 DEF P!FlattenSeq, n
    <3> QED BY <1>6, <2>1, <3>1, <3>2
  <2>2. CASE n # 0
    <3>1. P!FlattenSeq(ps) = F[n] BY <2>2, Zenon DEF P!FlattenSeq, F, Q, n
    <3>2. n \in 0 .. n /\ n \in T BY <1>1, <1>14
    <3> QED BY <2>2, <3>1, <3>2 DEF T
  <2> QED BY <2>1, <2>2
<1>16. Joins(U, ps, f) BY <1>6, <1>7, <1>15 DEF Joins, n
<1> QED BY <1>16

(* One more part is joined at the end.                                       *)
Joined(U, ps, p) ==
  /\ P!FlattenSeq(ps) \in Seq(U)
  /\ P!FlattenSeq(Append(ps, p)) = P!FlattenSeq(ps) \o p
(* FlattenSeq of one more sequence.                                          *)
LEMMA FlattenAppend ==
  ASSUME NEW U, NEW ps \in Seq(Seq(U)), NEW p \in Seq(U)
  PROVE  Joined(U, ps, p)
<1>1. PICK m \in Nat : m = Len(ps) OBVIOUS
<1>2. PICK qs \in Seq(Seq(U)) : qs = Append(ps, p) BY AppendProperties
<1>3. Len(qs) = m + 1 /\ qs[m + 1] = p /\ \A k \in 1 .. m : qs[k] = ps[k] BY <1>1, <1>2
<1>4. PICK f : Joins(U, ps, f) BY FlattenSteps
<1>5. PICK g : Joins(U, qs, g) BY FlattenSteps
<1>6. /\ f \in [0 .. m -> Seq(U)] /\ f[0] = << >> /\ P!FlattenSeq(ps) = f[m]
      /\ \A k \in 1 .. m : f[k] = f[k - 1] \o ps[k]
  BY <1>1, <1>4 DEF Joins
<1>7. /\ g \in [0 .. m + 1 -> Seq(U)] /\ g[0] = << >> /\ P!FlattenSeq(qs) = g[m + 1]
      /\ \A k \in 1 .. m + 1 : g[k] = g[k - 1] \o qs[k]
  BY <1>3, <1>5 DEF Joins
<1> DEFINE st == [x \in (1 .. m) \X Seq(U) |-> x[2] \o ps[x[1]]]
<1>8. \A k \in 1 .. m : \A v \in Seq(U) : st[<<k, v>>] = v \o ps[k] OBVIOUS
<1> HIDE DEF st
<1>9. \A k \in 1 .. m : f[k] = st[<<k, f[k - 1]>>]
  <2> TAKE k \in 1 .. m
  <2>1. k - 1 \in 0 .. m OBVIOUS
  <2>2. f[k - 1] \in Seq(U) BY <1>6, <2>1
  <2> QED BY <1>6, <1>8, <2>2
<1>10. \A k \in 1 .. m : g[k] = st[<<k, g[k - 1]>>]
  <2> TAKE k \in 1 .. m
  <2>1. k - 1 \in 0 .. m + 1 /\ k \in 1 .. m + 1 OBVIOUS
  <2>2. g[k - 1] \in Seq(U) BY <1>7, <2>1
  <2>3. g[k] = g[k - 1] \o ps[k] BY <1>3, <1>7, <2>1
  <2> QED BY <1>8, <2>2, <2>3
<1>11. f[m] = g[m]
  <2>1. f[0] = g[0] BY <1>6, <1>7
  <2>2. Made(m, st, f) /\ Made(m, st, g) BY <1>9, <1>10 DEF Made
  <2> QED BY <2>1, <2>2, SameSteps, Zenon
<1>12. g[m + 1] = g[m] \o p
  <2>1. PICK k \in 1 .. m + 1 : k = m + 1 OBVIOUS
  <2>2. g[k] = g[k - 1] \o qs[k] BY <1>7, Zenon
  <2>3. k - 1 = m /\ qs[k] = p BY <1>3, <2>1
  <2> QED BY <2>1, <2>2, <2>3
<1>13. f[m] \in Seq(U)
  <2>1. m \in 0 .. m OBVIOUS
  <2> QED BY <1>6, <2>1
<1> QED BY <1>2, <1>6, <1>7, <1>11, <1>12, <1>13 DEF Joined

(* Nothing of empty parts.                                                   *)
LEMMA FlattenNothing ==
  ASSUME NEW U, NEW ps \in Seq(Seq(U)), \A k \in 1 .. Len(ps) : ps[k] = << >>
  PROVE  P!FlattenSeq(ps) = << >>
<1>1. PICK f : Joins(U, ps, f) BY FlattenSteps
<1>2. PICK n \in Nat : n = Len(ps) OBVIOUS
<1>3. /\ f[0] = << >> /\ P!FlattenSeq(ps) = f[n]
      /\ \A k \in 1 .. n : f[k] = f[k - 1] \o ps[k]
  BY <1>1, <1>2 DEF Joins
<1> DEFINE T == {k \in 0 .. n : f[k] = << >>}
<1>4. 0 \in T BY <1>3
<1>5. ASSUME NEW k \in 1 .. n, k - 1 \in T PROVE k \in T
  <2>1. f[k - 1] = << >> /\ k \in 0 .. n BY <1>5
  <2>2. f[k] = << >> \o << >> BY <1>2, <1>3, <2>1
  <2>3. << >> \o << >> = << >> OBVIOUS
  <2> QED BY <2>1, <2>2, <2>3
<1> HIDE DEF T
<1>6. \A k \in 0 .. n : k \in T BY <1>4, <1>5, UpTo
<1>7. n \in 0 .. n OBVIOUS
<1>8. f[n] = << >> BY <1>6, <1>7 DEF T
<1> QED BY <1>3, <1>8

-----------------------------------------------------------------------------
Kinds   == {"text", "thinking", "tool"}
Pieces  == Nat \X Nat
Blocks  == [kind : Kinds, pieces : Seq(Pieces)]
Events  == [type : {"start", "begin", "delta", "end", "done", "error"}, at : Nat]
Streams == [blocks : Seq(Blocks), open : Nat, started : BOOLEAN,
            ending : {"none", "done", "error"}, out : Seq(Events)]
Marks   == {"nothing", "between", "inside", "over", "broken"}

(* What a reader makes of one event after another.                           *)
Reading(out, f) ==
  /\ f \in [0 .. Len(out) -> Marks] /\ f[0] = "nothing" /\ P!Grammar(out) = f[Len(out)]
  /\ \A k \in 1 .. Len(out) : f[k] = P!Expected(f[k - 1], out[k])

(* Grammar reads one event after another.                                    *)
LEMMA ReadingSteps ==
  ASSUME NEW out \in Seq(Events)
  PROVE  \E f : Reading(out, f)
<1> DEFINE n == Len(out)
           Q(g) == g = [k \in 0 .. Len(out) |->
                          IF k = 0 THEN "nothing" ELSE P!Expected(g[k - 1], out[k])]
           F == CHOOSE g : Q(g)
           st == [x \in (1 .. n) \X Marks |-> P!Expected(x[2], out[x[1]])]
<1>1. n \in Nat OBVIOUS
<1>2. \A m \in Marks : \A e : P!Expected(m, e) \in Marks BY DEF P!Expected, Marks
<1>3. \A k \in 1 .. n : \A m \in Marks :
        st[<<k, m>>] \in Marks /\ st[<<k, m>>] = P!Expected(m, out[k])
  BY <1>2
<1>4. "nothing" \in Marks BY DEF Marks
<1> HIDE DEF st, n
<1>5. Stepwise(n, Marks, "nothing", st) BY <1>1, <1>3, <1>4, Recursion, Zenon
<1>6. PICK f \in [0 .. n -> Marks] :
        f[0] = "nothing" /\ \A k \in 1 .. n : f[k] = st[<<k, f[k - 1]>>]
  BY <1>5 DEF Stepwise
<1>7. \A k \in 1 .. n : f[k] = P!Expected(f[k - 1], out[k])
  <2> TAKE k \in 1 .. n
  <2>1. k - 1 \in 0 .. n BY <1>1
  <2>2. f[k - 1] \in Marks BY <1>6, <2>1
  <2> QED BY <1>3, <1>6, <2>2
<1>8. \A k \in 0 .. n : f[k] = IF k = 0 THEN "nothing" ELSE P!Expected(f[k - 1], out[k])
  <2> TAKE k \in 0 .. n
  <2>1. CASE k = 0 BY <1>6, <2>1
  <2>2. CASE k # 0
    <3>1. k \in 1 .. n BY <1>1, <2>2
    <3> QED BY <1>7, <2>2, <3>1
  <2> QED BY <2>1, <2>2
<1>9. Q(f) BY <1>6, <1>8, Zenon DEF n
<1> HIDE DEF Q
<1>10. Q(F) BY <1>9, Zenon
<1> HIDE DEF F
<1>11. F = [k \in 0 .. n |-> IF k = 0 THEN "nothing" ELSE P!Expected(F[k - 1], out[k])]
  BY <1>10 DEF Q, n
<1>12. F[0] = "nothing" BY <1>1, <1>11
<1>13. \A k \in 1 .. n : F[k] = P!Expected(F[k - 1], out[k])
  <2> TAKE k \in 1 .. n
  <2>1. k \in 0 .. n /\ k # 0 BY <1>1
  <2> QED BY <1>11, <2>1
<1> DEFINE K == {k \in 0 .. n : F[k] \in Marks}
<1>14. 0 \in K BY <1>1, <1>4, <1>12
<1>15. ASSUME NEW k \in 1 .. n, k - 1 \in K PROVE k \in K
  <2>1. k \in 0 .. n /\ F[k - 1] \in Marks BY <1>1, <1>15
  <2> QED BY <1>2, <1>13, <2>1
<1> HIDE DEF K
<1>16. \A k \in 0 .. n : k \in K BY <1>1, <1>14, <1>15, UpTo
<1>17. F \in [0 .. n -> Marks] BY <1>11, <1>16 DEF K
<1>18. P!Grammar(out) = F[n] BY Zenon DEF P!Grammar, F, Q, n
<1>19. Reading(out, F) BY <1>12, <1>13, <1>17, <1>18 DEF Reading, n
<1> QED BY <1>19

(* One more event.                                                           *)
ReadOn(out, e) ==
  /\ P!Grammar(out) \in Marks
  /\ P!Grammar(Append(out, e)) = P!Expected(P!Grammar(out), e)
(* Grammar of one more event.                                                *)
LEMMA GrammarAppend ==
  ASSUME NEW out \in Seq(Events), NEW e \in Events
  PROVE  ReadOn(out, e)
<1>1. PICK m \in Nat : m = Len(out) OBVIOUS
<1>2. PICK o2 \in Seq(Events) : o2 = Append(out, e) BY AppendProperties
<1>3. Len(o2) = m + 1 /\ o2[m + 1] = e /\ \A k \in 1 .. m : o2[k] = out[k] BY <1>1, <1>2
<1>4. PICK f : Reading(out, f) BY ReadingSteps
<1>5. PICK g : Reading(o2, g) BY ReadingSteps
<1>6. /\ f \in [0 .. m -> Marks] /\ f[0] = "nothing" /\ P!Grammar(out) = f[m]
      /\ \A k \in 1 .. m : f[k] = P!Expected(f[k - 1], out[k])
  BY <1>1, <1>4 DEF Reading
<1>7. /\ g \in [0 .. m + 1 -> Marks] /\ g[0] = "nothing" /\ P!Grammar(o2) = g[m + 1]
      /\ \A k \in 1 .. m + 1 : g[k] = P!Expected(g[k - 1], o2[k])
  BY <1>3, <1>5 DEF Reading
<1> DEFINE st == [x \in (1 .. m) \X Marks |-> P!Expected(x[2], out[x[1]])]
<1>8. \A k \in 1 .. m : \A v \in Marks : st[<<k, v>>] = P!Expected(v, out[k]) OBVIOUS
<1> HIDE DEF st
<1>9. Made(m, st, f)
  <2> SUFFICES ASSUME NEW k \in 1 .. m PROVE f[k] = st[<<k, f[k - 1]>>] BY DEF Made
  <2>1. k - 1 \in 0 .. m OBVIOUS
  <2>2. f[k - 1] \in Marks BY <1>6, <2>1
  <2> QED BY <1>6, <1>8, <2>2
<1>10. Made(m, st, g)
  <2> SUFFICES ASSUME NEW k \in 1 .. m PROVE g[k] = st[<<k, g[k - 1]>>] BY DEF Made
  <2>1. k - 1 \in 0 .. m + 1 /\ k \in 1 .. m + 1 OBVIOUS
  <2>2. g[k - 1] \in Marks BY <1>7, <2>1
  <2>3. g[k] = P!Expected(g[k - 1], out[k]) BY <1>3, <1>7, <2>1
  <2> QED BY <1>8, <2>2, <2>3
<1>11. f[m] = g[m]
  <2>1. f[0] = g[0] BY <1>6, <1>7
  <2> QED BY <2>1, <1>9, <1>10, SameSteps, Zenon
<1>12. g[m + 1] = P!Expected(g[m], e)
  <2>1. PICK k \in 1 .. m + 1 : k = m + 1 OBVIOUS
  <2>2. g[k] = P!Expected(g[k - 1], o2[k]) BY <1>7, Zenon
  <2>3. k - 1 = m /\ o2[k] = e BY <1>3, <2>1
  <2> QED BY <2>1, <2>2, <2>3
<1>13. f[m] \in Marks
  <2>1. m \in 0 .. m OBVIOUS
  <2> QED BY <1>6, <2>1
<1> QED BY <1>2, <1>6, <1>7, <1>11, <1>12, <1>13 DEF ReadOn

(* Nothing was read of no event.                                             *)
LEMMA GrammarNothing == P!Grammar(<< >>) = "nothing"
<1>1. << >> \in Seq(Events) /\ Len(<< >>) = 0 OBVIOUS
<1>2. PICK f : Reading(<< >>, f) BY <1>1, ReadingSteps
<1> QED BY <1>1, <1>2 DEF Reading

(* The events of a stream say where it is: its blocks are filled one after   *)
(* another, the open one is the last.                                        *)
MarkOf(s) == IF s.ending # "none" THEN "over"
             ELSE IF ~s.started THEN "nothing"
             ELSE IF s.open = 0 THEN "between" ELSE "inside"
Sound(s) == /\ s \in Streams
            /\ s.open \in {0, Len(s.blocks)}
            /\ ~s.started => s.open = 0 /\ s.ending = "none"
            /\ P!Grammar(s.out) = MarkOf(s)
Going(s) == Sound(s) /\ s.ending = "none"

(* A stream that got one more event.                                         *)
Yielded(s, type, i) ==
  LET t == P!Yield(s, type, i)
  IN  /\ t \in Streams
      /\ t.blocks = s.blocks /\ t.open = s.open /\ t.started = s.started /\ t.ending = s.ending
      /\ P!Grammar(t.out) = P!Expected(P!Grammar(s.out), [type |-> type, at |-> i])
(* Yield adds one event and changes nothing else.                            *)
LEMMA YieldKeeps ==
  ASSUME NEW s \in Streams, NEW i \in Nat,
         NEW type \in {"start", "begin", "delta", "end", "done", "error"}
  PROVE  Yielded(s, type, i)
<1>1. PICK e \in Events : e = [type |-> type, at |-> i] BY DEF Events
<1>2. s.out \in Seq(Events) BY DEF Streams
<1>3. PICK o \in Seq(Events) : o = Append(s.out, e) BY <1>2, AppendProperties
<1>4. P!Yield(s, type, i) = [s EXCEPT !.out = o] BY <1>1, <1>3 DEF P!Yield
<1>5. ReadOn(s.out, e) BY <1>2, GrammarAppend
<1>6. P!Grammar(o) = P!Expected(P!Grammar(s.out), e) BY <1>3, <1>5 DEF ReadOn
<1> HIDE DEF Events
<1>7. /\ [s EXCEPT !.out = o] \in Streams
      /\ [s EXCEPT !.out = o].blocks = s.blocks /\ [s EXCEPT !.out = o].open = s.open
      /\ [s EXCEPT !.out = o].started = s.started /\ [s EXCEPT !.out = o].ending = s.ending
      /\ [s EXCEPT !.out = o].out = o
  BY DEF Streams
<1> QED BY <1>1, <1>4, <1>6, <1>7 DEF Yielded

(* The message is started at most once.                                      *)
StartedIs(s) ==
  LET t == P!Started(s)
  IN  Going(t) /\ t.started /\ t.blocks = s.blocks /\ t.open = s.open
(* The start is yielded before anything else, once.                          *)
LEMMA StartedKeeps ==
  ASSUME NEW s, Going(s)
  PROVE  StartedIs(s)
<1>1. CASE s.started BY <1>1 DEF P!Started, StartedIs
<1>2. CASE ~s.started
  <2>1. s \in Streams /\ s.open = 0 /\ s.ending = "none" /\ P!Grammar(s.out) = "nothing"
    BY <1>2 DEF Going, Sound, MarkOf
  <2>2. Yielded(s, "start", 0) BY <2>1, YieldKeeps
  <2>3. PICK y \in Streams : y = P!Yield(s, "start", 0) BY <2>2 DEF Yielded
  <2>4. /\ y.blocks = s.blocks /\ y.open = 0 /\ y.ending = "none"
        /\ P!Grammar(y.out) = "between"
    BY <2>1, <2>2, <2>3 DEF Yielded, P!Expected
  <2>5. PICK yes \in BOOLEAN : yes = TRUE OBVIOUS
  <2>6. PICK t : t = [y EXCEPT !.started = yes] OBVIOUS
  <2>7. t \in Streams /\ t.blocks = y.blocks /\ t.open = 0 /\ t.ending = "none" /\ t.out = y.out
    BY <2>4, <2>6 DEF Streams
  <2>8. t.started BY <2>5, <2>6 DEF Streams
  <2>9. P!Started(s) = t BY <1>2, <2>3, <2>5, <2>6 DEF P!Started, P!NoBlock
  <2>10. Going(t) BY <2>4, <2>7, <2>8 DEF Going, Sound, MarkOf
  <2> QED BY <2>1, <2>4, <2>7, <2>8, <2>9, <2>10 DEF StartedIs
<1> QED BY <1>1, <1>2

(* The open block is ended.                                                  *)
Shut(s) ==
  LET t == P!end_active_block(s)
  IN  Going(t) /\ t.started /\ t.blocks = s.blocks /\ t.open = 0
(* end_active_block leaves no block open.                                    *)
LEMMA ShutKeeps ==
  ASSUME NEW s, Going(s), s.started
  PROVE  Shut(s)
<1>1. CASE s.open = 0 BY <1>1 DEF P!end_active_block, P!NoBlock, Shut
<1>2. CASE s.open # 0
  <2>1. s \in Streams /\ s.open \in Nat /\ s.ending = "none" /\ P!Grammar(s.out) = "inside"
    BY <1>2 DEF Going, Sound, MarkOf, Streams
  <2>2. Yielded(s, "end", s.open) BY <2>1, YieldKeeps
  <2>3. PICK y \in Streams : y = P!Yield(s, "end", s.open) BY <2>2 DEF Yielded
  <2>4. /\ y.blocks = s.blocks /\ y.started /\ y.ending = "none"
        /\ P!Grammar(y.out) = "between"
    BY <2>1, <2>2, <2>3 DEF Yielded, P!Expected
  <2>5. PICK t : t = [y EXCEPT !.open = 0] OBVIOUS
  <2>6. t \in Streams /\ t.blocks = y.blocks /\ t.open = 0 /\ t.ending = "none" /\ t.out = y.out
    BY <2>4, <2>5 DEF Streams
  <2>7. t.started BY <2>4, <2>5 DEF Streams
  <2>8. P!end_active_block(s) = t BY <1>2, <2>3, <2>5 DEF P!end_active_block, P!NoBlock
  <2>9. Going(t) BY <2>4, <2>6, <2>7 DEF Going, Sound, MarkOf
  <2> QED BY <2>4, <2>6, <2>7, <2>8, <2>9 DEF Shut
<1> QED BY <1>1, <1>2

(* The last block gets a piece.                                              *)
Filled(s, f, b, piece) ==
  LET t == [s EXCEPT !.blocks[Len(f) + 1].pieces = Append(@, piece)]
  IN  /\ t \in Streams /\ t.open = s.open /\ t.started = s.started
      /\ t.ending = s.ending /\ t.out = s.out
      /\ t.blocks = Append(f, [kind |-> b.kind, pieces |-> Append(b.pieces, piece)])
(* The piece is added to the last block, which keeps its kind.               *)
LEMMA FillLast ==
  ASSUME NEW s \in Streams, NEW f \in Seq(Blocks), NEW b \in Blocks, s.blocks = Append(f, b),
         NEW piece \in Pieces
  PROVE  Filled(s, f, b, piece)
<1>1. PICK n \in Nat : n = Len(f) + 1 OBVIOUS
<1>2. PICK ps \in Seq(Pieces) : ps = Append(b.pieces, piece)
  <2>1. b.pieces \in Seq(Pieces) BY DEF Blocks
  <2> QED BY <2>1, AppendProperties
<1>3. PICK c \in Blocks : c = [kind |-> b.kind, pieces |-> ps] BY DEF Blocks
<1>4. PICK sb \in Seq(Blocks) : sb = s.blocks BY AppendProperties
<1>5. Len(sb) = n /\ sb[n] = b /\ \A k \in 1 .. Len(f) : sb[k] = f[k]
  BY <1>1, <1>4, AppendProperties
<1>6. PICK bs \in Seq(Blocks) : bs = [sb EXCEPT ![n] = c] /\ Len(bs) = n
  <2>1. n \in 1 .. Len(sb) BY <1>1, <1>5
  <2>2. [sb EXCEPT ![n] = c] \in Seq(Blocks) /\ Len([sb EXCEPT ![n] = c]) = Len(sb)
    BY <2>1, ExceptSeq
  <2> QED BY <1>5, <2>2
<1>7. bs = Append(f, c)
  <2>1. PICK a \in Seq(Blocks) : a = Append(f, c) BY AppendProperties
  <2>2. Len(a) = n /\ a[n] = c /\ \A k \in 1 .. Len(f) : a[k] = f[k]
    BY <1>1, <2>1, AppendProperties
  <2>3. bs[n] = c BY <1>1, <1>5, <1>6
  <2>4. \A k \in 1 .. Len(f) : bs[k] = f[k]
    <3> TAKE k \in 1 .. Len(f)
    <3>1. k \in 1 .. Len(sb) /\ k # n BY <1>1, <1>5
    <3>2. bs[k] = sb[k] BY <1>6, <3>1
    <3> QED BY <1>5, <3>2
  <2>5. \A k \in 1 .. n : bs[k] = a[k]
    <3> TAKE k \in 1 .. n
    <3>1. k = n \/ k \in 1 .. Len(f) BY <1>1
    <3> QED BY <2>2, <2>3, <2>4, <3>1
  <2>6. bs = a BY <1>6, <2>2, <2>5, SeqEqual
  <2> QED BY <2>1, <2>6
<1>8. [s.blocks EXCEPT ![n].pieces = Append(@, piece)] = bs
  <2>1. [b EXCEPT !.pieces = ps] = c
    <3>1. PICK k \in Kinds, q \in Seq(Pieces) : b = [kind |-> k, pieces |-> q] BY DEF Blocks
    <3>2. [[kind |-> k, pieces |-> q] EXCEPT !.pieces = ps] = [kind |-> k, pieces |-> ps]
      OBVIOUS
    <3>3. c = [kind |-> k, pieces |-> ps] BY <1>3, <3>1
    <3> QED BY <3>1, <3>2, <3>3
  <2>2. [s.blocks EXCEPT ![n].pieces = Append(@, piece)]
          = [s.blocks EXCEPT ![n] =
               [s.blocks[n] EXCEPT !.pieces = Append(s.blocks[n].pieces, piece)]]
    OBVIOUS
  <2> QED BY <1>2, <1>5, <1>6, <1>4, <2>1, <2>2
<1>9. [s EXCEPT !.blocks[n].pieces = Append(@, piece)] = [s EXCEPT !.blocks = bs]
  BY <1>8
<1>10. PICK t : t = [s EXCEPT !.blocks = bs] OBVIOUS
<1>11. /\ t \in Streams /\ t.open = s.open /\ t.started = s.started /\ t.ending = s.ending
       /\ t.out = s.out /\ t.blocks = bs
  BY <1>10 DEF Streams
<1> QED BY <1>1, <1>2, <1>3, <1>7, <1>9, <1>10, <1>11 DEF Filled

(* A piece of text or thinking goes to the open block, if it is of its kind, *)
(* or to a new one.                                                          *)
Grown(bs, cs, kind, piece) ==
  \/ cs = Append(bs, [kind |-> kind, pieces |-> << piece >>])
  \/ \E f \in Seq(Blocks), b \in Blocks :
       /\ bs = Append(f, b) /\ b.kind = kind
       /\ cs = Append(f, [kind |-> kind, pieces |-> Append(b.pieces, piece)])
DeltaIs(s, kind, piece) ==
  LET t == P!Delta(s, kind, piece)
  IN  Going(t) /\ t.started /\ Grown(s.blocks, t.blocks, kind, piece)
(* A delta goes to the open block of its kind, or closes it and opens one.   *)
LEMMA DeltaKeeps ==
  ASSUME NEW s, Going(s), s.started, NEW kind \in {"text", "thinking"}, NEW piece \in Pieces
  PROVE  DeltaIs(s, kind, piece)
<1>1. s \in Streams /\ s.blocks \in Seq(Blocks) BY DEF Going, Sound, Streams
<1>2. ASSUME NEW r \in Streams, NEW f \in Seq(Blocks), NEW b \in Blocks,
             r.blocks = Append(f, b), r.open = Len(f) + 1, r.started, r.ending = "none",
             P!Grammar(r.out) = "inside",
             P!Delta(s, kind, piece)
               = P!Yield([r EXCEPT !.blocks[Len(f) + 1].pieces = Append(@, piece)],
                         "delta", Len(f) + 1),
             Grown(s.blocks, Append(f, [kind |-> b.kind, pieces |-> Append(b.pieces, piece)]),
                   kind, piece)
      PROVE  DeltaIs(s, kind, piece)
  <2>1. PICK n \in Nat : n = Len(f) + 1 OBVIOUS
  <2>2. PICK cs : cs = Append(f, [kind |-> b.kind, pieces |-> Append(b.pieces, piece)]) OBVIOUS
  <2>3. Filled(r, f, b, piece) BY <1>2, FillLast
  <2>4. PICK u \in Streams : u = [r EXCEPT !.blocks[Len(f) + 1].pieces = Append(@, piece)]
    BY <2>3 DEF Filled
  <2>5. /\ u.open = n /\ u.started /\ u.ending = "none" /\ P!Grammar(u.out) = "inside"
        /\ u.blocks = cs
    BY <1>2, <2>1, <2>2, <2>3, <2>4 DEF Filled
  <2>6. Yielded(u, "delta", n) BY YieldKeeps
  <2>7. PICK t \in Streams : t = P!Yield(u, "delta", n) BY <2>6 DEF Yielded
  <2>8. /\ t.open = n /\ t.started /\ t.ending = "none" /\ P!Grammar(t.out) = "inside"
        /\ t.blocks = cs
    BY <2>5, <2>6, <2>7 DEF Yielded, P!Expected
  <2>9. Len(cs) = n
    <3>1. PICK c : c = [kind |-> b.kind, pieces |-> Append(b.pieces, piece)] OBVIOUS
    <3>2. Len(Append(f, c)) = Len(f) + 1 OBVIOUS
    <3> QED BY <2>1, <2>2, <3>1, <3>2
  <2>10. Going(t) BY <2>1, <2>8, <2>9 DEF Going, Sound, MarkOf
  <2>11. P!Delta(s, kind, piece) = t BY <1>2, <2>1, <2>4, <2>7
  <2> QED BY <1>2, <2>2, <2>8, <2>10, <2>11 DEF DeltaIs
<1>3. CASE s.open # 0 /\ s.blocks[s.open].kind = kind
  <2>1. s.open = Len(s.blocks) BY <1>3 DEF Going, Sound
  <2>2. s.blocks # << >> BY <1>1, <1>3, <2>1
  <2>3. PICK f \in Seq(Blocks), b \in Blocks : s.blocks = Append(f, b)
    BY <1>1, <2>2, SequenceEmptyOrAppend
  <2>4. s.open = Len(f) + 1 /\ s.blocks[s.open] = b BY <2>1, <2>3, AppendProperties
  <2>5. b.kind = kind BY <1>3, <2>4
  <2>6. P!Grammar(s.out) = "inside" /\ s.ending = "none" BY <1>3 DEF Going, Sound, MarkOf
  <2>7. P!Delta(s, kind, piece)
          = P!Yield([s EXCEPT !.blocks[Len(f) + 1].pieces = Append(@, piece)], "delta", Len(f) + 1)
    BY <1>3, <2>4 DEF P!Delta, P!NoBlock
  <2>8. Grown(s.blocks, Append(f, [kind |-> b.kind, pieces |-> Append(b.pieces, piece)]),
              kind, piece)
    BY <2>3, <2>5 DEF Grown
  <2> QED BY <1>1, <1>2, <2>3, <2>4, <2>6, <2>7, <2>8
<1>4. CASE ~(s.open # 0 /\ s.blocks[s.open].kind = kind)
  <2>1. Shut(s) BY ShutKeeps
  <2>2. PICK e \in Streams : e = P!end_active_block(s) BY <2>1 DEF Shut, Going, Sound
  <2>3. /\ e.started /\ e.ending = "none" /\ P!Grammar(e.out) = "between" /\ e.blocks = s.blocks
    BY <2>1, <2>2 DEF Shut, Going, Sound, MarkOf
  <2>4. << >> \in Seq(Pieces) OBVIOUS
  <2>5. PICK b \in Blocks : b = [kind |-> kind, pieces |-> << >>]
    BY <2>4 DEF Blocks, Kinds
  <2>6. PICK bs \in Seq(Blocks) : bs = Append(s.blocks, b) /\ Len(bs) = Len(s.blocks) + 1
    <3>1. PICK sb \in Seq(Blocks) : sb = s.blocks BY <1>1
    <3>2. PICK bs \in Seq(Blocks) : bs = Append(sb, b) BY AppendProperties
    <3> QED BY <3>1, <3>2, AppendProperties
  <2>7. PICK i \in Nat : i = Len(s.blocks) + 1 BY <1>1
  <2>8. PICK w : w = [e EXCEPT !.blocks = bs] OBVIOUS
  <2>9. w = P!NewBlock(e, kind, << >>) BY <2>3, <2>5, <2>6, <2>8 DEF P!NewBlock
  <2>10. w \in Streams /\ w.blocks = bs BY <2>8 DEF Streams
  <2>11. PICK v : v = [w EXCEPT !.open = i] OBVIOUS
  <2>12. /\ v \in Streams /\ v.blocks = bs /\ v.open = i /\ v.started = e.started
         /\ v.ending = e.ending /\ v.out = e.out
    BY <2>8, <2>10, <2>11 DEF Streams
  <2>13. Yielded(v, "begin", i) BY <2>12, YieldKeeps
  <2>14. PICK r \in Streams : r = P!Yield(v, "begin", i) BY <2>13 DEF Yielded
  <2>15. /\ r.blocks = bs /\ r.open = i /\ r.started /\ r.ending = "none"
         /\ P!Grammar(r.out) = "inside"
    BY <2>3, <2>12, <2>13, <2>14 DEF Yielded, P!Expected
  <2>16. P!Delta(s, kind, piece)
           = P!Yield([r EXCEPT !.blocks[i].pieces = Append(@, piece)], "delta", i)
    BY <1>4, <2>2, <2>6, <2>7, <2>9, <2>10, <2>11, <2>14 DEF P!Delta, P!NoBlock
  <2>17. b.kind = kind /\ b.pieces = << >> BY <2>5
  <2>18. Append(<< >>, piece) = << piece >> OBVIOUS
  <2>19. Grown(s.blocks, Append(s.blocks, [kind |-> b.kind, pieces |-> Append(b.pieces, piece)]),
               kind, piece)
    BY <2>17, <2>18 DEF Grown
  <2> QED BY <1>1, <1>2, <2>6, <2>7, <2>15, <2>16, <2>19
<1> QED BY <1>3, <1>4

(* A call is a block of its own.                                             *)
CallIs(s, ps) ==
  LET t == P!ToolCall(s, ps)
  IN  Going(t) /\ t.started /\ t.blocks = Append(s.blocks, [kind |-> "tool", pieces |-> ps])
(* A call closes the open block and is begun and ended at once.              *)
LEMMA CallKeeps ==
  ASSUME NEW s, Going(s), s.started, NEW ps \in Seq(Pieces)
  PROVE  CallIs(s, ps)
<1>1. s \in Streams /\ s.blocks \in Seq(Blocks) BY DEF Going, Sound, Streams
<1>2. Shut(s) BY ShutKeeps
<1>3. PICK e \in Streams : e = P!end_active_block(s) BY <1>2 DEF Shut, Going, Sound
<1>4. /\ e.started /\ e.ending = "none" /\ P!Grammar(e.out) = "between" /\ e.blocks = s.blocks
      /\ e.open = 0
  BY <1>2, <1>3 DEF Shut, Going, Sound, MarkOf
<1>5. PICK b \in Blocks : b = [kind |-> "tool", pieces |-> ps] BY DEF Blocks, Kinds
<1>6. PICK bs \in Seq(Blocks) : bs = Append(s.blocks, b) /\ Len(bs) = Len(s.blocks) + 1
  <2>1. PICK sb \in Seq(Blocks) : sb = s.blocks BY <1>1
  <2>2. PICK bs \in Seq(Blocks) : bs = Append(sb, b) BY AppendProperties
  <2> QED BY <2>1, <2>2, AppendProperties
<1>7. PICK i \in Nat : i = Len(bs) OBVIOUS
<1>8. PICK w : w = [e EXCEPT !.blocks = bs] OBVIOUS
<1>9. w = P!NewBlock(e, "tool", ps) BY <1>4, <1>5, <1>6, <1>8 DEF P!NewBlock
<1>10. /\ w \in Streams /\ w.blocks = bs /\ w.open = 0 /\ w.started /\ w.ending = "none"
      /\ P!Grammar(w.out) = "between"
  BY <1>4, <1>8 DEF Streams
<1>11. Yielded(w, "begin", i) BY <1>10, YieldKeeps
<1>12. PICK y \in Streams : y = P!Yield(w, "begin", i) BY <1>11 DEF Yielded
<1>13. /\ y.blocks = bs /\ y.open = 0 /\ y.started /\ y.ending = "none"
       /\ P!Grammar(y.out) = "inside"
  BY <1>10, <1>11, <1>12 DEF Yielded, P!Expected
<1>14. Yielded(y, "end", i) BY YieldKeeps
<1>15. PICK t \in Streams : t = P!Yield(y, "end", i) BY <1>14 DEF Yielded
<1>16. /\ t.blocks = bs /\ t.open = 0 /\ t.started /\ t.ending = "none"
       /\ P!Grammar(t.out) = "between"
  BY <1>13, <1>14, <1>15 DEF Yielded, P!Expected
<1>17. P!ToolCall(s, ps) = t BY <1>3, <1>7, <1>9, <1>10, <1>12, <1>15 DEF P!ToolCall
<1>18. Going(t) BY <1>16 DEF Going, Sound, MarkOf
<1> QED BY <1>5, <1>6, <1>16, <1>17, <1>18 DEF CallIs

(* The end, and an error, with or without a block that is open.              *)
Ends(s, t, ending) == Sound(t) /\ t.started /\ t.ending = ending /\ t.blocks = s.blocks
(* The message that is done ends the events.                                 *)
LEMMA DoneEnds ==
  ASSUME NEW s, Going(s), s.started
  PROVE  Ends(s, P!Done(s), "done")
<1>1. Shut(s) BY ShutKeeps
<1>2. PICK e \in Streams : e = P!end_active_block(s) BY <1>1 DEF Shut, Going, Sound
<1>3. /\ e.started /\ P!Grammar(e.out) = "between" /\ e.blocks = s.blocks
      /\ e.open = 0
  BY <1>1, <1>2 DEF Shut, Going, Sound, MarkOf
<1>4. Yielded(e, "done", 0) BY YieldKeeps
<1>5. PICK y \in Streams : y = P!Yield(e, "done", 0) BY <1>4 DEF Yielded
<1>6. /\ y.blocks = s.blocks /\ y.open = 0 /\ y.started /\ P!Grammar(y.out) = "over"
  BY <1>3, <1>4, <1>5 DEF Yielded, P!Expected
<1>7. PICK t : t = [y EXCEPT !.ending = "done"] OBVIOUS
<1>8. /\ t \in Streams /\ t.blocks = s.blocks /\ t.open = 0 /\ t.started /\ t.ending = "done"
      /\ P!Grammar(t.out) = "over"
  BY <1>6, <1>7 DEF Streams
<1>9. P!Done(s) = t BY <1>2, <1>5, <1>7 DEF P!Done, P!NoBlock
<1> QED BY <1>8, <1>9 DEF Ends, Sound, MarkOf

(* An error ends the message where it stands.                                *)
LEMMA ErrorEnds ==
  ASSUME NEW s, Going(s), s.started
  PROVE  Ends(s, P!Error(s), "error")
<1>1. s \in Streams /\ P!Grammar(s.out) \in {"between", "inside"} /\ s.open \in {0, Len(s.blocks)}
  BY DEF Going, Sound, MarkOf
<1>2. Yielded(s, "error", 0) BY <1>1, YieldKeeps
<1>3. PICK y \in Streams : y = P!Yield(s, "error", 0) BY <1>2 DEF Yielded
<1>4. /\ y.blocks = s.blocks /\ y.open = s.open /\ y.started /\ P!Grammar(y.out) = "over"
  BY <1>1, <1>2, <1>3 DEF Yielded, P!Expected
<1>5. PICK t : t = [y EXCEPT !.ending = "error"] OBVIOUS
<1>6. /\ t \in Streams /\ t.blocks = s.blocks /\ t.open = s.open /\ t.started
      /\ t.ending = "error" /\ P!Grammar(t.out) = "over"
  BY <1>4, <1>5 DEF Streams
<1>7. P!Error(s) = t BY <1>3, <1>5 DEF P!Error, P!NoBlock
<1> QED BY <1>1, <1>6, <1>7 DEF Ends, Sound, MarkOf

(* The adapter's generator has returned.                                     *)
ExhaustedIs(s) ==
  LET t == P!Exhausted(s)
  IN  Ends(s, t, IF s.ending = "none" THEN "error" ELSE s.ending)
(* A stream without an end gets an error, one that ended nothing more.       *)
LEMMA ExhaustedEnds ==
  ASSUME NEW s, Sound(s)
  PROVE  ExhaustedIs(s)
<1>1. CASE s.ending = "none"
  <2>1. StartedIs(s) BY <1>1, StartedKeeps DEF Going
  <2>2. PICK y : y = P!Started(s) OBVIOUS
  <2>3. Going(y) /\ y.started /\ y.blocks = s.blocks BY <2>1, <2>2 DEF StartedIs
  <2>4. Ends(y, P!Error(y), "error") BY <2>3, ErrorEnds
  <2>5. P!Exhausted(s) = P!Error(y) BY <1>1, <2>2 DEF P!Exhausted
  <2> QED BY <1>1, <2>3, <2>4, <2>5 DEF ExhaustedIs, Ends
<1>2. CASE s.ending # "none"
  <2>1. s.started BY <1>2 DEF Sound
  <2>2. P!Exhausted(s) = s BY <1>2, <2>1 DEF P!Exhausted, P!Started
  <2> QED BY <1>2, <2>1, <2>2 DEF ExhaustedIs, Ends
<1> QED BY <1>1, <1>2

(* What becomes of a stream with each of the parser's events.                *)
Opens(s) ==
  LET t == P!Canonical(s, [is |-> "response_start"])
  IN  Going(t) /\ t.blocks = s.blocks
Says(s, kind, piece) ==
  LET t == P!Canonical(s, [is |-> kind, piece |-> piece])
  IN  Going(t) /\ Grown(s.blocks, t.blocks, kind, piece)
Asks(s, ps) ==
  LET t == P!Canonical(s, [is |-> "tool_call", pieces |-> ps])
  IN  Going(t) /\ t.blocks = Append(s.blocks, [kind |-> "tool", pieces |-> ps])
Stays(s) == P!Canonical(s, [is |-> "retry"]) = s

(* What the generator makes of each kind of event.                           *)
LEMMA CanonicalKeeps ==
  ASSUME NEW s, Going(s)
  PROVE  /\ Stays(s) /\ Opens(s)
         /\ \A kind \in {"text", "thinking"}, piece \in Pieces : Says(s, kind, piece)
         /\ \A ps \in Seq(Pieces) : Asks(s, ps)
         /\ Ends(s, P!Canonical(s, [is |-> "response_end"]), "done")
         /\ Ends(s, P!Canonical(s, [is |-> "error"]), "error")
<1>1. Stays(s) BY DEF Stays, P!Canonical
<1>2. StartedIs(s) BY StartedKeeps
<1>3. PICK y : y = P!Started(s) OBVIOUS
<1>4. Going(y) /\ y.started /\ y.blocks = s.blocks BY <1>2, <1>3 DEF StartedIs
<1>5. Opens(s)
  <2>1. P!Canonical(s, [is |-> "response_start"]) = y BY <1>3 DEF P!Canonical
  <2> QED BY <1>4, <2>1 DEF Opens
<1>6. ASSUME NEW kind \in {"text", "thinking"}, NEW piece \in Pieces
      PROVE  Says(s, kind, piece)
  <2>1. DeltaIs(y, kind, piece) BY <1>4, DeltaKeeps
  <2>2. P!Canonical(s, [is |-> kind, piece |-> piece]) = P!Delta(y, kind, piece)
    BY <1>3 DEF P!Canonical
  <2> QED BY <1>4, <2>1, <2>2 DEF DeltaIs, Says
<1>7. ASSUME NEW ps \in Seq(Pieces) PROVE Asks(s, ps)
  <2>1. CallIs(y, ps) BY <1>4, CallKeeps
  <2>2. P!Canonical(s, [is |-> "tool_call", pieces |-> ps]) = P!ToolCall(y, ps)
    BY <1>3 DEF P!Canonical
  <2> QED BY <1>4, <2>1, <2>2 DEF CallIs, Asks
<1>8. Ends(s, P!Canonical(s, [is |-> "response_end"]), "done")
  <2>1. Ends(y, P!Done(y), "done") BY <1>4, DoneEnds
  <2>2. P!Canonical(s, [is |-> "response_end"]) = P!Done(y) BY <1>3 DEF P!Canonical
  <2> QED BY <1>4, <2>1, <2>2 DEF Ends
<1>9. Ends(s, P!Canonical(s, [is |-> "error"]), "error")
  <2>1. Ends(y, P!Error(y), "error") BY <1>4, ErrorEnds
  <2>2. P!Canonical(s, [is |-> "error"]) = P!Error(y) BY <1>3 DEF P!Canonical
  <2> QED BY <1>4, <2>1, <2>2 DEF Ends
<1> QED BY <1>1, <1>5, <1>6, <1>7, <1>8, <1>9

(* Several events are one after another.                                     *)
Follows(s, ev, n, f) ==
  /\ Len(ev) = n /\ f = [k \in 0 .. n |-> f[k]] /\ f[0] = s
  /\ \A k \in 1 .. n : f[k] = P!Canonical(f[k - 1], ev[k])
AllIs(s, ev, t) == P!CanonicalAll(s, ev) = t
(* CanonicalAll takes one event after another.                               *)
LEMMA AllSteps ==
  ASSUME NEW s, NEW ev, NEW n \in Nat, NEW f, Follows(s, ev, n, f)
  PROVE  AllIs(s, ev, f[n])
<1>1. /\ Len(ev) = n /\ f = [k \in 0 .. n |-> f[k]] /\ f[0] = s
      /\ \A k \in 1 .. n : f[k] = P!Canonical(f[k - 1], ev[k])
  BY DEF Follows
<1> DEFINE Q(g) == g = [k \in 0 .. Len(ev) |->
                          IF k = 0 THEN s ELSE P!Canonical(g[k - 1], ev[k])]
           F == CHOOSE g : Q(g)
<1>2. \A k \in 0 .. n : f[k] = IF k = 0 THEN s ELSE P!Canonical(f[k - 1], ev[k])
  <2> TAKE k \in 0 .. n
  <2>1. CASE k = 0 BY <1>1, <2>1
  <2>2. CASE k # 0
    <3>1. k \in 1 .. n BY <2>2
    <3> QED BY <1>1, <2>2, <3>1
  <2> QED BY <2>1, <2>2
<1>3. Q(f) BY <1>1, <1>2, Zenon
<1> HIDE DEF Q
<1>4. Q(F) BY <1>3, Zenon
<1> HIDE DEF F
<1>5. F = [k \in 0 .. n |-> IF k = 0 THEN s ELSE P!Canonical(F[k - 1], ev[k])] BY <1>1, <1>4 DEF Q
<1> DEFINE T == {k \in 0 .. n : F[k] = f[k]}
<1>6. 0 \in T BY <1>1, <1>5
<1>7. ASSUME NEW k \in 1 .. n, k - 1 \in T PROVE k \in T
  <2>1. k \in 0 .. n /\ k # 0 /\ F[k - 1] = f[k - 1] BY <1>7
  <2>2. F[k] = P!Canonical(F[k - 1], ev[k]) BY <1>5, <2>1
  <2>3. f[k] = P!Canonical(f[k - 1], ev[k]) BY <1>1
  <2>4. F[k] = f[k] BY <2>1, <2>2, <2>3
  <2> QED BY <2>1, <2>4
<1> HIDE DEF T
<1>8. \A k \in 0 .. n : k \in T BY <1>6, <1>7, UpTo
<1>9. n \in 0 .. n OBVIOUS
<1>10. F[n] = f[n] BY <1>8, <1>9 DEF T
<1>11. P!CanonicalAll(s, ev) = F[n] BY <1>1, Zenon DEF P!CanonicalAll, F, Q
<1> QED BY <1>10, <1>11 DEF AllIs

(* None, and one.                                                            *)
LEMMA NoneOrOne ==
  ASSUME NEW s, NEW e
  PROVE  P!CanonicalAll(s, << >>) = s /\ P!CanonicalAll(s, << e >>) = P!Canonical(s, e)
<1>1. P!CanonicalAll(s, << >>) = s
  <2>1. PICK f : f = [k \in 0 .. 0 |-> s] OBVIOUS
  <2>2. f[0] = s /\ f = [k \in 0 .. 0 |-> f[k]] /\ Len(<< >>) = 0 /\ 0 \in Nat BY <2>1
  <2>3. \A k \in 1 .. 0 : f[k] = P!Canonical(f[k - 1], << >>[k]) OBVIOUS
  <2>4. AllIs(s, << >>, f[0])
    <3>1. Follows(s, << >>, 0, f) BY <2>2, <2>3 DEF Follows
    <3> QED BY <2>2, <3>1, AllSteps
  <2> QED BY <2>2, <2>4 DEF AllIs
<1>2. P!CanonicalAll(s, << e >>) = P!Canonical(s, e)
  <2>1. PICK ev : ev = << e >> OBVIOUS
  <2>2. Len(ev) = 1 /\ ev[1] = e /\ 1 \in Nat BY <2>1
  <2>3. PICK t : t = P!Canonical(s, e) OBVIOUS
  <2>4. PICK f : f = [k \in 0 .. 1 |-> IF k = 0 THEN s ELSE t] OBVIOUS
  <2>5. f[0] = s /\ f[1] = t /\ f = [k \in 0 .. 1 |-> f[k]] BY <2>4
  <2>6. \A k \in 1 .. 1 : f[k] = P!Canonical(f[k - 1], ev[k])
    <3> TAKE k \in 1 .. 1
    <3>1. k = 1 /\ k - 1 = 0 OBVIOUS
    <3> QED BY <2>2, <2>3, <2>5, <3>1
  <2>7. AllIs(s, ev, f[1])
    <3>1. Follows(s, ev, 1, f) BY <2>2, <2>5, <2>6 DEF Follows
    <3> QED BY <2>2, <3>1, AllSteps
  <2> QED BY <2>1, <2>3, <2>5, <2>7 DEF AllIs
<1> QED BY <1>1, <1>2

(* The calls that were built, and the end.                                   *)
Chain(bs, n, calls, g) ==
  /\ g \in [0 .. n -> Seq(Blocks)] /\ g[0] = bs
  /\ \A k \in 1 .. n : g[k] = Append(g[k - 1], [kind |-> "tool", pieces |-> calls[k]])
Called(s, t, n, calls) ==
  \E g : Chain(s.blocks, n, calls, g) /\ t.blocks = g[n]
(* The calls follow the streamed blocks in their order, then the message is  *)
(* done.                                                                     *)
LEMMA CallsThenEnd ==
  ASSUME NEW s, Going(s), NEW n \in Nat, NEW calls, \A k \in 1 .. n : calls[k] \in Seq(Pieces),
         NEW ev, Len(ev) = n + 1, ev[n + 1] = [is |-> "response_end"],
         \A k \in 1 .. n : ev[k] = [is |-> "tool_call", pieces |-> calls[k]],
         NEW t, t = P!CanonicalAll(s, ev)
  PROVE  Sound(t) /\ t.started /\ t.ending = "done" /\ Called(s, t, n, calls)
<1> DEFINE V == {x \in Streams : Going(x)}
           st == [x \in (1 .. n) \X V |-> P!Canonical(x[2], ev[x[1]])]
<1>1. s \in V BY DEF Going, Sound
<1>2. \A k \in 1 .. n : \A v \in V : Asks(v, calls[k]) BY CanonicalKeeps
<1>3. \A k \in 1 .. n : \A v \in V : st[<<k, v>>] = P!Canonical(v, ev[k]) OBVIOUS
<1>4. \A x : x \in V <=> Going(x) BY DEF Going, Sound
<1> HIDE DEF V, st
<1>5. \A k \in 1 .. n : \A v \in V :
        /\ st[<<k, v>>] \in V
        /\ st[<<k, v>>].blocks = Append(v.blocks, [kind |-> "tool", pieces |-> calls[k]])
  <2> TAKE k \in 1 .. n
  <2> TAKE v \in V
  <2>1. st[<<k, v>>] = P!Canonical(v, [is |-> "tool_call", pieces |-> calls[k]]) BY <1>3
  <2>2. Asks(v, calls[k]) BY <1>2
  <2> QED BY <1>4, <2>1, <2>2 DEF Asks
<1>6. Stepwise(n, V, s, st) BY <1>1, <1>5, Recursion, Zenon
<1>7. PICK f \in [0 .. n -> V] : f[0] = s /\ \A k \in 1 .. n : f[k] = st[<<k, f[k - 1]>>]
  BY <1>6 DEF Stepwise
<1>8. \A k \in 0 .. n : f[k] \in V BY <1>7
<1>9. \A k \in 1 .. n : k - 1 \in 0 .. n /\ k \in 0 .. n OBVIOUS
<1> DEFINE last == P!Canonical(f[n], [is |-> "response_end"])
           h == [k \in 0 .. n + 1 |-> IF k = n + 1 THEN last ELSE f[k]]
           g == [k \in 0 .. n |-> f[k].blocks]
<1>10. h[0] = s /\ h[n + 1] = last /\ h = [k \in 0 .. n + 1 |-> h[k]]
  <2>1. 0 \in 0 .. n + 1 /\ 0 # n + 1 /\ n + 1 \in 0 .. n + 1 OBVIOUS
  <2> HIDE DEF last
  <2> QED BY <1>7, <2>1
<1>11. \A k \in 0 .. n : h[k] = f[k]
  <2> TAKE k \in 0 .. n
  <2>1. k \in 0 .. n + 1 /\ k # n + 1 OBVIOUS
  <2> HIDE DEF last
  <2> QED BY <2>1
<1>12. g \in [0 .. n -> Seq(Blocks)] /\ g[0] = s.blocks /\ g[n] = f[n].blocks
  <2>1. 0 \in 0 .. n /\ n \in 0 .. n OBVIOUS
  <2>2. \A k \in 0 .. n : f[k].blocks \in Seq(Blocks) BY <1>4, <1>8 DEF Going, Sound, Streams
  <2> QED BY <1>7, <2>1, <2>2
<1>13. \A k \in 1 .. n : g[k] = Append(g[k - 1], [kind |-> "tool", pieces |-> calls[k]])
  <2> TAKE k \in 1 .. n
  <2>1. k - 1 \in 0 .. n /\ k \in 0 .. n /\ f[k - 1] \in V BY <1>8, <1>9
  <2>2. f[k] = st[<<k, f[k - 1]>>] BY <1>7, Zenon
  <2>3. g[k] = f[k].blocks /\ g[k - 1] = f[k - 1].blocks BY <2>1
  <2>4. st[<<k, f[k - 1]>>].blocks
          = Append(f[k - 1].blocks, [kind |-> "tool", pieces |-> calls[k]])
    BY <1>5, <2>1
  <2> HIDE DEF g
  <2> QED BY <2>2, <2>3, <2>4
<1> HIDE DEF g, h
<1>14. Chain(s.blocks, n, calls, g) BY <1>12, <1>13 DEF Chain
<1>15. Ends(f[n], last, "done")
  <2>1. n \in 0 .. n OBVIOUS
  <2> QED BY <1>4, <1>8, <2>1, CanonicalKeeps
<1>16. \A k \in 1 .. n + 1 : h[k] = P!Canonical(h[k - 1], ev[k])
  <2> TAKE k \in 1 .. n + 1
  <2>1. CASE k = n + 1
    <3>1. k - 1 = n /\ n \in 0 .. n BY <2>1
    <3>2. h[k - 1] = f[n] /\ ev[k] = [is |-> "response_end"] BY <1>11, <2>1, <3>1
    <3>3. h[k] = last BY <1>10, <2>1
    <3> QED BY <3>2, <3>3
  <2>2. CASE k # n + 1
    <3>1. k \in 1 .. n /\ k - 1 \in 0 .. n /\ k \in 0 .. n BY <2>2
    <3>2. h[k] = f[k] /\ h[k - 1] = f[k - 1] BY <1>11, <3>1
    <3>3. f[k] = st[<<k, f[k - 1]>>] BY <1>7, <3>1, Zenon
    <3>4. f[k - 1] \in V BY <1>8, <3>1
    <3>5. st[<<k, f[k - 1]>>] = P!Canonical(f[k - 1], ev[k]) BY <1>3, <3>1, <3>4
    <3> QED BY <3>2, <3>3, <3>5
  <2> QED BY <2>1, <2>2
<1>17. t = last
  <2>1. n + 1 \in Nat OBVIOUS
  <2>2. Follows(s, ev, n + 1, h) BY <1>10, <1>16 DEF Follows
  <2>3. AllIs(s, ev, h[n + 1]) BY <2>1, <2>2, AllSteps
  <2> QED BY <1>10, <2>3 DEF AllIs
<1> HIDE DEF last
<1> QED BY <1>12, <1>14, <1>15, <1>17 DEF Ends, Called

-----------------------------------------------------------------------------
(* A function on 1 .. n + 1 is a sequence with a last element.               *)
LastIs(S, n, f) ==
  LET g == [i \in 1 .. n |-> f[i]]
  IN  g \in Seq(S) /\ f = Append(g, f[n + 1])
(* A function on 1 .. n + 1 is its first n values and the last one.          *)
LEMMA LastOf ==
  ASSUME NEW S, NEW n \in Nat, NEW f \in [1 .. n + 1 -> S]
  PROVE  LastIs(S, n, f)
<1>1. \A i \in 1 .. n : i \in 1 .. n + 1 OBVIOUS
<1>2. n + 1 \in 1 .. n + 1 OBVIOUS
<1>3. PICK g \in Seq(S) : g = [i \in 1 .. n |-> f[i]]
  <2>1. PICK g : g = [i \in 1 .. n |-> f[i]] OBVIOUS
  <2>2. g \in [1 .. n -> S] BY <1>1, <2>1
  <2>3. g \in Seq(S) BY <2>2
  <2> QED BY <2>1, <2>3
<1>4. Len(g) = n /\ \A i \in 1 .. n : g[i] = f[i] BY <1>3
<1>5. PICK x \in S : x = f[n + 1] BY <1>2
<1>6. PICK h \in Seq(S) : h = Append(g, x) BY AppendProperties
<1>7. Len(h) = n + 1 /\ h[n + 1] = x /\ \A i \in 1 .. n : h[i] = f[i] BY <1>4, <1>6
<1>8. f \in Seq(S) /\ Len(f) = n + 1
  <2>1. f \in [1 .. n + 1 -> S] /\ n + 1 \in Nat OBVIOUS
  <2> QED BY <2>1
<1>9. \A i \in 1 .. n + 1 : f[i] = h[i]
  <2> TAKE i \in 1 .. n + 1
  <2>1. i = n + 1 \/ i \in 1 .. n OBVIOUS
  <2> QED BY <1>5, <1>7, <2>1
<1>10. f = h BY <1>6, <1>7, <1>8, <1>9, SeqEqual
<1> QED BY <1>3, <1>5, <1>6, <1>10 DEF LastIs

(* The pieces at some of the places.                                         *)
Spot(a, i, I) == IF i \in I THEN << <<a, i>> >> ELSE << >>
Spots(a, n, I) == P!FlattenSeq([i \in 1 .. n |-> Spot(a, i, I)])

SpotsMore(a, n, I, J) ==
  /\ Spots(a, n, I) \in Seq({a} \X Nat)
  /\ Spots(a, n + 1, J) = Spots(a, n, I) \o Spot(a, n + 1, J)
(* One more place is joined at the end.                                      *)
LEMMA SpotsGrow ==
  ASSUME NEW a, NEW n \in Nat, NEW I, NEW J, \A i \in 1 .. n : i \in I <=> i \in J
  PROVE  SpotsMore(a, n, I, J)
<1> DEFINE U == {a} \X Nat
           f == [i \in 1 .. n + 1 |-> Spot(a, i, J)]
           g == [i \in 1 .. n |-> f[i]]
<1>1. \A i \in Nat : Spot(a, i, J) \in Seq(U)
  <2> TAKE i \in Nat
  <2>1. <<a, i>> \in U OBVIOUS
  <2> HIDE DEF U
  <2>2. << <<a, i>> >> \in Seq(U) /\ << >> \in Seq(U) BY <2>1
  <2> QED BY <2>2 DEF Spot
<1> HIDE DEF U
<1>2. f \in [1 .. n + 1 -> Seq(U)] BY <1>1
<1>3. LastIs(Seq(U), n, f) BY <1>2, LastOf
<1>4. n + 1 \in 1 .. n + 1 /\ \A i \in 1 .. n : i \in 1 .. n + 1 OBVIOUS
<1>5. f[n + 1] = Spot(a, n + 1, J) BY <1>4
<1>6. g = [i \in 1 .. n |-> Spot(a, i, I)]
  <2>1. \A i \in 1 .. n : f[i] = Spot(a, i, I) BY <1>4 DEF Spot
  <2> HIDE DEF f
  <2> QED BY <2>1
<1>7. Spot(a, n + 1, J) \in Seq(U) BY <1>1
<1>8. Spots(a, n + 1, J) = P!FlattenSeq(f) BY DEF Spots
<1> HIDE DEF f
<1>9. g \in Seq(Seq(U)) /\ f = Append(g, Spot(a, n + 1, J)) BY <1>3, <1>5 DEF LastIs
<1> HIDE DEF g
<1>10. Joined(U, g, Spot(a, n + 1, J)) BY <1>7, <1>9, FlattenAppend
<1>11. Spots(a, n, I) = P!FlattenSeq(g) BY <1>6 DEF Spots
<1> QED BY <1>8, <1>9, <1>10, <1>11 DEF Joined, SpotsMore, U

(* None of no chunk, and none at no place.                                   *)
LEMMA SpotsNone ==
  ASSUME NEW a, NEW n \in Nat, NEW I, \A i \in 1 .. n : i \notin I
  PROVE  Spots(a, n, I) = << >>
<1>1. << >> \in Seq({a} \X Nat) OBVIOUS
<1>2. PICK ps : ps = [i \in 1 .. n |-> Spot(a, i, I)] OBVIOUS
<1>3. \A i \in 1 .. n : ps[i] = << >> BY <1>2 DEF Spot
<1>4. ps \in Seq(Seq({a} \X Nat)) /\ Len(ps) = n
  <2>1. ps \in [1 .. n -> Seq({a} \X Nat)] BY <1>1, <1>2, <1>3
  <2> QED BY <2>1
<1>5. P!FlattenSeq(ps) = << >> BY <1>3, <1>4, FlattenNothing
<1> QED BY <1>2, <1>5 DEF Spots

(* The pieces of a kind in the blocks, and the blocks that are calls.        *)
KeptIn(bs, kind) ==
  P!FlattenSeq([i \in 1 .. Len(bs) |-> IF bs[i].kind = kind THEN bs[i].pieces ELSE << >>])
CallsIn(bs) ==
  P!FlattenSeq([i \in 1 .. Len(bs) |-> IF bs[i].kind = "tool" THEN << bs[i] >> ELSE << >>])

(* What is joined of the blocks, one by one.                                 *)
JoinOf(F, bs) == P!FlattenSeq([i \in 1 .. Len(bs) |-> F[bs[i]]])
JoinMore(F, U, bs, b) ==
  /\ JoinOf(F, bs) \in Seq(U)
  /\ JoinOf(F, Append(bs, b)) = JoinOf(F, bs) \o F[b]
(* What is joined of one more block.                                         *)
LEMMA JoinAppend ==
  ASSUME NEW U, NEW F \in [Blocks -> Seq(U)], NEW bs \in Seq(Blocks), NEW b \in Blocks
  PROVE  JoinMore(F, U, bs, b)
<1>1. PICK cs \in Seq(Blocks) : cs = Append(bs, b) BY AppendProperties
<1>2. PICK n \in Nat : n = Len(bs) OBVIOUS
<1>3. Len(cs) = n + 1 /\ cs[n + 1] = b /\ \A i \in 1 .. n : cs[i] = bs[i] BY <1>1, <1>2
<1> DEFINE f == [i \in 1 .. n + 1 |-> F[cs[i]]]
           g == [i \in 1 .. n |-> f[i]]
<1>4. f \in [1 .. n + 1 -> Seq(U)]
  <2>1. \A i \in 1 .. n + 1 : cs[i] \in Blocks BY <1>3
  <2> QED BY <2>1
<1>5. JoinOf(F, cs) = P!FlattenSeq(f) BY <1>3 DEF JoinOf
<1>6. LastIs(Seq(U), n, f) BY <1>4, LastOf
<1>7. n + 1 \in 1 .. n + 1 /\ \A i \in 1 .. n : i \in 1 .. n + 1 OBVIOUS
<1>8. f[n + 1] = F[b] BY <1>3, <1>7
<1>9. g = [i \in 1 .. n |-> F[bs[i]]]
  <2>1. \A i \in 1 .. n : f[i] = F[bs[i]] BY <1>3, <1>7
  <2> HIDE DEF f
  <2> QED BY <2>1
<1>10. F[b] \in Seq(U) OBVIOUS
<1> HIDE DEF f
<1>11. g \in Seq(Seq(U)) /\ f = Append(g, F[b]) BY <1>6, <1>8 DEF LastIs
<1> HIDE DEF g
<1>12. Joined(U, g, F[b]) BY <1>10, <1>11, FlattenAppend
<1>13. JoinOf(F, bs) = P!FlattenSeq(g) BY <1>2, <1>9 DEF JoinOf
<1> QED BY <1>1, <1>5, <1>11, <1>12, <1>13 DEF Joined, JoinMore

KeptMore(bs, b, kind) ==
  /\ KeptIn(bs, kind) \in Seq(Pieces)
  /\ KeptIn(Append(bs, b), kind)
       = KeptIn(bs, kind) \o (IF b.kind = kind THEN b.pieces ELSE << >>)
(* One more block keeps its pieces for its kind.                             *)
LEMMA KeptAppend ==
  ASSUME NEW bs \in Seq(Blocks), NEW b \in Blocks, NEW kind
  PROVE  KeptMore(bs, b, kind)
<1>1. PICK F : F = [x \in Blocks |-> IF x.kind = kind THEN x.pieces ELSE << >>] OBVIOUS
<1>2. F \in [Blocks -> Seq(Pieces)]
  <2>1. \A x \in Blocks : F[x] \in Seq(Pieces) BY <1>1 DEF Blocks
  <2> QED BY <1>1, <2>1
<1>3. JoinMore(F, Pieces, bs, b) BY <1>2, JoinAppend
<1>4. ASSUME NEW cs \in Seq(Blocks) PROVE KeptIn(cs, kind) = JoinOf(F, cs)
  <2>1. \A i \in 1 .. Len(cs) :
          F[cs[i]] = IF cs[i].kind = kind THEN cs[i].pieces ELSE << >>
    BY <1>1
  <2> QED BY <2>1 DEF KeptIn, JoinOf
<1>5. PICK cs \in Seq(Blocks) : cs = Append(bs, b) BY AppendProperties
<1>6. KeptIn(cs, kind) = JoinOf(F, cs) /\ KeptIn(bs, kind) = JoinOf(F, bs) BY <1>4
<1> QED BY <1>1, <1>3, <1>5, <1>6 DEF JoinMore, KeptMore

CallsMore(bs, b) ==
  /\ CallsIn(bs) \in Seq(Blocks)
  /\ CallsIn(Append(bs, b)) = CallsIn(bs) \o (IF b.kind = "tool" THEN << b >> ELSE << >>)
(* One more block is a call or is none.                                      *)
LEMMA CallsAppend ==
  ASSUME NEW bs \in Seq(Blocks), NEW b \in Blocks
  PROVE  CallsMore(bs, b)
<1>1. PICK F : F = [x \in Blocks |-> IF x.kind = "tool" THEN << x >> ELSE << >>] OBVIOUS
<1>2. F \in [Blocks -> Seq(Blocks)]
  <2>1. \A x \in Blocks : << x >> \in Seq(Blocks) /\ << >> \in Seq(Blocks) OBVIOUS
  <2>2. \A x \in Blocks : F[x] \in Seq(Blocks) BY <1>1, <2>1
  <2> QED BY <1>1, <2>2
<1>3. JoinMore(F, Blocks, bs, b) BY <1>2, JoinAppend
<1>4. ASSUME NEW cs \in Seq(Blocks) PROVE CallsIn(cs) = JoinOf(F, cs)
  <2>1. \A i \in 1 .. Len(cs) : F[cs[i]] = IF cs[i].kind = "tool" THEN << cs[i] >> ELSE << >>
    BY <1>1
  <2> QED BY <2>1 DEF CallsIn, JoinOf
<1>5. PICK cs \in Seq(Blocks) : cs = Append(bs, b) BY AppendProperties
<1>6. CallsIn(cs) = JoinOf(F, cs) /\ CallsIn(bs) = JoinOf(F, bs) BY <1>4
<1> QED BY <1>1, <1>3, <1>5, <1>6 DEF JoinMore, CallsMore

-----------------------------------------------------------------------------
(* What the chunks of a response say.                                        *)
PlainChunks == [is : {"text", "thinking", "transient error", "error", "junk", "end"}]
ToolChunks  == [is : {"tool", "arguments", "tool end"}, tool : Nat \ {0}]
AllChunks   == PlainChunks \union ToolChunks

SaidAt(sn, kind) == {i \in 1 .. Len(sn) : sn[i].is = kind}
ArgsAt(sn, k)    == {i \in 1 .. Len(sn) : sn[i] = [is |-> "arguments", tool |-> k]}
SentIn(sn, a, kind) == Spots(a, Len(sn), SaidAt(sn, kind))
ArgsIn(sn, a, k)    == Spots(a, Len(sn), ArgsAt(sn, k))
OpenedIn(sn) == Cardinality(SaidAt(sn, "tool"))
EndedIn(sn, k) == \E i \in 1 .. Len(sn) : sn[i] = [is |-> "tool end", tool |-> k]
ClosedIn(sn) == {k \in 1 .. OpenedIn(sn) : EndedIn(sn, k)}

\* a chunk of a tool is of one that was opened
Known(sn) == /\ sn \in Seq(AllChunks)
             /\ \A i \in 1 .. Len(sn) : sn[i] \in ToolChunks => sn[i].tool \in 1 .. OpenedIn(sn)

ChunkMore(sn, c, a) ==
  LET n == Len(sn) + 1
      s == Append(sn, c)
  IN  /\ s \in Seq(AllChunks) /\ Len(s) = n /\ s[n] = c /\ \A i \in 1 .. Len(sn) : s[i] = sn[i]
      /\ OpenedIn(sn) \in Nat
      /\ OpenedIn(s) = IF c.is = "tool" THEN OpenedIn(sn) + 1 ELSE OpenedIn(sn)
      /\ \A kind : /\ SentIn(sn, a, kind) \in Seq({a} \X Nat)
                   /\ SentIn(s, a, kind)
                        = SentIn(sn, a, kind) \o Spot(a, n, SaidAt(s, kind))
                   /\ n \in SaidAt(s, kind) <=> c.is = kind
      /\ \A k : /\ ArgsIn(sn, a, k) \in Seq({a} \X Nat)
                /\ ArgsIn(s, a, k) = ArgsIn(sn, a, k) \o Spot(a, n, ArgsAt(s, k))
                /\ n \in ArgsAt(s, k) <=> c = [is |-> "arguments", tool |-> k]
(* What one more chunk changes of what was said, opened and ended.           *)
LEMMA ChunkGrows ==
  ASSUME NEW sn \in Seq(AllChunks), NEW c \in AllChunks, NEW a
  PROVE  ChunkMore(sn, c, a)
<1>1. PICK m \in Nat : m = Len(sn) OBVIOUS
<1>2. PICK s \in Seq(AllChunks) : s = Append(sn, c) BY AppendProperties
<1>3. Len(s) = m + 1 /\ s[m + 1] = c /\ \A i \in 1 .. m : s[i] = sn[i] BY <1>1, <1>2
<1>4. /\ m + 1 \in 1 .. m + 1 /\ m + 1 \notin 1 .. m
      /\ \A i : i \in 1 .. m + 1 <=> i \in 1 .. m \/ i = m + 1
  OBVIOUS
<1>5. \A kind : /\ m + 1 \in SaidAt(s, kind) <=> c.is = kind
                /\ \A i \in 1 .. m : i \in SaidAt(sn, kind) <=> i \in SaidAt(s, kind)
  BY <1>1, <1>3, <1>4 DEF SaidAt
<1>6. \A k : /\ m + 1 \in ArgsAt(s, k) <=> c = [is |-> "arguments", tool |-> k]
             /\ \A i \in 1 .. m : i \in ArgsAt(sn, k) <=> i \in ArgsAt(s, k)
  BY <1>1, <1>3, <1>4 DEF ArgsAt
<1>7. ASSUME NEW kind
      PROVE  /\ SentIn(sn, a, kind) \in Seq({a} \X Nat)
             /\ SentIn(s, a, kind) = SentIn(sn, a, kind) \o Spot(a, m + 1, SaidAt(s, kind))
  <2>1. SpotsMore(a, m, SaidAt(sn, kind), SaidAt(s, kind)) BY <1>5, SpotsGrow
  <2> QED BY <1>1, <1>3, <2>1 DEF SpotsMore, SentIn
<1>8. ASSUME NEW k
      PROVE  /\ ArgsIn(sn, a, k) \in Seq({a} \X Nat)
             /\ ArgsIn(s, a, k) = ArgsIn(sn, a, k) \o Spot(a, m + 1, ArgsAt(s, k))
  <2>1. SpotsMore(a, m, ArgsAt(sn, k), ArgsAt(s, k)) BY <1>6, SpotsGrow
  <2> QED BY <1>1, <1>3, <2>1 DEF SpotsMore, ArgsIn
<1>9. /\ OpenedIn(sn) \in Nat
      /\ OpenedIn(s) = IF c.is = "tool" THEN OpenedIn(sn) + 1 ELSE OpenedIn(sn)
  <2>1. PICK O : O = SaidAt(sn, "tool") OBVIOUS
  <2>2. O \subseteq 1 .. m BY <1>1, <2>1 DEF SaidAt
  <2>3. IsFiniteSet(O)
    <3>1. IsFiniteSet(1 .. m) BY FS_Interval
    <3> QED BY <2>2, <3>1, FS_Subset
  <2>4. Cardinality(O) \in Nat BY <2>3, FS_CardinalityType
  <2>5. SaidAt(s, "tool") = IF c.is = "tool" THEN O \union {m + 1} ELSE O
    <3>1. SaidAt(s, "tool") \subseteq 1 .. m + 1 BY <1>3 DEF SaidAt
    <3> QED BY <1>4, <1>5, <2>1, <2>2, <3>1
  <2>6. Cardinality(O \union {m + 1}) = Cardinality(O) + 1 BY <1>4, <2>2, <2>3, FS_AddElement
  <2> QED BY <2>1, <2>4, <2>5, <2>6 DEF OpenedIn
<1> QED BY <1>1, <1>2, <1>3, <1>5, <1>6, <1>7, <1>8, <1>9 DEF ChunkMore

(* Which tools were opened and which of them have ended.                     *)
ToolsMore(sn, c) ==
  LET s == Append(sn, c)
  IN  /\ Known(s)
      /\ IF c.is = "tool end" THEN ClosedIn(s) = ClosedIn(sn) \union {c.tool}
                              ELSE ClosedIn(s) = ClosedIn(sn)
Allowed(sn, c) ==
  /\ c \in AllChunks
  /\ c.is = "tool" => c.tool = OpenedIn(sn) + 1
  /\ c.is \in {"arguments", "tool end"} => c.tool \in 1 .. OpenedIn(sn)
(* A chunk that may come keeps the tools known, and its end closes one.      *)
LEMMA ToolsGrow ==
  ASSUME NEW sn, Known(sn), NEW c \in AllChunks, Allowed(sn, c)
  PROVE  ToolsMore(sn, c)
<1>1. sn \in Seq(AllChunks) BY DEF Known
<1>2. PICK m \in Nat : m = Len(sn) BY <1>1
<1>3. ChunkMore(sn, c, 0) BY <1>1, ChunkGrows
<1>4. PICK s \in Seq(AllChunks) : s = Append(sn, c) BY <1>3 DEF ChunkMore
<1>5. PICK o \in Nat : o = OpenedIn(sn) BY <1>3 DEF ChunkMore
<1>6. /\ Len(s) = m + 1 /\ s[m + 1] = c /\ \A i \in 1 .. m : s[i] = sn[i]
      /\ OpenedIn(s) = IF c.is = "tool" THEN o + 1 ELSE o
  BY <1>2, <1>3, <1>4, <1>5 DEF ChunkMore
<1>7. \A i \in 1 .. m : sn[i] \in ToolChunks => sn[i].tool \in 1 .. o BY <1>2, <1>5 DEF Known
<1>8. c \in ToolChunks => c.is \in {"tool", "arguments", "tool end"} BY DEF ToolChunks
<1>9. Known(s)
  <2> SUFFICES ASSUME NEW i \in 1 .. m + 1, s[i] \in ToolChunks
               PROVE  s[i].tool \in 1 .. OpenedIn(s)
    BY <1>6 DEF Known
  <2>1. CASE i = m + 1
    <3>1. s[i] = c BY <1>6, <2>1
    <3>2. c.is = "tool" => c.tool = o + 1 BY <1>5 DEF Allowed
    <3>3. c.is \in {"arguments", "tool end"} => c.tool \in 1 .. o BY <1>5 DEF Allowed
    <3>4. CASE c.is = "tool"
      <4>1. o + 1 \in 1 .. o + 1 OBVIOUS
      <4> QED BY <1>6, <3>1, <3>2, <3>4, <4>1
    <3>5. CASE c.is \in {"arguments", "tool end"} BY <1>6, <3>1, <3>3, <3>5
    <3> QED BY <1>8, <3>1, <3>4, <3>5
  <2>2. CASE i # m + 1
    <3>1. i \in 1 .. m BY <2>2
    <3>2. s[i] = sn[i] /\ sn[i].tool \in 1 .. o BY <1>6, <1>7, <3>1
    <3> QED BY <1>6, <3>2
  <2> QED BY <2>1, <2>2
<1>10. \A k : EndedIn(s, k) <=> EndedIn(sn, k) \/ c = [is |-> "tool end", tool |-> k]
  <2> TAKE k
  <2>1. \A i : i \in 1 .. m + 1 <=> i \in 1 .. m \/ i = m + 1 OBVIOUS
  <2> QED BY <1>2, <1>6, <2>1 DEF EndedIn
<1>11. \A k : LET e == [is |-> "tool end", tool |-> k]
              IN  /\ e.is = "tool end" /\ e.tool = k
                  /\ e \in AllChunks => e \in ToolChunks
  BY DEF AllChunks, PlainChunks
<1>12. \A k : EndedIn(sn, k) => k \in 1 .. o
  <2> TAKE k
  <2> DEFINE e == [is |-> "tool end", tool |-> k]
  <2>1. \A i \in 1 .. m : sn[i] \in AllChunks BY <1>1, <1>2
  <2>2. e.tool = k /\ (e \in AllChunks => e \in ToolChunks) BY <1>11
  <2>3. EndedIn(sn, k) => \E i \in 1 .. m : sn[i] = e BY <1>2 DEF EndedIn
  <2> HIDE DEF e
  <2>4. SUFFICES ASSUME NEW i \in 1 .. m, sn[i] = e PROVE k \in 1 .. o BY <2>3
  <2>5. sn[i] \in ToolChunks BY <2>1, <2>2, <2>4
  <2>6. sn[i].tool \in 1 .. o BY <1>7, <2>5
  <2> QED BY <2>2, <2>4, <2>6
<1>13. CASE c.is = "tool end"
  <2>1. c \in ToolChunks BY <1>13 DEF AllChunks, PlainChunks
  <2>2. c = [is |-> "tool end", tool |-> c.tool] BY <1>13, <2>1 DEF ToolChunks
  <2>3. \A k : c = [is |-> "tool end", tool |-> k] <=> k = c.tool BY <1>11, <2>2, Zenon
  <2>4. OpenedIn(s) = o /\ c.tool \in 1 .. o BY <1>5, <1>6, <1>13 DEF Allowed
  <2>5. ClosedIn(s) = ClosedIn(sn) \union {c.tool} BY <1>5, <1>10, <2>3, <2>4 DEF ClosedIn
  <2> QED BY <1>4, <1>9, <1>13, <2>5 DEF ToolsMore
<1>14. CASE c.is # "tool end"
  <2>1. \A k : c # [is |-> "tool end", tool |-> k] BY <1>14, <1>11, Zenon
  <2>2. \A k : EndedIn(s, k) <=> EndedIn(sn, k) BY <1>10, <2>1
  <2>3. \A k : k \in 1 .. o => k \in 1 .. OpenedIn(s) BY <1>6
  <2>4. ClosedIn(s) = ClosedIn(sn) BY <1>5, <1>12, <2>2, <2>3 DEF ClosedIn
  <2> QED BY <1>4, <1>9, <1>14, <2>4 DEF ToolsMore
<1> QED BY <1>13, <1>14

-----------------------------------------------------------------------------
(* Joining one more element.                                                 *)
Pushed(a, b, x) == a \o Append(b, x) = (a \o b) \o << x >>
(* An element is pushed to the second part or to the whole.                  *)
LEMMA PushLast ==
  ASSUME NEW U, NEW a \in Seq(U), NEW b \in Seq(U), NEW x \in U
  PROVE  Pushed(a, b, x)
<1>1. Append(b, x) = b \o << x >> BY AppendIsConcat
<1>2. << x >> \in Seq(U) OBVIOUS
<1>3. (a \o b) \o << x >> = a \o (b \o << x >>) BY <1>2, ConcatAssociative
<1> QED BY <1>1, <1>3 DEF Pushed

(* A piece of text or of thinking is added to what was kept of its kind.     *)
Added(bs, cs, kind, piece) ==
  /\ cs \in Seq(Blocks) /\ CallsIn(cs) = CallsIn(bs)
  /\ \A K \in {"text", "thinking"} :
       KeptIn(cs, K) = KeptIn(bs, K) \o (IF K = kind THEN << piece >> ELSE << >>)
(* A grown block keeps one piece more of its kind, the calls are the same.   *)
LEMMA GrownAdds ==
  ASSUME NEW bs \in Seq(Blocks), NEW cs, NEW kind \in {"text", "thinking"}, NEW piece \in Pieces,
         Grown(bs, cs, kind, piece)
  PROVE  Added(bs, cs, kind, piece)
<1>1. << piece >> \in Seq(Pieces) /\ << >> \in Seq(Pieces) OBVIOUS
<1>2. CASE cs = Append(bs, [kind |-> kind, pieces |-> << piece >>])
  <2>1. PICK b \in Blocks : b = [kind |-> kind, pieces |-> << piece >>]
    BY <1>1 DEF Blocks, Kinds
  <2>2. cs \in Seq(Blocks) /\ cs = Append(bs, b) BY <1>2, <2>1, AppendProperties
  <2>3. \A K : KeptMore(bs, b, K) BY KeptAppend
  <2>4. CallsMore(bs, b) BY CallsAppend
  <2>5. CallsIn(bs) \o << >> = CallsIn(bs) BY <2>4, ConcatEmptySeq DEF CallsMore
  <2>6. CallsIn(cs) = CallsIn(bs) BY <2>1, <2>2, <2>4, <2>5 DEF CallsMore
  <2>7. \A K \in {"text", "thinking"} :
          KeptIn(cs, K) = KeptIn(bs, K) \o (IF K = kind THEN << piece >> ELSE << >>)
    BY <2>1, <2>2, <2>3 DEF KeptMore
  <2> QED BY <2>2, <2>6, <2>7 DEF Added
<1>3. CASE \E f \in Seq(Blocks), b \in Blocks :
             /\ bs = Append(f, b) /\ b.kind = kind
             /\ cs = Append(f, [kind |-> kind, pieces |-> Append(b.pieces, piece)])
  <2>1. PICK f \in Seq(Blocks), b \in Blocks :
             /\ bs = Append(f, b) /\ b.kind = kind
             /\ cs = Append(f, [kind |-> kind, pieces |-> Append(b.pieces, piece)])
    BY <1>3
  <2>2. b.pieces \in Seq(Pieces) BY DEF Blocks
  <2>3. PICK ps \in Seq(Pieces) : ps = Append(b.pieces, piece) BY <2>2, AppendProperties
  <2>4. PICK c \in Blocks : c = [kind |-> kind, pieces |-> ps] BY DEF Blocks, Kinds
  <2>5. cs \in Seq(Blocks) /\ cs = Append(f, c) BY <2>1, <2>3, <2>4, AppendProperties
  <2>6. CallsMore(f, b) /\ CallsMore(f, c) BY CallsAppend
  <2>7. CallsIn(cs) = CallsIn(bs) BY <2>1, <2>4, <2>5, <2>6 DEF CallsMore
  <2>8. ASSUME NEW K \in {"text", "thinking"}
        PROVE  KeptIn(cs, K) = KeptIn(bs, K) \o (IF K = kind THEN << piece >> ELSE << >>)
    <3>1. KeptMore(f, b, K) /\ KeptMore(f, c, K) BY KeptAppend
    <3>2. PICK k \in Seq(Pieces) : k = KeptIn(f, K) BY <3>1 DEF KeptMore
    <3>3. CASE K = kind
      <4>1. KeptIn(bs, K) = k \o b.pieces BY <2>1, <3>1, <3>2, <3>3 DEF KeptMore
      <4>2. KeptIn(cs, K) = k \o ps BY <2>4, <2>5, <3>1, <3>2, <3>3 DEF KeptMore
      <4>3. Pushed(k, b.pieces, piece) BY <2>2, PushLast
      <4> QED BY <2>3, <3>3, <4>1, <4>2, <4>3 DEF Pushed
    <3>4. CASE K # kind
      <4>1. KeptIn(bs, K) = k \o << >> /\ KeptIn(cs, K) = k \o << >>
        BY <2>1, <2>4, <2>5, <3>1, <3>2, <3>4 DEF KeptMore
      <4>2. k \o << >> = k BY ConcatEmptySeq
      <4> QED BY <3>4, <4>1, <4>2
    <3> QED BY <3>3, <3>4
  <2> QED BY <2>5, <2>7, <2>8 DEF Added
<1> QED BY <1>2, <1>3 DEF Grown

(* A call is added to the calls and to nothing else.                         *)
LEMMA CallAdds ==
  ASSUME NEW bs \in Seq(Blocks), NEW b \in Blocks, b.kind = "tool"
  PROVE  /\ Append(bs, b) \in Seq(Blocks)
         /\ CallsIn(bs) \in Seq(Blocks) /\ CallsIn(Append(bs, b)) = CallsIn(bs) \o << b >>
         /\ \A K \in {"text", "thinking"} : KeptIn(Append(bs, b), K) = KeptIn(bs, K)
<1>1. PICK cs \in Seq(Blocks) : cs = Append(bs, b) BY AppendProperties
<1>2. CallsMore(bs, b) BY CallsAppend
<1>3. CallsIn(bs) \in Seq(Blocks) /\ CallsIn(cs) = CallsIn(bs) \o << b >>
  BY <1>1, <1>2 DEF CallsMore
<1>4. ASSUME NEW K \in {"text", "thinking"} PROVE KeptIn(cs, K) = KeptIn(bs, K)
  <2>1. KeptMore(bs, b, K) BY KeptAppend
  <2>2. PICK k \in Seq(Pieces) : k = KeptIn(bs, K) BY <2>1 DEF KeptMore
  <2>3. KeptIn(cs, K) = k \o << >> BY <1>1, <2>1, <2>2 DEF KeptMore
  <2>4. k \o << >> = k BY ConcatEmptySeq
  <2> QED BY <2>2, <2>3, <2>4
<1> QED BY <1>1, <1>3, <1>4

(* Nothing is asked for again of which the user saw a part: what the blocks  *)
(* hold is of this attempt, or thinking of the Codex adapter.                *)
OnlyThinking(pr, bs) == \A i \in 1 .. Len(bs) : pr = "codex" /\ bs[i].kind = "thinking"
Mine(pr, a, bs) ==
  \A b \in 1 .. Len(bs) : \A i \in 1 .. Len(bs[b].pieces) :
    bs[b].pieces[i][1] = a \/ (pr = "codex" /\ bs[b].kind = "thinking")

(* Thinking of the Codex adapter may be of an attempt that was given up.     *)
LEMMA ThinkingIsMine ==
  ASSUME NEW pr, NEW a, NEW bs, OnlyThinking(pr, bs)
  PROVE  Mine(pr, a, bs)
BY DEF OnlyThinking, Mine

(* Of blocks that are thinking, nothing else is kept.                        *)
LEMMA ThinkingIsAll ==
  ASSUME NEW pr, NEW bs \in Seq(Blocks), OnlyThinking(pr, bs)
  PROVE  /\ KeptIn(bs, "text") = << >> /\ CallsIn(bs) = << >>
         /\ pr # "codex" => KeptIn(bs, "thinking") = << >>
<1>1. PICK n \in Nat : n = Len(bs) OBVIOUS
<1>2. \A i \in 1 .. n : bs[i].kind = "thinking" BY <1>1 DEF OnlyThinking
<1>3. KeptIn(bs, "text") = << >>
  <2>1. PICK ps : ps = [i \in 1 .. n |-> IF bs[i].kind = "text" THEN bs[i].pieces ELSE << >>]
    OBVIOUS
  <2>2. \A i \in 1 .. n : ps[i] = << >> BY <1>2, <2>1
  <2>3. ps \in Seq(Seq(Pieces)) /\ Len(ps) = n
    <3>1. << >> \in Seq(Pieces) OBVIOUS
    <3>2. ps \in [1 .. n -> Seq(Pieces)] BY <2>1, <2>2, <3>1
    <3> QED BY <3>2
  <2>4. P!FlattenSeq(ps) = << >> BY <2>2, <2>3, FlattenNothing
  <2> QED BY <1>1, <2>1, <2>4 DEF KeptIn
<1>4. CallsIn(bs) = << >>
  <2>1. PICK ps : ps = [i \in 1 .. n |-> IF bs[i].kind = "tool" THEN << bs[i] >> ELSE << >>]
    OBVIOUS
  <2>2. \A i \in 1 .. n : ps[i] = << >> BY <1>2, <2>1
  <2>3. ps \in Seq(Seq(Blocks)) /\ Len(ps) = n
    <3>1. << >> \in Seq(Blocks) OBVIOUS
    <3>2. ps \in [1 .. n -> Seq(Blocks)] BY <2>1, <2>2, <3>1
    <3> QED BY <3>2
  <2>4. P!FlattenSeq(ps) = << >> BY <2>2, <2>3, FlattenNothing
  <2> QED BY <1>1, <2>1, <2>4 DEF CallsIn
<1>5. ASSUME pr # "codex" PROVE KeptIn(bs, "thinking") = << >>
  <2>1. n = 0 BY <1>1, <1>5 DEF OnlyThinking
  <2>2. PICK ps : ps = [i \in 1 .. n |-> IF bs[i].kind = "thinking" THEN bs[i].pieces ELSE << >>]
    OBVIOUS
  <2>3. ps \in Seq(Seq(Pieces)) /\ Len(ps) = 0 BY <2>1, <2>2
  <2>4. \A k \in 1 .. Len(ps) : ps[k] = << >> BY <2>3
  <2>5. P!FlattenSeq(ps) = << >> BY <2>3, <2>4, FlattenNothing
  <2> QED BY <1>1, <2>2, <2>5 DEF KeptIn
<1> QED BY <1>3, <1>4, <1>5

(* A new block, or a new piece of the last one, of this attempt.             *)
LEMMA AppendIsMine ==
  ASSUME NEW pr, NEW a, NEW bs \in Seq(Blocks), Mine(pr, a, bs), NEW b \in Blocks,
         \A i \in 1 .. Len(b.pieces) : b.pieces[i][1] = a \/ (pr = "codex" /\ b.kind = "thinking")
  PROVE  Mine(pr, a, Append(bs, b))
<1>1. PICK n \in Nat : n = Len(bs) OBVIOUS
<1>2. PICK cs \in Seq(Blocks) : cs = Append(bs, b) BY AppendProperties
<1>3. Len(cs) = n + 1 /\ cs[n + 1] = b /\ \A i \in 1 .. n : cs[i] = bs[i] BY <1>1, <1>2
<1>4. ASSUME NEW j \in 1 .. n + 1, NEW i \in 1 .. Len(cs[j].pieces)
      PROVE  cs[j].pieces[i][1] = a \/ (pr = "codex" /\ cs[j].kind = "thinking")
  <2>1. CASE j = n + 1 BY <1>3, <2>1
  <2>2. CASE j # n + 1
    <3>1. j \in 1 .. n BY <2>2
    <3> QED BY <1>1, <1>3, <3>1 DEF Mine
  <2> QED BY <2>1, <2>2
<1> QED BY <1>2, <1>3, <1>4 DEF Mine

(* A piece of this attempt keeps the blocks of this attempt.                 *)
LEMMA GrownIsMine ==
  ASSUME NEW pr, NEW a \in Nat, NEW bs \in Seq(Blocks), Mine(pr, a, bs),
         NEW cs, NEW kind \in {"text", "thinking"}, NEW i \in Nat, Grown(bs, cs, kind, <<a, i>>)
  PROVE  /\ Mine(pr, a, cs)
         /\ kind = "thinking" /\ OnlyThinking(pr, bs) /\ pr = "codex" => OnlyThinking(pr, cs)
<1>1. PICK piece \in Pieces : piece = <<a, i>> BY DEF Pieces
<1>2. CASE cs = Append(bs, [kind |-> kind, pieces |-> << piece >>])
  <2>1. << piece >> \in Seq(Pieces) /\ piece[1] = a BY <1>1
  <2>2. PICK b \in Blocks : b = [kind |-> kind, pieces |-> << piece >>]
    BY <2>1 DEF Blocks, Kinds
  <2>3. \A j \in 1 .. Len(b.pieces) : b.pieces[j][1] = a BY <2>1, <2>2
  <2>4. Mine(pr, a, Append(bs, b)) BY <2>3, AppendIsMine
  <2>5. cs = Append(bs, b) BY <1>2, <2>2
  <2>6. ASSUME kind = "thinking", OnlyThinking(pr, bs), pr = "codex" PROVE OnlyThinking(pr, cs)
    <3>1. PICK n \in Nat : n = Len(bs) OBVIOUS
    <3>2. Len(cs) = n + 1 /\ cs[n + 1] = b /\ \A j \in 1 .. n : cs[j] = bs[j] BY <2>5, <3>1
    <3>3. \A j \in 1 .. n + 1 : j \in 1 .. n \/ j = n + 1 BY <3>1
    <3>4. b.kind = "thinking" BY <2>2, <2>6
    <3> QED BY <2>6, <3>1, <3>2, <3>3, <3>4 DEF OnlyThinking
  <2> QED BY <2>4, <2>5, <2>6
<1>3. ASSUME NEW f \in Seq(Blocks), NEW b \in Blocks, bs = Append(f, b), b.kind = kind,
             cs = Append(f, [kind |-> kind, pieces |-> Append(b.pieces, piece)])
      PROVE  /\ Mine(pr, a, cs)
             /\ kind = "thinking" /\ OnlyThinking(pr, bs) /\ pr = "codex" => OnlyThinking(pr, cs)
  <2>1. PICK n \in Nat : n = Len(f) OBVIOUS
  <2>2. Len(bs) = n + 1 /\ bs[n + 1] = b /\ \A j \in 1 .. n : bs[j] = f[j] BY <1>3, <2>1
  <2>3. n + 1 \in 1 .. n + 1 /\ \A j \in 1 .. n : j \in 1 .. n + 1 OBVIOUS
  <2>4. b.pieces \in Seq(Pieces) BY DEF Blocks
  <2>5. PICK ps \in Seq(Pieces) : ps = Append(b.pieces, piece) BY <2>4, AppendProperties
  <2>6. PICK c \in Blocks : c = [kind |-> kind, pieces |-> ps] BY DEF Blocks, Kinds
  <2>7. cs = Append(f, c) BY <1>3, <2>5, <2>6
  <2>8. Mine(pr, a, f) BY <2>1, <2>2, <2>3 DEF Mine
  <2>9. \A j \in 1 .. Len(b.pieces) : b.pieces[j][1] = a \/ (pr = "codex" /\ kind = "thinking")
    BY <1>3, <2>2, <2>3 DEF Mine
  <2>10. \A j \in 1 .. Len(c.pieces) : c.pieces[j][1] = a \/ (pr = "codex" /\ c.kind = "thinking")
    <3>1. PICK m \in Nat, q \in Seq(Pieces) : q = b.pieces /\ m = Len(q) BY <2>4
    <3>2. Len(ps) = m + 1 /\ ps[m + 1] = piece /\ \A j \in 1 .. m : ps[j] = q[j]
      BY <2>5, <3>1
    <3>3. ASSUME NEW j \in 1 .. m + 1
          PROVE  ps[j][1] = a \/ (pr = "codex" /\ kind = "thinking")
      <4>1. CASE j = m + 1 BY <1>1, <3>2, <4>1
      <4>2. CASE j # m + 1
        <5>1. j \in 1 .. m BY <4>2
        <5> QED BY <2>9, <3>1, <3>2, <5>1
      <4> QED BY <4>1, <4>2
    <3> QED BY <2>6, <3>2, <3>3
  <2>11. Mine(pr, a, Append(f, c)) BY <2>8, <2>10, AppendIsMine
  <2>12. ASSUME kind = "thinking", OnlyThinking(pr, bs), pr = "codex" PROVE OnlyThinking(pr, cs)
    <3>1. Len(cs) = n + 1 /\ cs[n + 1] = c /\ \A j \in 1 .. n : cs[j] = f[j] BY <2>1, <2>7
    <3>2. c.kind = "thinking" BY <2>6, <2>12
    <3>3. \A j \in 1 .. n + 1 : j \in 1 .. n \/ j = n + 1 BY <2>1
    <3>4. \A j \in 1 .. n : f[j].kind = "thinking" BY <2>2, <2>3, <2>12 DEF OnlyThinking
    <3> QED BY <2>12, <3>1, <3>2, <3>3, <3>4 DEF OnlyThinking
  <2> QED BY <2>7, <2>11, <2>12
<1> QED BY <1>1, <1>2, <1>3 DEF Grown

-----------------------------------------------------------------------------
(* What one more chunk says, and of which tool's arguments it is.            *)
Speaks(sn, c, a) ==
  /\ \A kind : SentIn(Append(sn, c), a, kind)
                 = IF c.is = kind THEN SentIn(sn, a, kind) \o << <<a, Len(sn) + 1>> >>
                                  ELSE SentIn(sn, a, kind)
  /\ \A k : /\ ArgsIn(sn, a, k) \in Seq({a} \X Nat)
            /\ ArgsIn(Append(sn, c), a, k)
                 = IF c = [is |-> "arguments", tool |-> k]
                   THEN ArgsIn(sn, a, k) \o << <<a, Len(sn) + 1>> >> ELSE ArgsIn(sn, a, k)
(* A chunk says one piece of its kind, or of one tool's arguments.           *)
LEMMA ChunkSpeaks ==
  ASSUME NEW sn \in Seq(AllChunks), NEW c \in AllChunks, NEW a
  PROVE  Speaks(sn, c, a)
<1>1. PICK n \in Nat : n = Len(sn) + 1 OBVIOUS
<1>2. ChunkMore(sn, c, a) BY ChunkGrows
<1>3. PICK s : s = Append(sn, c) OBVIOUS
<1>4. ASSUME NEW kind
      PROVE  SentIn(s, a, kind) = IF c.is = kind THEN SentIn(sn, a, kind) \o << <<a, n>> >>
                                                 ELSE SentIn(sn, a, kind)
  <2>1. /\ SentIn(sn, a, kind) \in Seq({a} \X Nat)
        /\ SentIn(s, a, kind) = SentIn(sn, a, kind) \o Spot(a, n, SaidAt(s, kind))
        /\ n \in SaidAt(s, kind) <=> c.is = kind
    BY <1>1, <1>2, <1>3 DEF ChunkMore
  <2>2. CASE c.is = kind
    <3>1. Spot(a, n, SaidAt(s, kind)) = << <<a, n>> >> BY <2>1, <2>2 DEF Spot
    <3> QED BY <2>1, <2>2, <3>1
  <2>3. CASE c.is # kind
    <3>1. Spot(a, n, SaidAt(s, kind)) = << >> BY <2>1, <2>3 DEF Spot
    <3>2. SentIn(sn, a, kind) \o << >> = SentIn(sn, a, kind) BY <2>1, ConcatEmptySeq
    <3> QED BY <2>1, <2>3, <3>1, <3>2
  <2> QED BY <2>2, <2>3
<1>5. ASSUME NEW k
      PROVE  /\ ArgsIn(sn, a, k) \in Seq({a} \X Nat)
             /\ ArgsIn(s, a, k) = IF c = [is |-> "arguments", tool |-> k]
                                  THEN ArgsIn(sn, a, k) \o << <<a, n>> >> ELSE ArgsIn(sn, a, k)
  <2> DEFINE hit == c = [is |-> "arguments", tool |-> k]
  <2>1. /\ ArgsIn(sn, a, k) \in Seq({a} \X Nat)
        /\ ArgsIn(s, a, k) = ArgsIn(sn, a, k) \o Spot(a, n, ArgsAt(s, k))
        /\ n \in ArgsAt(s, k) <=> hit
    BY <1>1, <1>2, <1>3 DEF ChunkMore
  <2> HIDE DEF hit
  <2>2. CASE hit
    <3>1. Spot(a, n, ArgsAt(s, k)) = << <<a, n>> >> BY <2>1, <2>2 DEF Spot
    <3>2. ArgsIn(s, a, k) = ArgsIn(sn, a, k) \o << <<a, n>> >> BY <2>1, <3>1
    <3> QED BY <2>1, <2>2, <3>2 DEF hit
  <2>3. CASE ~hit
    <3>1. Spot(a, n, ArgsAt(s, k)) = << >> BY <2>1, <2>3 DEF Spot
    <3>2. ArgsIn(sn, a, k) \o << >> = ArgsIn(sn, a, k) BY <2>1, ConcatEmptySeq
    <3>3. ArgsIn(s, a, k) = ArgsIn(sn, a, k) BY <2>1, <3>1, <3>2
    <3> QED BY <2>1, <2>3, <3>3 DEF hit
  <2> QED BY <2>2, <2>3
<1> QED BY <1>1, <1>3, <1>4, <1>5 DEF Speaks

-----------------------------------------------------------------------------
(* While a request is under way, the blocks hold what its chunks said, the   *)
(* parser what they said of the tools, and as long as an attempt may be made *)
(* again the blocks hold only thinking of the Codex adapter.                 *)
Parsers(a) == [content : BOOLEAN, thinking : BOOLEAN, tools : Seq(Seq({a} \X Nat))]

TextsHeld(pr, a, sn, bs) ==
  /\ KeptIn(bs, "text") = SentIn(sn, a, "text")
  /\ pr # "codex" => KeptIn(bs, "thinking") = SentIn(sn, a, "thinking")
CallsHeld(pr, sn, bs) ==
  /\ pr \notin {"codex", "google"} => CallsIn(bs) = << >>
  /\ pr = "codex" => Len(CallsIn(bs)) = Cardinality(ClosedIn(sn))
ToolsHeld(pr, a, sn, tools) ==
  pr # "google" => /\ Len(tools) = OpenedIn(sn)
                   /\ \A k \in 1 .. OpenedIn(sn) : tools[k] = ArgsIn(sn, a, k)
Held(pr, a, sn, p, bs) ==
  /\ p \in Parsers(a) /\ Known(sn) /\ bs \in Seq(Blocks)
  /\ TextsHeld(pr, a, sn, bs) /\ CallsHeld(pr, sn, bs) /\ ToolsHeld(pr, a, sn, p.tools)
  /\ ~p.content => OnlyThinking(pr, bs)
  /\ Mine(pr, a, bs)

(* At the start of an attempt.                                               *)
LEMMA HeldAtFirst ==
  ASSUME NEW pr, NEW a \in Nat, NEW bs \in Seq(Blocks), OnlyThinking(pr, bs)
  PROVE  Held(pr, a, << >>, P!NewParser, bs)
<1>1. /\ KeptIn(bs, "text") = << >> /\ CallsIn(bs) = << >>
      /\ pr # "codex" => KeptIn(bs, "thinking") = << >>
  BY ThinkingIsAll
<1>2. Mine(pr, a, bs) BY ThinkingIsMine
<1>3. << >> \in Seq(AllChunks) /\ Len(<< >>) = 0 /\ 1 .. 0 = {} OBVIOUS
<1>4. SaidAt(<< >>, "tool") = {} BY <1>3 DEF SaidAt
<1>5. OpenedIn(<< >>) = 0 BY <1>4, FS_EmptySet DEF OpenedIn
<1>6. ClosedIn(<< >>) = {} BY <1>3, <1>5 DEF ClosedIn
<1>7. Cardinality({}) = 0 BY FS_EmptySet
<1>8. \A kind : SentIn(<< >>, a, kind) = << >>
  <2> TAKE kind
  <2>1. Spots(a, 0, SaidAt(<< >>, kind)) = << >>
    <3>1. \A i \in 1 .. 0 : i \notin SaidAt(<< >>, kind) OBVIOUS
    <3> QED BY <3>1, SpotsNone
  <2> QED BY <1>3, <2>1 DEF SentIn
<1>9. P!NewParser \in Parsers(a) /\ P!NewParser.tools = << >>
  <2>1. PICK no \in BOOLEAN : no = FALSE OBVIOUS
  <2>2. PICK ts \in Seq(Seq({a} \X Nat)) : ts = << >>
    <3>1. PICK U : U = Seq({a} \X Nat) OBVIOUS
    <3>2. << >> \in Seq(U) OBVIOUS
    <3> QED BY <3>1, <3>2
  <2>3. P!NewParser = [content |-> no, thinking |-> no, tools |-> ts]
    BY <2>1, <2>2 DEF P!NewParser
  <2>4. [content |-> no, thinking |-> no, tools |-> ts] \in Parsers(a) BY DEF Parsers
  <2> QED BY <2>2, <2>3, <2>4
<1>10. Known(<< >>) BY <1>3 DEF Known
<1>11. TextsHeld(pr, a, << >>, bs) BY <1>1, <1>8 DEF TextsHeld
<1>12. CallsHeld(pr, << >>, bs) BY <1>1, <1>3, <1>6, <1>7 DEF CallsHeld
<1>13. ToolsHeld(pr, a, << >>, << >>) BY <1>3, <1>5 DEF ToolsHeld
<1> QED BY <1>2, <1>9, <1>10, <1>11, <1>12, <1>13 DEF Held

(* The texts when nothing is said, and the tools when none is concerned.     *)
LEMMA Unsaid ==
  ASSUME NEW pr, NEW a, NEW sn \in Seq(AllChunks), NEW bs, NEW cs, TextsHeld(pr, a, sn, bs),
         NEW c \in AllChunks, c.is \notin {"text", "thinking"},
         \A K \in {"text", "thinking"} : KeptIn(cs, K) = KeptIn(bs, K)
  PROVE  TextsHeld(pr, a, Append(sn, c), cs)
<1>1. Speaks(sn, c, a) BY ChunkSpeaks
<1>2. \A K \in {"text", "thinking"} : SentIn(Append(sn, c), a, K) = SentIn(sn, a, K)
  BY <1>1 DEF Speaks
<1> QED BY <1>2 DEF TextsHeld

(* A chunk that concerns no tool leaves the builders as they are.            *)
LEMMA NoTool ==
  ASSUME NEW pr, NEW a, NEW sn \in Seq(AllChunks), NEW tools, ToolsHeld(pr, a, sn, tools),
         NEW c \in AllChunks, pr # "google" => c.is \notin {"tool", "arguments"}
  PROVE  ToolsHeld(pr, a, Append(sn, c), tools)
<1> SUFFICES ASSUME pr # "google"
             PROVE  /\ Len(tools) = OpenedIn(Append(sn, c))
                    /\ \A k \in 1 .. OpenedIn(Append(sn, c)) :
                         tools[k] = ArgsIn(Append(sn, c), a, k)
  BY DEF ToolsHeld
<1>1. Speaks(sn, c, a) /\ ChunkMore(sn, c, a) BY ChunkSpeaks, ChunkGrows
<1>2. OpenedIn(Append(sn, c)) = OpenedIn(sn) BY <1>1 DEF ChunkMore
<1>3. \A k : c # [is |-> "arguments", tool |-> k]
  <2>1. \A k : [is |-> "arguments", tool |-> k].is = "arguments" OBVIOUS
  <2>2. c.is # "arguments" OBVIOUS
  <2> QED BY <2>1, <2>2, Zenon
<1>4. \A k : ArgsIn(Append(sn, c), a, k) = ArgsIn(sn, a, k) BY <1>1, <1>3, Zenon DEF Speaks
<1> QED BY <1>2, <1>4 DEF ToolsHeld

(* Text and thinking are passed on as they come.                             *)
LEMMA HeldSaid ==
  ASSUME NEW pr, NEW a \in Nat, NEW sn, NEW p, NEW bs, Held(pr, a, sn, p, bs),
         NEW kind \in {"text", "thinking"}, NEW c, c = [is |-> kind],
         NEW q \in Parsers(a), q.tools = p.tools,
         q.content \/ (q.content = p.content /\ pr = "codex" /\ kind = "thinking"),
         NEW cs, Grown(bs, cs, kind, <<a, Len(sn) + 1>>)
  PROVE  Held(pr, a, Append(sn, c), q, cs)
<1>1. sn \in Seq(AllChunks) /\ bs \in Seq(Blocks) /\ Known(sn) /\ Mine(pr, a, bs)
  BY DEF Held, Known
<1>2. PICK n \in Nat : n = Len(sn) + 1 BY <1>1
<1>3. PICK piece \in Pieces : piece = <<a, n>> BY DEF Pieces
<1>4. Grown(bs, cs, kind, piece) BY <1>2, <1>3
<1>5. c \in AllChunks /\ c.is = kind BY DEF AllChunks, PlainChunks
<1>6. Added(bs, cs, kind, piece) BY <1>1, <1>4, GrownAdds
<1>7. Speaks(sn, c, a) BY <1>1, <1>5, ChunkSpeaks
<1>8. TextsHeld(pr, a, Append(sn, c), cs)
  <2>1. TextsHeld(pr, a, sn, bs) BY DEF Held
  <2>2. \A K \in {"text", "thinking"} :
          /\ KeptIn(cs, K) = KeptIn(bs, K) \o (IF K = kind THEN << piece >> ELSE << >>)
          /\ SentIn(Append(sn, c), a, K)
               = IF K = kind THEN SentIn(sn, a, K) \o << piece >> ELSE SentIn(sn, a, K)
    BY <1>2, <1>3, <1>5, <1>6, <1>7 DEF Added, Speaks
  <2>3. \A K \in {"text", "thinking"} : KeptIn(bs, K) \o << >> = KeptIn(bs, K)
    <3> TAKE K \in {"text", "thinking"}
    <3>1. PICK b \in Blocks : b = [kind |-> "text", pieces |-> << piece >>]
      <4>1. << piece >> \in Seq(Pieces) OBVIOUS
      <4> QED BY <4>1 DEF Blocks, Kinds
    <3>2. KeptMore(bs, b, K) BY <1>1, KeptAppend
    <3> QED BY <3>2, ConcatEmptySeq DEF KeptMore
  <2>4. \A K \in {"text", "thinking"} :
          KeptIn(bs, K) = SentIn(sn, a, K) => KeptIn(cs, K) = SentIn(Append(sn, c), a, K)
    BY <2>2, <2>3
  <2> QED BY <2>1, <2>4 DEF TextsHeld
<1>9. Allowed(sn, c) BY <1>5 DEF Allowed
<1>10. ToolsMore(sn, c) BY <1>1, <1>5, <1>9, ToolsGrow
<1>11. CallsHeld(pr, Append(sn, c), cs)
  BY <1>5, <1>6, <1>10 DEF Held, CallsHeld, Added, ToolsMore
<1>12. ToolsHeld(pr, a, Append(sn, c), q.tools) BY <1>1, <1>5, NoTool DEF Held
<1>13. /\ Mine(pr, a, cs)
       /\ kind = "thinking" /\ OnlyThinking(pr, bs) /\ pr = "codex" => OnlyThinking(pr, cs)
  <2>1. Grown(bs, cs, kind, <<a, n>>) BY <1>2
  <2> QED BY <1>1, <2>1, GrownIsMine
<1>14. ~q.content => OnlyThinking(pr, cs) BY <1>13 DEF Held
<1> QED BY <1>6, <1>8, <1>10, <1>11, <1>12, <1>13, <1>14 DEF Held, Added, ToolsMore

(* A chunk of which nothing becomes yet.                                     *)
LEMMA HeldQuiet ==
  ASSUME NEW pr, NEW a \in Nat, NEW sn, NEW p, NEW bs, Held(pr, a, sn, p, bs),
         NEW c \in AllChunks, c.is \notin {"text", "thinking"}, Allowed(sn, c),
         pr = "codex" => c.is # "tool end",
         NEW q \in Parsers(a), q.content \/ q.content = p.content,
         ToolsHeld(pr, a, Append(sn, c), q.tools)
  PROVE  Held(pr, a, Append(sn, c), q, bs)
<1>1. sn \in Seq(AllChunks) /\ Known(sn) BY DEF Held, Known
<1>2. TextsHeld(pr, a, Append(sn, c), bs) BY <1>1, Unsaid DEF Held
<1>3. ToolsMore(sn, c) BY <1>1, ToolsGrow
<1>4. CallsHeld(pr, Append(sn, c), bs) BY <1>3 DEF Held, CallsHeld, ToolsMore
<1> QED BY <1>2, <1>3, <1>4 DEF Held, ToolsMore

(* A tool is opened, and its arguments come.                                 *)
LEMMA ToolOpened ==
  ASSUME NEW pr, NEW a, NEW sn \in Seq(AllChunks), NEW tools \in Seq(Seq({a} \X Nat)),
         ToolsHeld(pr, a, sn, tools), Known(sn),
         NEW c, c = [is |-> "tool", tool |-> OpenedIn(sn) + 1]
  PROVE  ToolsHeld(pr, a, Append(sn, c), Append(tools, << >>))
<1> SUFFICES ASSUME pr # "google"
             PROVE  /\ Len(Append(tools, << >>)) = OpenedIn(Append(sn, c))
                    /\ \A k \in 1 .. OpenedIn(Append(sn, c)) :
                         Append(tools, << >>)[k] = ArgsIn(Append(sn, c), a, k)
  BY DEF ToolsHeld
<1>1. ChunkMore(sn, c, a)
  <2>1. OpenedIn(sn) \in Nat
    <3>1. PICK d \in AllChunks : d = [is |-> "text"] BY DEF AllChunks, PlainChunks
    <3>2. ChunkMore(sn, d, a) BY ChunkGrows
    <3> QED BY <3>2 DEF ChunkMore
  <2>2. PICK o \in Nat \ {0} : o = OpenedIn(sn) + 1 BY <2>1
  <2>3. c \in AllChunks BY <2>2 DEF AllChunks, ToolChunks
  <2> QED BY <2>3, ChunkGrows
<1>2. PICK o \in Nat : o = OpenedIn(sn) BY <1>1 DEF ChunkMore
<1>3. c \in AllChunks /\ c.is = "tool"
  <2>1. PICK j \in Nat \ {0} : j = OpenedIn(sn) + 1 BY <1>2
  <2>2. c \in AllChunks BY <2>1 DEF AllChunks, ToolChunks
  <2>3. \A k : [is |-> "tool", tool |-> k].is = "tool" OBVIOUS
  <2>4. c.is = "tool" BY <2>3, Zenon
  <2> QED BY <2>2, <2>4
<1>4. Speaks(sn, c, a) BY <1>3, ChunkSpeaks
<1>5. OpenedIn(Append(sn, c)) = o + 1 BY <1>1, <1>2, <1>3 DEF ChunkMore
<1>6. Len(tools) = o /\ \A k \in 1 .. o : tools[k] = ArgsIn(sn, a, k) BY <1>2 DEF ToolsHeld
<1>7. PICK ts : ts = Append(tools, << >>) OBVIOUS
<1>8. Len(ts) = o + 1 /\ ts[o + 1] = << >> /\ \A k \in 1 .. o : ts[k] = tools[k]
  BY <1>6, <1>7
<1>9. \A k : ArgsIn(Append(sn, c), a, k) = ArgsIn(sn, a, k)
  <2>1. \A k : [is |-> "arguments", tool |-> k].is = "arguments" OBVIOUS
  <2>2. c.is # "arguments" BY <1>3
  <2>3. \A k : c # [is |-> "arguments", tool |-> k] BY <2>1, <2>2, Zenon
  <2> QED BY <1>4, <2>3, Zenon DEF Speaks
<1>10. ArgsIn(sn, a, o + 1) = << >>
  <2>1. PICK m \in Nat : m = Len(sn) OBVIOUS
  <2>2. \A i \in 1 .. m : i \notin ArgsAt(sn, o + 1)
    <3>1. PICK e : e = [is |-> "arguments", tool |-> o + 1] OBVIOUS
    <3>2. e \in ToolChunks /\ e.tool = o + 1 BY <3>1 DEF ToolChunks
    <3>3. \A i \in 1 .. m : sn[i] \in ToolChunks => sn[i].tool \in 1 .. o
      BY <1>2, <2>1 DEF Known
    <3>4. o + 1 \notin 1 .. o OBVIOUS
    <3>5. \A i \in 1 .. m : sn[i] # e BY <3>2, <3>3, <3>4
    <3> QED BY <3>1, <3>5 DEF ArgsAt
  <2>3. Spots(a, m, ArgsAt(sn, o + 1)) = << >> BY <2>2, SpotsNone
  <2> QED BY <2>1, <2>3 DEF ArgsIn
<1>11. \A k \in 1 .. o + 1 : ts[k] = ArgsIn(sn, a, k)
  <2> TAKE k \in 1 .. o + 1
  <2>1. k = o + 1 \/ k \in 1 .. o OBVIOUS
  <2> QED BY <1>6, <1>8, <1>10, <2>1
<1> QED BY <1>5, <1>7, <1>8, <1>9, <1>11

(* The builder of a tool gets the piece that was sent for it.                *)
LEMMA ToolArguments ==
  ASSUME NEW pr, NEW a \in Nat, NEW sn \in Seq(AllChunks), NEW tools \in Seq(Seq({a} \X Nat)),
         ToolsHeld(pr, a, sn, tools), pr # "google",
         NEW j \in 1 .. OpenedIn(sn), NEW c, c = [is |-> "arguments", tool |-> j]
  PROVE  /\ [tools EXCEPT ![j] = Append(@, <<a, Len(sn) + 1>>)] \in Seq(Seq({a} \X Nat))
         /\ ToolsHeld(pr, a, Append(sn, c), [tools EXCEPT ![j] = Append(@, <<a, Len(sn) + 1>>)])
<1>1. OpenedIn(sn) \in Nat
  <2>1. PICK d \in AllChunks : d = [is |-> "text"] BY DEF AllChunks, PlainChunks
  <2>2. ChunkMore(sn, d, a) BY ChunkGrows
  <2> QED BY <2>2 DEF ChunkMore
<1>2. PICK o \in Nat : o = OpenedIn(sn) BY <1>1
<1>3. j \in 1 .. o /\ j \in Nat \ {0} BY <1>2
<1>4. c \in AllChunks /\ c.is = "arguments" BY <1>3 DEF AllChunks, ToolChunks
<1>5. ChunkMore(sn, c, a) /\ Speaks(sn, c, a) BY <1>4, ChunkGrows, ChunkSpeaks
<1>6. OpenedIn(Append(sn, c)) = o BY <1>2, <1>4, <1>5 DEF ChunkMore
<1>7. Len(tools) = o /\ \A k \in 1 .. o : tools[k] = ArgsIn(sn, a, k) BY <1>2 DEF ToolsHeld
<1>8. PICK U : U = {a} \X Nat OBVIOUS
<1>9. PICK piece \in U : piece = <<a, Len(sn) + 1>>
  <2>1. PICK n \in Nat : n = Len(sn) + 1 OBVIOUS
  <2>2. <<a, n>> \in U BY <1>8
  <2> QED BY <2>1, <2>2
<1>10. PICK t \in Seq(U) : t = tools[j] BY <1>3, <1>7, <1>8
<1>11. PICK u \in Seq(U) : u = Append(t, piece) BY AppendProperties
<1>12. u = t \o << piece >> BY <1>11, AppendIsConcat
<1>13. tools \in Seq(Seq(U)) BY <1>8
<1>14. /\ [tools EXCEPT ![j] = u] \in Seq(Seq(U)) /\ Len([tools EXCEPT ![j] = u]) = o
       /\ \A k \in 1 .. o : [tools EXCEPT ![j] = u][k] = IF k = j THEN u ELSE tools[k]
  BY <1>3, <1>7, <1>13, ExceptSeq
<1>15. PICK ts \in Seq(Seq(U)) : ts = [tools EXCEPT ![j] = u] BY <1>14
<1>16. ts = [tools EXCEPT ![j] = Append(@, <<a, Len(sn) + 1>>)] BY <1>9, <1>10, <1>11, <1>15
<1>17. \A k : c = [is |-> "arguments", tool |-> k] <=> k = j
  <2>1. \A k : [is |-> "arguments", tool |-> k].tool = k OBVIOUS
  <2> QED BY <2>1, Zenon
<1>18. \A k \in 1 .. o : ts[k] = ArgsIn(Append(sn, c), a, k)
  <2> TAKE k \in 1 .. o
  <2>1. CASE k = j
    <3>1. ArgsIn(Append(sn, c), a, k) = ArgsIn(sn, a, k) \o << piece >>
      BY <1>5, <1>9, <1>17, <2>1, Zenon DEF Speaks
    <3>2. ts[k] = u BY <1>14, <1>15, <2>1
    <3>3. ArgsIn(sn, a, k) = t BY <1>7, <1>10, <2>1
    <3> QED BY <1>12, <3>1, <3>2, <3>3
  <2>2. CASE k # j
    <3>1. ArgsIn(Append(sn, c), a, k) = ArgsIn(sn, a, k) BY <1>5, <1>17, <2>2, Zenon DEF Speaks
    <3>2. ts[k] = tools[k] BY <1>14, <1>15, <2>2
    <3> QED BY <1>7, <3>1, <3>2
  <2> QED BY <2>1, <2>2
<1>19. ToolsHeld(pr, a, Append(sn, c), ts) BY <1>6, <1>14, <1>15, <1>18 DEF ToolsHeld
<1> QED BY <1>8, <1>15, <1>16, <1>19

(* A call's block: its arguments are of this attempt.                        *)
CallBlock(a, ps) == LET b == [kind |-> "tool", pieces |-> ps]
                    IN  b \in Blocks /\ \A i \in 1 .. Len(ps) : ps[i][1] = a
(* The arguments that a parser holds make a block.                           *)
LEMMA CallOf ==
  ASSUME NEW a \in Nat, NEW ps \in Seq({a} \X Nat)
  PROVE  CallBlock(a, ps)
<1>1. \A i \in 1 .. Len(ps) : ps[i] \in {a} \X Nat OBVIOUS
<1>2. ps \in Seq(Pieces)
  <2>1. \A i \in 1 .. Len(ps) : ps[i] \in Pieces BY <1>1 DEF Pieces
  <2> QED BY <2>1
<1>3. [kind |-> "tool", pieces |-> ps] \in Blocks BY <1>2 DEF Blocks, Kinds
<1> QED BY <1>1, <1>3 DEF CallBlock

(* A call comes whole, of Google, or when its arguments are, of Codex.       *)
LEMMA HeldAsked ==
  ASSUME NEW pr, NEW a \in Nat, NEW sn, NEW p, NEW bs, Held(pr, a, sn, p, bs),
         NEW c \in AllChunks, c.is \notin {"text", "thinking"}, Allowed(sn, c),
         NEW q \in Parsers(a), q.content, ToolsHeld(pr, a, Append(sn, c), q.tools),
         NEW ps \in Seq({a} \X Nat), NEW cs, cs = Append(bs, [kind |-> "tool", pieces |-> ps]),
         CallsHeld(pr, Append(sn, c), cs)
  PROVE  Held(pr, a, Append(sn, c), q, cs)
<1>1. sn \in Seq(AllChunks) /\ Known(sn) /\ bs \in Seq(Blocks) /\ Mine(pr, a, bs)
  BY DEF Held, Known
<1>2. CallBlock(a, ps) BY CallOf
<1>3. PICK b \in Blocks : b = [kind |-> "tool", pieces |-> ps] BY <1>2 DEF CallBlock
<1>4. b.kind = "tool" /\ b.pieces = ps /\ cs = Append(bs, b) BY <1>3
<1>5. cs \in Seq(Blocks) /\ \A K \in {"text", "thinking"} : KeptIn(cs, K) = KeptIn(bs, K)
  BY <1>1, <1>4, CallAdds
<1>6. TextsHeld(pr, a, Append(sn, c), cs) BY <1>1, <1>5, Unsaid DEF Held
<1>7. Known(Append(sn, c)) BY <1>1, ToolsGrow DEF ToolsMore
<1>8. Mine(pr, a, cs)
  <2>1. \A i \in 1 .. Len(b.pieces) : b.pieces[i][1] = a BY <1>2, <1>4 DEF CallBlock
  <2> QED BY <1>1, <1>4, <2>1, AppendIsMine
<1> QED BY <1>5, <1>6, <1>7, <1>8 DEF Held

(* Only tools that were opened end.                                          *)
LEMMA ClosedIsFinite ==
  ASSUME NEW sn \in Seq(AllChunks)
  PROVE  IsFiniteSet(ClosedIn(sn))
<1>1. PICK c \in AllChunks : c = [is |-> "text"] BY DEF AllChunks, PlainChunks
<1>2. ChunkMore(sn, c, 0) BY ChunkGrows
<1>3. PICK o \in Nat : o = OpenedIn(sn) BY <1>2 DEF ChunkMore
<1>4. IsFiniteSet(1 .. o) BY FS_Interval
<1>5. ClosedIn(sn) \subseteq 1 .. o BY <1>3 DEF ClosedIn
<1> QED BY <1>4, <1>5, FS_Subset

(* Codex: one more call, one more tool that has ended.                       *)
LEMMA CodexCalls ==
  ASSUME NEW sn, Known(sn), NEW bs \in Seq(Blocks), CallsHeld("codex", sn, bs),
         NEW c \in AllChunks, Allowed(sn, c), c.is = "tool end", ~EndedIn(sn, c.tool),
         NEW b \in Blocks, b.kind = "tool"
  PROVE  CallsHeld("codex", Append(sn, c), Append(bs, b))
<1>1. ToolsMore(sn, c) BY ToolsGrow
<1>2. ClosedIn(Append(sn, c)) = ClosedIn(sn) \union {c.tool} BY <1>1 DEF ToolsMore
<1>3. c.tool \notin ClosedIn(sn) BY DEF ClosedIn
<1>4. IsFiniteSet(ClosedIn(sn))
  <2>1. sn \in Seq(AllChunks) BY DEF Known
  <2> QED BY <2>1, ClosedIsFinite
<1>5. Cardinality(ClosedIn(sn) \union {c.tool}) = Cardinality(ClosedIn(sn)) + 1
  BY <1>3, <1>4, FS_AddElement
<1>6. CallsIn(bs) \in Seq(Blocks) /\ CallsIn(Append(bs, b)) = CallsIn(bs) \o << b >> BY CallAdds
<1>7. PICK d \in Seq(Blocks) : d = CallsIn(bs) BY <1>6
<1>8. Len(d \o << b >>) = Len(d) + 1
  <2>1. Append(d, b) = d \o << b >> BY AppendIsConcat
  <2>2. Len(Append(d, b)) = Len(d) + 1 BY AppendProperties
  <2> QED BY <2>1, <2>2
<1>9. Len(CallsIn(Append(bs, b))) = Len(CallsIn(bs)) + 1 BY <1>6, <1>7, <1>8
<1> QED BY <1>2, <1>5, <1>9 DEF CallsHeld

-----------------------------------------------------------------------------
(* What a message that is done holds.                                        *)
Whole(pr, a, sn, bs) ==
  /\ TextsHeld(pr, a, sn, bs)
  /\ pr \notin {"codex", "google"} =>
       /\ Len(CallsIn(bs)) = OpenedIn(sn)
       /\ \A k \in 1 .. OpenedIn(sn) : CallsIn(bs)[k].pieces = ArgsIn(sn, a, k)
  /\ pr = "codex" => Len(CallsIn(bs)) = Cardinality(ClosedIn(sn))

(* The calls are added after all that was streamed, in their order.          *)
Chained(pr, a, bs, n, calls, cs) ==
  /\ cs \in Seq(Blocks) /\ Mine(pr, a, cs)
  /\ \A K \in {"text", "thinking"} : KeptIn(cs, K) = KeptIn(bs, K)
  /\ CallsIn(bs) = << >> =>
       Len(CallsIn(cs)) = n /\ \A j \in 1 .. n : CallsIn(cs)[j].pieces = calls[j]
(* By induction over the calls.                                              *)
LEMMA ChainAdds ==
  ASSUME NEW pr, NEW a \in Nat, NEW bs \in Seq(Blocks), Mine(pr, a, bs),
         NEW n \in Nat, NEW calls, \A k \in 1 .. n : calls[k] \in Seq({a} \X Nat),
         NEW g, Chain(bs, n, calls, g)
  PROVE  Chained(pr, a, bs, n, calls, g[n])
<1>1. /\ g \in [0 .. n -> Seq(Blocks)] /\ g[0] = bs
      /\ \A k \in 1 .. n : g[k] = Append(g[k - 1], [kind |-> "tool", pieces |-> calls[k]])
  BY DEF Chain
<1> DEFINE T == {k \in 0 .. n : Chained(pr, a, bs, k, calls, g[k])}
<1>2. 0 \in T
  <2>1. CallsIn(bs) = << >> => Len(CallsIn(bs)) = 0 OBVIOUS
  <2>2. Chained(pr, a, bs, 0, calls, bs) BY <2>1 DEF Chained
  <2> QED BY <1>1, <2>2
<1>3. ASSUME NEW k \in 1 .. n, k - 1 \in T PROVE k \in T
  <2>1. k \in 0 .. n /\ k \in Nat /\ k - 1 \in Nat OBVIOUS
  <2>2. Chained(pr, a, bs, k - 1, calls, g[k - 1]) BY <1>3
  <2>3. PICK f \in Seq(Blocks) : f = g[k - 1] BY <2>2 DEF Chained
  <2>4. CallBlock(a, calls[k]) BY CallOf
  <2>5. PICK b \in Blocks : b = [kind |-> "tool", pieces |-> calls[k]] BY <2>4 DEF CallBlock
  <2>6. b.kind = "tool" /\ b.pieces = calls[k] BY <2>5
  <2>7. g[k] = Append(f, b) BY <1>1, <2>3, <2>5
  <2>8. PICK cs \in Seq(Blocks) : cs = Append(f, b) BY AppendProperties
  <2>9. /\ CallsIn(f) \in Seq(Blocks) /\ CallsIn(cs) = CallsIn(f) \o << b >>
        /\ \A K \in {"text", "thinking"} : KeptIn(cs, K) = KeptIn(f, K)
    BY <2>6, <2>8, CallAdds
  <2>10. Mine(pr, a, cs)
    <3>1. \A i \in 1 .. Len(b.pieces) : b.pieces[i][1] = a BY <2>4, <2>6 DEF CallBlock
    <3>2. Mine(pr, a, f) BY <2>2, <2>3 DEF Chained
    <3> QED BY <2>8, <3>1, <3>2, AppendIsMine
  <2>11. \A K \in {"text", "thinking"} : KeptIn(cs, K) = KeptIn(bs, K)
    BY <2>2, <2>3, <2>9 DEF Chained
  <2>12. ASSUME CallsIn(bs) = << >>
         PROVE  Len(CallsIn(cs)) = k /\ \A j \in 1 .. k : CallsIn(cs)[j].pieces = calls[j]
    <3>1. PICK d \in Seq(Blocks) : d = CallsIn(f) BY <2>9
    <3>2. Len(d) = k - 1 /\ \A j \in 1 .. k - 1 : d[j].pieces = calls[j]
      BY <2>2, <2>3, <2>12, <3>1 DEF Chained
    <3>3. CallsIn(cs) = Append(d, b) BY <2>9, <3>1, AppendIsConcat
    <3>4. PICK e : e = Append(d, b) OBVIOUS
    <3>5. Len(e) = k /\ e[k] = b /\ \A j \in 1 .. k - 1 : e[j] = d[j]
      BY <2>1, <3>2, <3>4, AppendProperties
    <3>6. \A j \in 1 .. k : e[j].pieces = calls[j]
      <4> TAKE j \in 1 .. k
      <4>1. j = k \/ j \in 1 .. k - 1 OBVIOUS
      <4> QED BY <2>6, <3>2, <3>5, <4>1
    <3> QED BY <3>3, <3>4, <3>5, <3>6
  <2>13. Chained(pr, a, bs, k, calls, cs) BY <2>10, <2>11, <2>12 DEF Chained
  <2> QED BY <2>1, <2>7, <2>8, <2>13
<1> HIDE DEF T
<1>4. \A k \in 0 .. n : k \in T BY <1>2, <1>3, UpTo
<1>5. n \in 0 .. n OBVIOUS
<1> QED BY <1>4, <1>5 DEF T

(* A message that ends with all its calls is whole.                          *)
Calling(pr, p) == IF pr \in {"codex", "google"} THEN 0 ELSE Len(p.tools)
(* Held at the end of the body, with the calls that finalize yields.         *)
LEMMA HeldIsWhole ==
  ASSUME NEW pr, NEW a \in Nat, NEW sn, NEW p, NEW bs, Held(pr, a, sn, p, bs),
         NEW g, Chain(bs, Calling(pr, p), p.tools, g)
  PROVE  Whole(pr, a, sn, g[Calling(pr, p)]) /\ Mine(pr, a, g[Calling(pr, p)])
<1>1. bs \in Seq(Blocks) /\ Mine(pr, a, bs) BY DEF Held
<1>2. PICK U : U = {a} \X Nat OBVIOUS
<1>3. PICK ts \in Seq(Seq(U)) : ts = p.tools BY <1>2 DEF Held, Parsers
<1>4. PICK n \in Nat : n = Calling(pr, p) /\ n <= Len(ts) BY <1>3 DEF Calling
<1>5. \A k \in 1 .. n : ts[k] \in Seq(U)
  <2>1. \A k \in 1 .. n : k \in 1 .. Len(ts) BY <1>4
  <2> QED BY <2>1
<1>6. Chain(bs, n, ts, g) BY <1>3, <1>4
<1>7. PICK cs : cs = g[n] OBVIOUS
<1>8. Chained(pr, a, bs, n, ts, cs) BY <1>1, <1>2, <1>5, <1>6, <1>7, ChainAdds
<1>9. TextsHeld(pr, a, sn, cs) BY <1>8 DEF Held, TextsHeld, Chained
<1>10. ASSUME pr \notin {"codex", "google"}
      PROVE  /\ Len(CallsIn(cs)) = OpenedIn(sn)
             /\ \A k \in 1 .. OpenedIn(sn) : CallsIn(cs)[k].pieces = ArgsIn(sn, a, k)
  <2>1. n = Len(ts) BY <1>3, <1>4, <1>10 DEF Calling
  <2>2. Len(ts) = OpenedIn(sn) /\ \A k \in 1 .. OpenedIn(sn) : ts[k] = ArgsIn(sn, a, k)
    BY <1>3, <1>10 DEF Held, ToolsHeld
  <2>3. CallsIn(bs) = << >> BY <1>10 DEF Held, CallsHeld
  <2> QED BY <1>8, <2>1, <2>2, <2>3 DEF Chained
<1>11. ASSUME pr = "codex" PROVE Len(CallsIn(cs)) = Cardinality(ClosedIn(sn))
  <2>1. n = 0 BY <1>4, <1>11 DEF Calling
  <2>2. cs = bs BY <1>6, <1>7, <2>1 DEF Chain
  <2> QED BY <1>11, <2>2 DEF Held, CallsHeld
<1> QED BY <1>4, <1>7, <1>8, <1>9, <1>10, <1>11 DEF Whole, Chained

-----------------------------------------------------------------------------
(* What is kept while a request is under way, and at its end.                *)
StreamInv ==
  /\ provider \in {"chat", "responses", "codex", "anthropic", "mistral", "google"}
  /\ where \in {"request", "body", "backoff", "over", "raised"} /\ attempt \in Nat
  /\ Sound(stream) /\ (stream.ending # "none" <=> where = "over")
  /\ where \in {"request", "backoff"} => parser = P!NewParser /\ sent = << >>
  /\ where \in {"request", "body", "backoff"} =>
       Held(provider, attempt, sent, parser, stream.blocks)
  /\ Known(sent) /\ Mine(provider, attempt, stream.blocks)
  /\ stream.ending = "done" => Whole(provider, attempt, sent, stream.blocks)

(* The chunks that may come.                                                 *)
MayCome(c) == /\ c \in AllChunks /\ Allowed(sent, c)
              /\ c.is = "tool end" => ~EndedIn(sent, c.tool)
(* The tools that ProviderStream counts are those of the invariant.          *)
LEMMA OpenedSent ==
  ASSUME Known(sent)
  PROVE  P!Opened = OpenedIn(sent) /\ OpenedIn(sent) \in Nat
<1>1. sent \in Seq(AllChunks) /\ DOMAIN sent = 1 .. Len(sent) BY DEF Known
<1>2. P!Opened = OpenedIn(sent)
  <2>1. P!Opened = Cardinality({i \in DOMAIN sent : sent[i].is = "tool"})
    BY DEF P!Opened, P!Cardinality, Cardinality
  <2>2. {i \in DOMAIN sent : sent[i].is = "tool"} = SaidAt(sent, "tool") BY <1>1 DEF SaidAt
  <2> QED BY <2>1, <2>2 DEF OpenedIn
<1>3. PICK c \in AllChunks : c = [is |-> "text"] BY DEF AllChunks, PlainChunks
<1>4. ChunkMore(sent, c, 0) BY <1>1, ChunkGrows
<1> QED BY <1>2, <1>4 DEF ChunkMore

(* Every chunk that the protocol allows is one that may come.                *)
LEMMA ChunksMayCome ==
  ASSUME Known(sent), NEW c \in P!Chunks
  PROVE  MayCome(c)
<1>1. PICK o \in Nat : o = P!Opened /\ o = OpenedIn(sent) BY OpenedSent
<1>2. DOMAIN sent = 1 .. Len(sent) BY DEF Known
<1>3. CASE c \in [is : {"text", "thinking", "transient error", "error", "junk", "end"}]
  BY <1>3 DEF MayCome, Allowed, AllChunks, PlainChunks
<1>4. CASE c = [is |-> "tool", tool |-> o + 1]
  <2>1. PICK j \in Nat \ {0} : j = o + 1 OBVIOUS
  <2>2. c.is = "tool" /\ c.tool = j /\ c \in ToolChunks BY <1>4, <2>1 DEF ToolChunks
  <2> QED BY <1>1, <2>1, <2>2 DEF MayCome, Allowed, AllChunks
<1>5. \A k \in 1 .. o : k \in Nat \ {0} OBVIOUS
<1>6. ASSUME NEW i \in {"arguments", "tool end"}, NEW k \in 1 .. o, P!Open(k),
             c = [is |-> i, tool |-> k]
      PROVE  MayCome(c)
  <2>1. k \in Nat \ {0} BY <1>5
  <2>2. c.is = i /\ c.tool = k /\ c \in ToolChunks BY <1>6, <2>1 DEF ToolChunks
  <2>3. ~EndedIn(sent, k) BY <1>2, <1>6 DEF P!Open, EndedIn
  <2> QED BY <1>1, <2>2, <2>3 DEF MayCome, Allowed, AllChunks
<1>7. \/ c \in [is : {"text", "thinking", "transient error", "error", "junk", "end"}]
      \/ c = [is |-> "tool", tool |-> o + 1]
      \/ \E i \in {"arguments", "tool end"}, k \in 1 .. o : P!Open(k) /\ c = [is |-> i, tool |-> k]
  <2> DEFINE A == [is : {"text", "thinking", "transient error", "error", "junk", "end"}]
             T == {[is |-> "tool", tool |-> P!Opened + 1]}
             K == {k \in 1 .. P!Opened : P!Open(k)}
             C == [is : {"arguments", "tool end"}, tool : K]
  <2>1. c \in A \/ c \in T \/ c \in C BY Zenon DEF P!Chunks
  <2>2. ASSUME c \in T PROVE c = [is |-> "tool", tool |-> o + 1] BY <1>1, <2>2
  <2>3. \A k \in K : k \in 1 .. o /\ P!Open(k) BY <1>1
  <2> HIDE DEF K
  <2>4. ASSUME c \in C
        PROVE  \E i \in {"arguments", "tool end"}, k \in K : c = [is |-> i, tool |-> k]
    BY <2>4
  <2> HIDE DEF T, C
  <2> QED BY <1>1, <2>1, <2>2, <2>3, <2>4
<1> QED BY <1>3, <1>4, <1>6, <1>7

(* What a chunk makes of the parser and of the stream.                       *)
ReadsOn(r, c) ==
  /\ r.stops \in {"no", "end", "error", "transient"}
  /\ r.stops = "transient" => ~parser.content
  /\ r.stops = "end" => r.parser = parser
  /\ r.stops = "no" =>
       LET s == P!CanonicalAll(stream, r.events)
       IN  Going(s) /\ Held(provider, attempt, Append(sent, c), r.parser, s.blocks)

(* The parser after one more step of it.                                     *)
LEMMA ParserKeeps ==
  ASSUME NEW a, NEW p \in Parsers(a)
  PROVE  /\ P!Emitted(p) \in Parsers(a) /\ P!Emitted(p).content /\ P!Emitted(p).tools = p.tools
         /\ P!NewTool(p) \in Parsers(a) /\ P!NewTool(p).content = p.content
         /\ P!NewTool(p).tools = Append(p.tools, << >>)
         /\ P!Emitted(P!NewTool(p)) \in Parsers(a) /\ P!Emitted(P!NewTool(p)).content
         /\ P!Emitted(P!NewTool(p)).tools = Append(p.tools, << >>)
<1>1. ASSUME NEW q \in Parsers(a)
      PROVE  P!Emitted(q) \in Parsers(a) /\ P!Emitted(q).content /\ P!Emitted(q).tools = q.tools
  <2>1. PICK yes \in BOOLEAN : yes = TRUE OBVIOUS
  <2>2. PICK e : e = [q EXCEPT !.content = yes] OBVIOUS
  <2>3. P!Emitted(q) = e BY <2>1, <2>2 DEF P!Emitted
  <2>4. e \in Parsers(a) /\ e.tools = q.tools /\ e.content = yes BY <2>2 DEF Parsers
  <2> QED BY <2>1, <2>3, <2>4
<1>2. /\ P!NewTool(p) \in Parsers(a) /\ P!NewTool(p).content = p.content
      /\ P!NewTool(p).tools = Append(p.tools, << >>)
  <2>1. PICK U : U = Seq({a} \X Nat) OBVIOUS
  <2>2. << >> \in Seq({a} \X Nat) OBVIOUS
  <2>3. p.tools \in Seq(U) /\ << >> \in U BY <2>1, <2>2 DEF Parsers
  <2>4. PICK t \in Seq(U) : t = Append(p.tools, << >>) BY <2>3, AppendProperties
  <2>5. PICK e : e = [p EXCEPT !.tools = t] OBVIOUS
  <2>6. P!NewTool(p) = e BY <2>4, <2>5 DEF P!NewTool
  <2>7. e \in Parsers(a) /\ e.tools = t /\ e.content = p.content BY <2>1, <2>5 DEF Parsers
  <2> QED BY <2>4, <2>6, <2>7
<1> QED BY <1>1, <1>2

(* Text and thinking.                                                        *)
LEMMA FeedSaid ==
  ASSUME StreamInv, where = "body", NEW c, MayCome(c), c.is \in {"text", "thinking"}
  PROVE  ReadsOn(P!Feed(parser, c), c)
<1>1. /\ Held(provider, attempt, sent, parser, stream.blocks) /\ Going(stream)
      /\ attempt \in Nat
  BY DEF StreamInv, Going
<1>2. parser \in Parsers(attempt) /\ sent \in Seq(AllChunks) BY <1>1 DEF Held, Known
<1>3. PICK kind \in {"text", "thinking"} : c = [is |-> kind]
  <2>1. c \in PlainChunks BY DEF MayCome, AllChunks, ToolChunks
  <2> QED BY <2>1 DEF PlainChunks
<1>4. P!Feed(parser, c) = P!Said(parser, c)
  <2>1. c.is # "junk" OBVIOUS
  <2> QED BY <2>1 DEF StreamInv, P!Feed, P!ChatFeed, P!MistralFeed, P!ResponsesFeed, P!CodexFeed,
                      P!AnthropicFeed, P!GoogleFeed
<1>5. PICK q : q = P!Said(parser, c).parser OBVIOUS
<1>6. /\ q \in Parsers(attempt) /\ q.tools = parser.tools
      /\ q.content \/ (q.content = parser.content /\ provider = "codex" /\ kind = "thinking")
  <2>1. CASE kind = "text"
    <3>1. q = P!Emitted(parser) BY <1>3, <1>5, <2>1 DEF P!Said, P!Reads
    <3> QED BY <1>2, <3>1, ParserKeeps
  <2>2. CASE kind = "thinking"
    <3>1. PICK yes \in BOOLEAN : yes = TRUE OBVIOUS
    <3>2. PICK more \in BOOLEAN : more = (parser.content \/ provider # "codex")
      BY Zenon
    <3>3. q = [parser EXCEPT !.thinking = yes, !.content = more]
      BY <1>2, <1>3, <1>5, <2>2, <3>1, <3>2 DEF P!Said, P!Reads, Parsers
    <3>4. q \in Parsers(attempt) /\ q.tools = parser.tools /\ q.content = more
      BY <1>2, <3>3 DEF Parsers
    <3>5. q.content \/ (q.content = parser.content /\ provider = "codex")
      <4>1. parser.content \in BOOLEAN BY <1>2 DEF Parsers
      <4> QED BY <3>2, <3>4, <4>1, Zenon
    <3> QED BY <2>2, <3>4, <3>5
  <2> QED BY <2>1, <2>2
<1>7. PICK n \in Nat : n = Len(sent) + 1 BY <1>2
<1>8. PICK piece \in Pieces : piece = <<attempt, n>> BY <1>1 DEF Pieces
<1>9. P!Piece = piece BY <1>7, <1>8 DEF P!Piece
<1>10. P!Said(parser, c).events = << [is |-> kind, piece |-> piece] >>
  BY <1>3, <1>9 DEF P!Said, P!Reads
<1>11. Says(stream, kind, piece) BY <1>1, CanonicalKeeps
<1>12. PICK s : s = P!CanonicalAll(stream, P!Said(parser, c).events) OBVIOUS
<1>13. s = P!Canonical(stream, [is |-> kind, piece |-> piece]) BY <1>10, <1>12, NoneOrOne
<1>14. Going(s) /\ Grown(stream.blocks, s.blocks, kind, <<attempt, Len(sent) + 1>>)
  BY <1>7, <1>8, <1>11, <1>13 DEF Says
<1>15. Held(provider, attempt, Append(sent, c), q, s.blocks)
  BY <1>1, <1>3, <1>6, <1>14, HeldSaid
<1>16. P!Said(parser, c).stops = "no" BY DEF P!Said, P!Reads
<1> QED BY <1>4, <1>5, <1>12, <1>14, <1>15, <1>16 DEF ReadsOn

(* A chunk that is only kept.                                                *)
LEMMA FeedQuiet ==
  ASSUME StreamInv, where = "body", NEW c, MayCome(c), c.is \notin {"text", "thinking"},
         provider = "codex" => c.is # "tool end",
         NEW q \in Parsers(attempt), q.content \/ q.content = parser.content,
         ToolsHeld(provider, attempt, Append(sent, c), q.tools)
  PROVE  ReadsOn(P!Reads(q, << >>), c)
<1>1. /\ Held(provider, attempt, sent, parser, stream.blocks) /\ Going(stream)
      /\ attempt \in Nat
  BY DEF StreamInv, Going
<1>2. Held(provider, attempt, Append(sent, c), q, stream.blocks)
  BY <1>1, HeldQuiet DEF MayCome
<1>3. P!CanonicalAll(stream, << >>) = stream BY NoneOrOne
<1>4. /\ P!Reads(q, << >>).stops = "no" /\ P!Reads(q, << >>).events = << >>
      /\ P!Reads(q, << >>).parser = q
  BY DEF P!Reads
<1> QED BY <1>1, <1>2, <1>3, <1>4 DEF ReadsOn

(* A call that is complete.                                                  *)
LEMMA FeedCall ==
  ASSUME StreamInv, where = "body", NEW c, MayCome(c), c.is \notin {"text", "thinking"},
         NEW q \in Parsers(attempt), q.content,
         ToolsHeld(provider, attempt, Append(sent, c), q.tools),
         NEW ps \in Seq({attempt} \X Nat),
         CallsHeld(provider, Append(sent, c), Append(stream.blocks, [kind |-> "tool", pieces |-> ps]))
  PROVE  ReadsOn(P!Reads(q, << [is |-> "tool_call", pieces |-> ps] >>), c)
<1>1. /\ Held(provider, attempt, sent, parser, stream.blocks) /\ Going(stream)
      /\ attempt \in Nat
  BY DEF StreamInv, Going
<1>2. PICK cs : cs = Append(stream.blocks, [kind |-> "tool", pieces |-> ps]) OBVIOUS
<1>3. Held(provider, attempt, Append(sent, c), q, cs) BY <1>1, <1>2, HeldAsked DEF MayCome
<1>4. Asks(stream, ps)
  <2>1. CallBlock(attempt, ps) BY <1>1, CallOf
  <2>2. ps \in Seq(Pieces) BY <2>1 DEF CallBlock, Blocks
  <2> QED BY <1>1, <2>2, CanonicalKeeps
<1>5. PICK r : r = P!Reads(q, << [is |-> "tool_call", pieces |-> ps] >>) OBVIOUS
<1>6. r.stops = "no" /\ r.events = << [is |-> "tool_call", pieces |-> ps] >> /\ r.parser = q
  BY <1>5 DEF P!Reads
<1>7. PICK s : s = P!CanonicalAll(stream, r.events) OBVIOUS
<1>8. s = P!Canonical(stream, [is |-> "tool_call", pieces |-> ps]) BY <1>6, <1>7, NoneOrOne
<1>9. Going(s) /\ s.blocks = cs BY <1>2, <1>4, <1>8 DEF Asks
<1> QED BY <1>3, <1>5, <1>6, <1>7, <1>9 DEF ReadsOn

(* The builder of a tool gets one more piece.                                *)
BuiltIs(a, p, j, ts) ==
  LET b == P!Built(p, j)
  IN  b \in Parsers(a) /\ b.content = p.content /\ b.tools = ts
(* Built adds the piece to one builder and changes nothing else.             *)
LEMMA BuiltKeeps ==
  ASSUME NEW a, NEW p \in Parsers(a), NEW j, NEW ts \in Seq(Seq({a} \X Nat)),
         ts = [p.tools EXCEPT ![j] = Append(@, P!Piece)]
  PROVE  BuiltIs(a, p, j, ts)
<1>1. PICK U : U = Seq(Seq({a} \X Nat)) OBVIOUS
<1>2. PICK t \in U : t = ts /\ t = [p.tools EXCEPT ![j] = Append(@, P!Piece)] BY <1>1
<1>3. PICK e : e = [p EXCEPT !.tools = t] OBVIOUS
<1>4. P!Built(p, j) = e
  <2>1. P!Built(p, j) = [p EXCEPT !.tools[j] = Append(@, P!Piece)] BY DEF P!Built
  <2>2. [p EXCEPT !.tools[j] = Append(@, P!Piece)]
          = [p EXCEPT !.tools = [p.tools EXCEPT ![j] = Append(@, P!Piece)]]
    BY DEF Parsers
  <2> QED BY <1>2, <1>3, <2>1, <2>2
<1>5. e \in Parsers(a) /\ e.tools = t /\ e.content = p.content BY <1>1, <1>3 DEF Parsers
<1> QED BY <1>2, <1>4, <1>5 DEF BuiltIs

(* A tool is opened.                                                         *)
LEMMA FeedTool ==
  ASSUME StreamInv, where = "body", NEW c, MayCome(c), c.is = "tool"
  PROVE  ReadsOn(P!Feed(parser, c), c)
<1>1. /\ Held(provider, attempt, sent, parser, stream.blocks) /\ attempt \in Nat
      /\ provider \in {"chat", "responses", "codex", "anthropic", "mistral", "google"}
  BY DEF StreamInv
<1>2. /\ parser \in Parsers(attempt) /\ sent \in Seq(AllChunks) /\ Known(sent)
      /\ ToolsHeld(provider, attempt, sent, parser.tools)
  BY <1>1 DEF Held, Known
<1>3. c.is \notin {"text", "thinking"} /\ c.is # "tool end" /\ c.is # "junk" OBVIOUS
<1>4. /\ P!Emitted(parser) \in Parsers(attempt) /\ P!Emitted(parser).content
      /\ P!NewTool(parser) \in Parsers(attempt) /\ P!NewTool(parser).content = parser.content
      /\ P!NewTool(parser).tools = Append(parser.tools, << >>)
      /\ P!Emitted(P!NewTool(parser)) \in Parsers(attempt) /\ P!Emitted(P!NewTool(parser)).content
      /\ P!Emitted(P!NewTool(parser)).tools = Append(parser.tools, << >>)
  BY <1>2, ParserKeeps
<1>5. CASE provider = "google"
  <2>1. PICK n \in Nat : n = Len(sent) + 1 BY <1>2
  <2>2. PICK piece \in {attempt} \X Nat : piece = <<attempt, n>> OBVIOUS
  <2>3. PICK ps \in Seq({attempt} \X Nat) : ps = << piece >>
    <3>1. PICK U : U = {attempt} \X Nat OBVIOUS
    <3>2. << piece >> \in Seq(U) BY <3>1
    <3> QED BY <3>1, <3>2
  <2>4. ps = << P!Piece >> BY <2>1, <2>2, <2>3 DEF P!Piece
  <2>5. P!Feed(parser, c) = P!Reads(P!Emitted(parser), << [is |-> "tool_call", pieces |-> ps] >>)
    BY <1>3, <1>5, <2>4 DEF P!Feed, P!GoogleFeed
  <2>6. PICK q \in Parsers(attempt) : q = P!Emitted(parser) /\ q.content BY <1>4
  <2>7. ToolsHeld(provider, attempt, Append(sent, c), q.tools) BY <1>5 DEF ToolsHeld
  <2>8. CallsHeld(provider, Append(sent, c), Append(stream.blocks, [kind |-> "tool", pieces |-> ps]))
    BY <1>5 DEF CallsHeld
  <2>9. ReadsOn(P!Reads(q, << [is |-> "tool_call", pieces |-> ps] >>), c)
    BY <1>3, <2>6, <2>7, <2>8, FeedCall
  <2> QED BY <2>5, <2>6, <2>9
<1>6. CASE provider # "google"
  <2>1. PICK q \in Parsers(attempt) :
          /\ P!Feed(parser, c) = P!Reads(q, << >>)
          /\ q.content \/ q.content = parser.content
          /\ q.tools = Append(parser.tools, << >>)
    <3>1. CASE provider \in {"chat", "mistral", "anthropic"}
      <4>1. P!Feed(parser, c) = P!Reads(P!Emitted(P!NewTool(parser)), << >>)
        BY <1>3, <3>1 DEF P!Feed, P!ChatFeed, P!MistralFeed, P!AnthropicFeed
      <4> QED BY <1>4, <4>1
    <3>2. CASE provider \in {"responses", "codex"}
      <4>1. P!Feed(parser, c) = P!Reads(P!NewTool(parser), << >>)
        BY <1>3, <3>2 DEF P!Feed, P!ResponsesFeed, P!CodexFeed
      <4> QED BY <1>4, <4>1
    <3> QED BY <1>1, <1>6, <3>1, <3>2
  <2>2. ToolsHeld(provider, attempt, Append(sent, c), q.tools)
    <3>1. PICK ts \in Seq(Seq({attempt} \X Nat)) : ts = parser.tools BY <1>2 DEF Parsers
    <3>2. c = [is |-> "tool", tool |-> OpenedIn(sent) + 1]
      <4>1. c \in ToolChunks BY DEF MayCome, AllChunks, PlainChunks
      <4>2. c.tool = OpenedIn(sent) + 1 BY DEF MayCome, Allowed
      <4>3. c = [is |-> c.is, tool |-> c.tool] BY <4>1 DEF ToolChunks
      <4> QED BY <4>2, <4>3
    <3>3. ToolsHeld(provider, attempt, Append(sent, c), Append(ts, << >>))
      BY <1>2, <3>1, <3>2, ToolOpened
    <3> QED BY <2>1, <3>1, <3>3
  <2>3. ReadsOn(P!Reads(q, << >>), c) BY <1>3, <2>1, <2>2, FeedQuiet
  <2> QED BY <2>1, <2>3
<1> QED BY <1>5, <1>6

(* Some arguments of a tool.                                                 *)
LEMMA FeedArguments ==
  ASSUME StreamInv, where = "body", NEW c, MayCome(c), c.is = "arguments"
  PROVE  ReadsOn(P!Feed(parser, c), c)
<1>1. /\ Held(provider, attempt, sent, parser, stream.blocks) /\ attempt \in Nat
      /\ provider \in {"chat", "responses", "codex", "anthropic", "mistral", "google"}
  BY DEF StreamInv
<1>2. /\ parser \in Parsers(attempt) /\ sent \in Seq(AllChunks) /\ Known(sent)
      /\ ToolsHeld(provider, attempt, sent, parser.tools)
  BY <1>1 DEF Held, Known
<1>3. c.is \notin {"text", "thinking"} /\ c.is # "tool end" /\ c.is # "junk" /\ c.is # "tool"
  OBVIOUS
<1>4. CASE provider = "google"
  <2>1. P!Feed(parser, c) = P!Reads(parser, << >>) BY <1>3, <1>4 DEF P!Feed, P!GoogleFeed
  <2>2. ToolsHeld(provider, attempt, Append(sent, c), parser.tools) BY <1>4 DEF ToolsHeld
  <2>3. ReadsOn(P!Reads(parser, << >>), c) BY <1>2, <1>3, <2>2, FeedQuiet
  <2> QED BY <2>1, <2>3
<1>5. CASE provider # "google"
  <2>1. PICK ts \in Seq(Seq({attempt} \X Nat)) : ts = parser.tools BY <1>2 DEF Parsers
  <2>2. PICK n \in Nat : n = Len(sent) + 1 BY <1>2
  <2>3. PICK piece : piece = <<attempt, n>> OBVIOUS
  <2>4. PICK j \in 1 .. OpenedIn(sent) : j = c.tool /\ c = [is |-> "arguments", tool |-> j]
    <3>1. c \in ToolChunks BY DEF MayCome, AllChunks, PlainChunks
    <3>2. c.tool \in 1 .. OpenedIn(sent) BY DEF MayCome, Allowed
    <3>3. c = [is |-> c.is, tool |-> c.tool] BY <3>1 DEF ToolChunks
    <3> QED BY <3>2, <3>3
  <2>5. PICK us : us = [ts EXCEPT ![j] = Append(@, <<attempt, Len(sent) + 1>>)] OBVIOUS
  <2>6. us \in Seq(Seq({attempt} \X Nat)) /\ ToolsHeld(provider, attempt, Append(sent, c), us)
    BY <1>1, <1>2, <1>5, <2>1, <2>4, <2>5, ToolArguments
  <2>7. us = [ts EXCEPT ![j] = Append(@, piece)] BY <2>2, <2>3, <2>5
  <2>8. PICK b \in Parsers(attempt) :
          b = P!Built(parser, j) /\ b.content = parser.content /\ b.tools = us
    <3>1. piece = P!Piece BY <2>2, <2>3 DEF P!Piece
    <3>2. [parser.tools EXCEPT ![j] = Append(@, piece)] = us BY <2>1, <2>7
    <3>3. us = [parser.tools EXCEPT ![j] = Append(@, P!Piece)] BY <3>1, <3>2
    <3>4. BuiltIs(attempt, parser, j, us) BY <1>2, <2>6, <3>3, BuiltKeeps
    <3> QED BY <3>4 DEF BuiltIs
  <2>9. P!Emitted(b) \in Parsers(attempt) /\ P!Emitted(b).content /\ P!Emitted(b).tools = us
    BY <2>8, ParserKeeps
  <2>10. PICK q \in Parsers(attempt) :
           /\ P!Feed(parser, c) = P!Reads(q, << >>)
           /\ q.content \/ q.content = parser.content
           /\ q.tools = us
    <3>1. CASE provider \in {"chat", "mistral", "anthropic", "responses"}
      <4>1. P!Feed(parser, c) = P!Reads(P!Emitted(P!Built(parser, c.tool)), << >>)
        BY <1>3, <3>1 DEF P!Feed, P!ChatFeed, P!MistralFeed, P!AnthropicFeed, P!ResponsesFeed
      <4> QED BY <2>4, <2>8, <2>9, <4>1
    <3>2. CASE provider = "codex"
      <4>1. P!Feed(parser, c) = P!Reads(P!Built(parser, c.tool), << >>)
        BY <1>3, <3>2 DEF P!Feed, P!CodexFeed
      <4> QED BY <2>4, <2>8, <4>1
    <3> QED BY <1>1, <1>5, <3>1, <3>2
  <2>11. ReadsOn(P!Reads(q, << >>), c) BY <1>3, <2>6, <2>10, FeedQuiet
  <2> QED BY <2>10, <2>11
<1> QED BY <1>4, <1>5

(* A tool ends.                                                              *)
LEMMA FeedToolEnd ==
  ASSUME StreamInv, where = "body", NEW c, MayCome(c), c.is = "tool end"
  PROVE  ReadsOn(P!Feed(parser, c), c)
<1>1. /\ Held(provider, attempt, sent, parser, stream.blocks) /\ attempt \in Nat
      /\ provider \in {"chat", "responses", "codex", "anthropic", "mistral", "google"}
  BY DEF StreamInv
<1>2. /\ parser \in Parsers(attempt) /\ sent \in Seq(AllChunks) /\ Known(sent)
      /\ ToolsHeld(provider, attempt, sent, parser.tools)
      /\ stream.blocks \in Seq(Blocks) /\ CallsHeld(provider, sent, stream.blocks)
  BY <1>1 DEF Held, Known
<1>3. /\ c.is \notin {"text", "thinking"} /\ c.is \notin {"tool", "arguments"}
      /\ c.is # "junk" /\ c.is # "tool" /\ c.is # "arguments" /\ c.is # "end"
      /\ c.is \notin {"error", "transient error"}
  OBVIOUS
<1>4. c \in AllChunks BY DEF MayCome
<1>5. ToolsHeld(provider, attempt, Append(sent, c), parser.tools) BY <1>2, <1>3, <1>4, NoTool
<1>6. CASE provider = "codex"
  <2>1. PICK ts \in Seq(Seq({attempt} \X Nat)) : ts = parser.tools BY <1>2 DEF Parsers
  <2>2. c.tool \in 1 .. Len(ts) BY <1>2, <1>6, <2>1 DEF ToolsHeld, MayCome, Allowed
  <2>3. PICK ps \in Seq({attempt} \X Nat) : ps = parser.tools[c.tool]
    <3>1. PICK U : U = {attempt} \X Nat OBVIOUS
    <3>2. PICK k \in 1 .. Len(ts) : k = c.tool BY <2>2
    <3>3. PICK us \in Seq(Seq(U)) : us = ts BY <3>1
    <3>4. k \in 1 .. Len(us) BY <3>2, <3>3
    <3>5. us[k] \in Seq(U) BY <3>4, ElementOfSeq
    <3> QED BY <2>1, <3>1, <3>2, <3>3, <3>5
  <2>4. P!Feed(parser, c) = P!Reads(P!Emitted(parser), << [is |-> "tool_call", pieces |-> ps] >>)
    BY <1>3, <1>6, <2>3 DEF P!Feed, P!CodexFeed
  <2>5. PICK q \in Parsers(attempt) : q = P!Emitted(parser) /\ q.content /\ q.tools = parser.tools
    BY <1>2, ParserKeeps
  <2>6. PICK b \in Blocks : b = [kind |-> "tool", pieces |-> ps]
    <3>1. CallBlock(attempt, ps) BY <1>1, CallOf
    <3> QED BY <3>1 DEF CallBlock
  <2>7. CallsHeld(provider, Append(sent, c), Append(stream.blocks, b))
    <3>1. b.kind = "tool" BY <2>6
    <3>2. Allowed(sent, c) /\ ~EndedIn(sent, c.tool) BY DEF MayCome
    <3>3. CallsHeld("codex", Append(sent, c), Append(stream.blocks, b))
      BY <1>2, <1>4, <1>6, <3>1, <3>2, CodexCalls
    <3> QED BY <1>6, <3>3
  <2>8. ReadsOn(P!Reads(q, << [is |-> "tool_call", pieces |-> ps] >>), c)
    BY <1>3, <1>5, <2>5, <2>6, <2>7, FeedCall
  <2> QED BY <2>4, <2>5, <2>8
<1>7. CASE provider # "codex"
  <2>1. P!Feed(parser, c) = P!Reads(parser, << >>)
    BY <1>1, <1>3, <1>7 DEF P!Feed, P!ChatFeed, P!MistralFeed, P!ResponsesFeed, P!AnthropicFeed,
                            P!GoogleFeed
  <2>2. ReadsOn(P!Reads(parser, << >>), c) BY <1>2, <1>3, <1>7, <1>5, FeedQuiet
  <2> QED BY <2>1, <2>2
<1> QED BY <1>6, <1>7

(* Any chunk.                                                                *)
LEMMA FeedReads ==
  ASSUME StreamInv, where = "body", NEW c \in P!Chunks
  PROVE  ReadsOn(P!Feed(parser, c), c)
<1>1. /\ Held(provider, attempt, sent, parser, stream.blocks) /\ attempt \in Nat
      /\ provider \in {"chat", "responses", "codex", "anthropic", "mistral", "google"}
  BY DEF StreamInv
<1>2. /\ parser \in Parsers(attempt) /\ sent \in Seq(AllChunks) /\ Known(sent)
      /\ ToolsHeld(provider, attempt, sent, parser.tools)
  BY <1>1 DEF Held, Known
<1>3. MayCome(c) BY <1>2, ChunksMayCome
<1>4. c \in AllChunks BY <1>3 DEF MayCome
<1>5. CASE c.is \in {"text", "thinking"} BY <1>3, <1>5, FeedSaid
<1>6. CASE c.is = "tool" BY <1>3, <1>6, FeedTool
<1>7. CASE c.is = "arguments" BY <1>3, <1>7, FeedArguments
<1>8. CASE c.is = "tool end" BY <1>3, <1>8, FeedToolEnd
<1>9. CASE c.is \in {"transient error", "error", "junk", "end"}
  <2>1. c.is \notin {"text", "thinking"} /\ c.is \notin {"tool", "arguments"} /\ c.is # "tool end"
    BY <1>9
  <2>2. \/ P!Feed(parser, c) = P!Reads(parser, << >>)
        \/ P!Feed(parser, c) = P!AtEnd(parser)
        \/ P!Feed(parser, c) = P!Fails(parser, FALSE)
        \/ P!Feed(parser, c) = P!Fails(parser, TRUE) /\ ~parser.content
    <3> DEFINE F == P!Feed(parser, c)
               R == P!Reads(parser, << >>)
               A == P!AtEnd(parser)
               N == P!Fails(parser, FALSE)
               T == P!Fails(parser, TRUE)
    <3>1. CASE provider \in {"chat", "mistral", "responses", "google"}
      BY <1>9, <3>1 DEF P!Feed, P!ChatFeed, P!MistralFeed, P!ResponsesFeed, P!GoogleFeed
    <3>2. CASE provider = "codex"
      <4>1. P!Feed(parser, c) = P!CodexFeed(parser, c) BY <3>2 DEF P!Feed
      <4>2. PICK again \in BOOLEAN :
              again = (c.is = "transient error" /\ ~parser.content /\ ~parser.thinking
                         /\ attempt < MaxRetries)
        BY Zenon
      <4>3. again => ~parser.content BY <4>2
      <4>4. \/ P!CodexFeed(parser, c) = P!Reads(parser, << >>)
            \/ P!CodexFeed(parser, c) = P!AtEnd(parser)
            \/ P!CodexFeed(parser, c) = P!Fails(parser, again)
        BY <1>9, <4>2 DEF P!CodexFeed
      <4> QED BY <4>1, <4>3, <4>4
    <3>3. CASE provider = "anthropic"
      <4>1. P!Feed(parser, c) = P!AnthropicFeed(parser, c) BY <3>3 DEF P!Feed
      <4>2. PICK again \in BOOLEAN :
              again = (c.is = "transient error" /\ ~parser.content /\ attempt < MaxRetries)
        BY Zenon
      <4>3. again => ~parser.content BY <4>2
      <4>4. \/ P!AnthropicFeed(parser, c) = P!Reads(parser, << >>)
            \/ P!AnthropicFeed(parser, c) = P!Fails(parser, FALSE)
            \/ P!AnthropicFeed(parser, c) = P!Fails(parser, again)
        BY <1>9, <4>2 DEF P!AnthropicFeed
      <4> QED BY <4>1, <4>3, <4>4
    <3> QED BY <1>1, <3>1, <3>2, <3>3
  <2>3. ToolsHeld(provider, attempt, Append(sent, c), parser.tools) BY <1>2, <1>4, <2>1, NoTool
  <2>4. ReadsOn(P!Reads(parser, << >>), c) BY <1>2, <1>3, <2>1, <2>3, FeedQuiet
  <2>5. ReadsOn(P!AtEnd(parser), c) BY DEF ReadsOn, P!AtEnd
  <2>6. ReadsOn(P!Fails(parser, FALSE), c) BY DEF ReadsOn, P!Fails
  <2>7. ~parser.content => ReadsOn(P!Fails(parser, TRUE), c) BY DEF ReadsOn, P!Fails
  <2> QED BY <2>2, <2>4, <2>5, <2>6, <2>7
<1>10. c.is \in {"text", "thinking", "transient error", "error", "junk", "end",
                "tool", "arguments", "tool end"}
  BY <1>4 DEF AllChunks, PlainChunks, ToolChunks
<1> QED BY <1>5, <1>6, <1>7, <1>8, <1>9, <1>10

-----------------------------------------------------------------------------
(* The end of a request.                                                     *)
LEMMA CloseKeeps ==
  ASSUME StreamInv, where \in {"request", "body", "backoff"},
         NEW t, Sound(t), t.ending # "none",
         t.blocks = stream.blocks \/ Mine(provider, attempt, t.blocks),
         t.ending = "done" => Whole(provider, attempt, sent, t.blocks),
         where' = "over", stream' = t, UNCHANGED <<provider, attempt, sent>>
  PROVE  StreamInv'
<1>1. Mine(provider, attempt, t.blocks) BY DEF StreamInv
<1>2. Sound(stream') /\ stream'.ending # "none" OBVIOUS
<1>3. Mine(provider', attempt', stream'.blocks) BY <1>1
<1>4. stream'.ending = "done" => Whole(provider', attempt', sent', stream'.blocks) OBVIOUS
<1>5. Known(sent') /\ attempt' \in Nat BY DEF StreamInv
<1>6. provider' \in {"chat", "responses", "codex", "anthropic", "mistral", "google"}
  BY DEF StreamInv
<1> QED BY <1>2, <1>3, <1>4, <1>5, <1>6 DEF StreamInv

(* An error, also of a run that is cancelled.                                *)
LEMMA ErrorKeeps ==
  ASSUME StreamInv, where \in {"request", "body", "backoff"},
         \/ stream' = P!Exhausted(P!Canonical(stream, [is |-> "error"]))
         \/ stream' = P!Exhausted(stream),
         where' = "over", UNCHANGED <<provider, attempt, sent>>
  PROVE  StreamInv'
<1>1. Going(stream) BY DEF StreamInv, Going
<1>2. \E t : stream' = t /\ Ends(stream, t, "error")
  <2>1. CASE stream' = P!Exhausted(stream)
    <3>1. ExhaustedIs(stream) BY <1>1, ExhaustedEnds DEF Going
    <3> QED BY <1>1, <2>1, <3>1 DEF ExhaustedIs, Going
  <2>2. CASE stream' = P!Exhausted(P!Canonical(stream, [is |-> "error"]))
    <3>1. PICK s : s = P!Canonical(stream, [is |-> "error"]) OBVIOUS
    <3>2. Ends(stream, s, "error") BY <1>1, <3>1, CanonicalKeeps
    <3>3. Sound(s) /\ s.ending = "error" /\ s.blocks = stream.blocks BY <3>2 DEF Ends
    <3>4. ExhaustedIs(s) BY <3>3, ExhaustedEnds
    <3>5. Ends(s, P!Exhausted(s), "error") BY <3>3, <3>4 DEF ExhaustedIs
    <3> QED BY <2>2, <3>1, <3>3, <3>5 DEF Ends
  <2> QED BY <2>1, <2>2
<1>3. PICK t : stream' = t /\ Ends(stream, t, "error") BY <1>2
<1>4. Sound(t) /\ t.ending = "error" /\ t.blocks = stream.blocks BY <1>3 DEF Ends
<1> QED BY <1>3, <1>4, CloseKeeps

(* The end of a body: what was built is called, and the message is whole.    *)
LEMMA FinalizeKeeps ==
  ASSUME StreamInv, where = "body",
         stream' = P!Exhausted(P!CanonicalAll(stream, P!Finalize(parser))),
         where' = "over", UNCHANGED <<provider, attempt, sent>>
  PROVE  StreamInv'
<1>1. /\ Held(provider, attempt, sent, parser, stream.blocks) /\ Going(stream)
      /\ attempt \in Nat
  BY DEF StreamInv, Going
<1>2. PICK U : U = {attempt} \X Nat OBVIOUS
<1>3. PICK ts \in Seq(Seq(U)) : ts = parser.tools BY <1>1, <1>2 DEF Held, Parsers
<1>4. PICK n \in Nat : n = Calling(provider, parser) /\ n <= Len(ts) BY <1>3 DEF Calling
<1>5. \A k \in 1 .. n : ts[k] \in Seq(Pieces)
  <2> TAKE k \in 1 .. n
  <2>1. k \in 1 .. Len(ts) BY <1>4
  <2>2. PICK ps \in Seq(U) : ps = ts[k] BY <2>1
  <2>3. CallBlock(attempt, ps) BY <1>1, <1>2, CallOf
  <2>4. ps \in Seq(Pieces) BY <2>3 DEF CallBlock, Blocks
  <2> QED BY <2>2, <2>4
<1>6. PICK ev : ev = P!Finalize(parser) OBVIOUS
<1>7. /\ Len(ev) = n + 1 /\ ev[n + 1] = [is |-> "response_end"]
      /\ \A k \in 1 .. n : ev[k] = [is |-> "tool_call", pieces |-> ts[k]]
  <2>1. PICK e : e = [is |-> "response_end"] OBVIOUS
  <2>2. PICK A : A = {[is |-> "tool_call", pieces |-> ts[k]] : k \in 1 .. n} \union {e} OBVIOUS
  <2>3. PICK cs \in Seq(A) :
          /\ ev = Append(cs, e) /\ Len(cs) = n
          /\ \A k \in 1 .. n : cs[k] = [is |-> "tool_call", pieces |-> ts[k]]
    <3>1. CASE provider \in {"codex", "google"}
      <4>1. n = 0 BY <1>4, <3>1 DEF Calling
      <4>2. ev = Append(<< >>, e) BY <1>6, <2>1, <3>1 DEF P!Finalize
      <4>3. << >> \in Seq(A) OBVIOUS
      <4>4. PICK cs \in Seq(A) : cs = << >> BY <4>3
      <4>5. Len(cs) = 0 /\ \A k \in 1 .. 0 : cs[k] = [is |-> "tool_call", pieces |-> ts[k]]
        BY <4>4
      <4> QED BY <4>1, <4>2, <4>4, <4>5
    <3>2. CASE provider \notin {"codex", "google"}
      <4>1. n = Len(ts) BY <1>3, <1>4, <3>2 DEF Calling
      <4>2. PICK cs : cs = [k \in 1 .. n |-> [is |-> "tool_call", pieces |-> ts[k]]] OBVIOUS
      <4>3. DOMAIN ts = 1 .. n BY <4>1
      <4>4. ev = Append(cs, e) BY <1>3, <1>6, <2>1, <3>2, <4>2, <4>3 DEF P!Finalize
      <4>5. cs \in [1 .. n -> A] BY <2>2, <4>2
      <4>6. cs \in Seq(A) /\ Len(cs) = n BY <4>5
      <4> QED BY <4>2, <4>4, <4>6
    <3> QED BY <3>1, <3>2
  <2>4. e \in A BY <2>2
  <2>5. Len(ev) = n + 1 /\ ev[n + 1] = e /\ \A k \in 1 .. n : ev[k] = cs[k]
    BY <2>3, <2>4, AppendProperties
  <2> QED BY <2>1, <2>3, <2>5
<1>8. PICK s : s = P!CanonicalAll(stream, ev) OBVIOUS
<1>9. Sound(s) /\ s.started /\ s.ending = "done" /\ Called(stream, s, n, ts)
  BY <1>1, <1>5, <1>7, <1>8, CallsThenEnd
<1>10. PICK g : Chain(stream.blocks, n, ts, g) /\ s.blocks = g[n] BY <1>9 DEF Called
<1>11. Whole(provider, attempt, sent, s.blocks) /\ Mine(provider, attempt, s.blocks)
  <2>1. Chain(stream.blocks, Calling(provider, parser), parser.tools, g) BY <1>3, <1>4, <1>10
  <2>2. /\ Whole(provider, attempt, sent, g[Calling(provider, parser)])
        /\ Mine(provider, attempt, g[Calling(provider, parser)])
    BY <1>1, <2>1, HeldIsWhole
  <2> QED BY <1>4, <1>10, <2>2
<1>12. PICK t : t = P!Exhausted(s) OBVIOUS
<1>13. Sound(t) /\ t.ending = "done" /\ t.blocks = s.blocks
  <2>1. ExhaustedIs(s) BY <1>9, ExhaustedEnds
  <2> QED BY <1>9, <1>12, <2>1 DEF ExhaustedIs, Ends
<1>14. stream' = t BY <1>6, <1>8, <1>12
<1> QED BY <1>11, <1>13, <1>14, CloseKeeps

(* The next attempt.                                                         *)
LEMMA AgainKeeps ==
  ASSUME StreamInv, where \in {"request", "body"}, ~parser.content, P!Again, provider' = provider
  PROVE  StreamInv'
<1>1. /\ Held(provider, attempt, sent, parser, stream.blocks) /\ Going(stream)
      /\ attempt \in Nat
  BY DEF StreamInv, Going
<1>2. PICK a \in Nat : a = attempt + 1 BY <1>1
<1>3. /\ attempt' = a /\ where' = "backoff" /\ sent' = << >> /\ parser' = P!NewParser
      /\ stream' = stream
  <2>1. Stays(stream) BY <1>1, CanonicalKeeps
  <2> QED BY <1>2, <2>1 DEF P!Again, Stays
<1>4. OnlyThinking(provider, stream.blocks) /\ stream.blocks \in Seq(Blocks) BY <1>1 DEF Held
<1>5. Held(provider, a, << >>, P!NewParser, stream.blocks) BY <1>4, HeldAtFirst
<1>6. Known(<< >>) /\ Mine(provider, a, stream.blocks) BY <1>5 DEF Held
<1>7. Sound(stream) /\ stream.ending = "none" BY <1>1 DEF Going
<1>8. provider \in {"chat", "responses", "codex", "anthropic", "mistral", "google"}
  BY DEF StreamInv
<1> QED BY <1>3, <1>5, <1>6, <1>7, <1>8 DEF StreamInv

(* A chunk.                                                                  *)
LEMMA ChunkKeeps ==
  ASSUME StreamInv, NEW c \in P!Chunks, P!Chunk(c)
  PROVE  StreamInv'
<1>1. where = "body" /\ provider' = provider BY DEF P!Chunk
<1>2. PICK r : r = P!Feed(parser, c) OBVIOUS
<1>3. ReadsOn(r, c) BY <1>1, <1>2, FeedReads
<1>4. CASE cancelled
  <2>1. where' = "over" /\ stream' = P!Exhausted(stream) /\ UNCHANGED <<attempt, sent>>
    BY <1>4 DEF P!Chunk, P!Over
  <2> QED BY <1>1, <2>1, ErrorKeeps
<1>5. CASE ~cancelled /\ r.stops = "no"
  <2>1. /\ sent' = Append(sent, c) /\ parser' = r.parser
        /\ stream' = P!CanonicalAll(stream, r.events) /\ UNCHANGED <<where, attempt>>
    BY <1>2, <1>5 DEF P!Chunk
  <2>2. PICK s : s = P!CanonicalAll(stream, r.events) OBVIOUS
  <2>3. Going(s) /\ Held(provider, attempt, Append(sent, c), r.parser, s.blocks)
    BY <1>3, <1>5, <2>2 DEF ReadsOn
  <2>4. /\ Held(provider', attempt', sent', parser', stream'.blocks) /\ Going(stream')
        /\ where' = "body"
    BY <1>1, <2>1, <2>2, <2>3
  <2>5. Known(sent') /\ Mine(provider', attempt', stream'.blocks) BY <2>4 DEF Held
  <2>6. /\ provider' \in {"chat", "responses", "codex", "anthropic", "mistral", "google"}
        /\ attempt' \in Nat
    BY <1>1, <2>1 DEF StreamInv
  <2> QED BY <2>4, <2>5, <2>6 DEF StreamInv, Going
<1>6. CASE ~cancelled /\ r.stops = "end"
  <2>1. /\ where' = "over" /\ UNCHANGED <<attempt, sent>>
        /\ stream' = P!Exhausted(P!CanonicalAll(stream, P!Finalize(r.parser)))
    BY <1>2, <1>6 DEF P!Chunk, P!Over
  <2>2. r.parser = parser BY <1>3, <1>6 DEF ReadsOn
  <2> QED BY <1>1, <2>1, <2>2, FinalizeKeeps
<1>7. CASE ~cancelled /\ r.stops = "error"
  <2>1. /\ where' = "over" /\ UNCHANGED <<attempt, sent>>
        /\ stream' = P!Exhausted(P!Canonical(stream, [is |-> "error"]))
    BY <1>2, <1>7 DEF P!Chunk, P!GivesUp, P!Over
  <2> QED BY <1>1, <2>1, ErrorKeeps
<1>8. CASE ~cancelled /\ r.stops = "transient"
  <2>1. P!Again BY <1>2, <1>8 DEF P!Chunk
  <2>2. ~parser.content BY <1>3, <1>8 DEF ReadsOn
  <2> QED BY <1>1, <2>1, <2>2, AgainKeeps
<1> QED BY <1>3, <1>4, <1>5, <1>6, <1>7, <1>8 DEF ReadsOn

(* Every answer, chunk, failure, pause and cancellation keeps the invariant. *)
LEMMA StreamNext ==
  ASSUME StreamInv, [P!Next]_(P!vars)
  PROVE  StreamInv'
<1>1. where \in {"request", "backoff"} => ~parser.content
  <2>1. PICK no \in BOOLEAN : no = FALSE OBVIOUS
  <2>2. P!NewParser.content = no BY <2>1 DEF P!NewParser
  <2> QED BY <2>1, <2>2 DEF StreamInv
<1>2. ASSUME NEW transient \in BOOLEAN, P!Refused(transient) PROVE StreamInv'
  <2>1. where = "request" /\ provider' = provider BY <1>2 DEF P!Refused
  <2>2. CASE P!Again BY <1>1, <2>1, <2>2, AgainKeeps
  <2>3. CASE P!GivesUp(stream) BY <2>1, <2>3, ErrorKeeps DEF P!GivesUp, P!Over
  <2> QED BY <1>2, <2>2, <2>3 DEF P!Refused
<1>3. CASE P!Unauthorized
  <2>1. where = "request" /\ provider' = provider BY <1>3 DEF P!Unauthorized
  <2>2. CASE P!GivesUp(stream) BY <2>1, <2>2, ErrorKeeps DEF P!GivesUp, P!Over
  <2>3. CASE where' = "raised" /\ UNCHANGED <<attempt, sent, parser, stream>>
    BY <2>1, <2>3 DEF StreamInv
  <2> QED BY <1>3, <2>2, <2>3 DEF P!Unauthorized
<1>4. CASE P!Accepted
  <2>1. /\ where = "request" /\ where' = "body"
        /\ stream' = P!Canonical(stream, [is |-> "response_start"])
        /\ UNCHANGED <<provider, attempt, sent, parser>>
    BY <1>4 DEF P!Accepted
  <2>2. Going(stream) /\ Held(provider, attempt, sent, parser, stream.blocks)
    BY <2>1 DEF StreamInv, Going
  <2>3. Going(stream') /\ stream'.blocks = stream.blocks
    <3>1. Opens(stream) BY <2>2, CanonicalKeeps
    <3> QED BY <2>1, <3>1 DEF Opens
  <2>4. Held(provider', attempt', sent', parser', stream'.blocks) BY <2>1, <2>2, <2>3
  <2>5. Known(sent') /\ Mine(provider', attempt', stream'.blocks) BY <2>4 DEF Held
  <2> QED BY <2>1, <2>3, <2>4, <2>5 DEF StreamInv, Going
<1>5. CASE P!BodyEnds BY <1>5, FinalizeKeeps DEF P!BodyEnds, P!Over
<1>6. CASE P!Breaks
  <2>1. where \in {"request", "body"} /\ provider' = provider BY <1>6 DEF P!Breaks
  <2>2. CASE P!Again /\ ~parser.content BY <2>1, <2>2, AgainKeeps
  <2>3. CASE P!GivesUp(stream) BY <2>1, <2>3, ErrorKeeps DEF P!GivesUp, P!Over
  <2> QED BY <1>6, <2>2, <2>3 DEF P!Breaks
<1>7. CASE P!Waited
  <2>1. where = "backoff" /\ UNCHANGED <<provider, attempt, sent, parser>> BY <1>7 DEF P!Waited
  <2>2. CASE where' = "over" /\ stream' = P!Exhausted(stream) BY <2>1, <2>2, ErrorKeeps
  <2>3. CASE where' = "request" /\ UNCHANGED stream BY <2>1, <2>3 DEF StreamInv
  <2> QED BY <1>7, <2>2, <2>3 DEF P!Waited, P!Over
<1>8. CASE P!Cancel BY <1>8 DEF P!Cancel, StreamInv
<1>9. ASSUME NEW c \in P!Chunks, P!Chunk(c) PROVE StreamInv' BY <1>9, ChunkKeeps
<1>10. CASE UNCHANGED P!vars BY <1>10 DEF P!vars, StreamInv
<1> QED BY <1>2, <1>3, <1>4, <1>5, <1>6, <1>7, <1>8, <1>9, <1>10 DEF P!Next

(* What the invariant counts is what the property counts.                    *)
SameSent(kind) == P!Sent(kind) = SentIn(sent, attempt, kind)
SameArguments(k) == P!Arguments(k) = ArgsIn(sent, attempt, k)
(* Sent and Arguments, place by place.                                       *)
LEMMA SentAsSaid ==
  ASSUME Known(sent)
  PROVE  /\ \A kind : SameSent(kind)
         /\ \A k : SameArguments(k)
<1>1. PICK n \in Nat : n = Len(sent) /\ DOMAIN sent = 1 .. n BY DEF Known
<1>2. ASSUME NEW kind PROVE SameSent(kind)
  <2>1. PICK f : f = [i \in DOMAIN sent |-> P!Place(sent[i].is = kind, i)] OBVIOUS
  <2>2. PICK g : g = [i \in 1 .. n |-> Spot(attempt, i, SaidAt(sent, kind))] OBVIOUS
  <2>3. P!Sent(kind) = P!FlattenSeq(f) BY <2>1 DEF P!Sent
  <2>4. SentIn(sent, attempt, kind) = P!FlattenSeq(g) BY <1>1, <2>2 DEF SentIn, Spots
  <2>5. ASSUME NEW i \in 1 .. n PROVE f[i] = g[i]
    <3>1. i \in SaidAt(sent, kind) <=> sent[i].is = kind BY <1>1 DEF SaidAt
    <3>2. f[i] = P!Place(sent[i].is = kind, i) BY <1>1, <2>1
    <3>3. g[i] = Spot(attempt, i, SaidAt(sent, kind)) BY <2>2
    <3>4. CASE sent[i].is = kind BY <3>1, <3>2, <3>3, <3>4, Zenon DEF P!Place, Spot
    <3>5. CASE sent[i].is # kind BY <3>1, <3>2, <3>3, <3>5, Zenon DEF P!Place, Spot
    <3> QED BY <3>4, <3>5
  <2>6. f = g
    <3>1. f = [i \in 1 .. n |-> f[i]] BY <1>1, <2>1
    <3>2. g = [i \in 1 .. n |-> g[i]] BY <2>2
    <3> QED BY <2>5, <3>1, <3>2
  <2> QED BY <2>3, <2>4, <2>6 DEF SameSent
<1>3. ASSUME NEW k PROVE SameArguments(k)
  <2>1. PICK f : f = [i \in DOMAIN sent |->
                        P!Place(sent[i] = [is |-> "arguments", tool |-> k], i)]
    OBVIOUS
  <2>2. PICK g : g = [i \in 1 .. n |-> Spot(attempt, i, ArgsAt(sent, k))] OBVIOUS
  <2>3. P!Arguments(k) = P!FlattenSeq(f) BY <2>1 DEF P!Arguments
  <2>4. ArgsIn(sent, attempt, k) = P!FlattenSeq(g) BY <1>1, <2>2 DEF ArgsIn, Spots
  <2>5. ASSUME NEW i \in 1 .. n PROVE f[i] = g[i]
    <3> DEFINE hit == sent[i] = [is |-> "arguments", tool |-> k]
    <3>1. i \in ArgsAt(sent, k) <=> hit BY <1>1 DEF ArgsAt
    <3>2. f[i] = P!Place(hit, i) BY <1>1, <2>1
    <3>3. g[i] = Spot(attempt, i, ArgsAt(sent, k)) BY <2>2
    <3> HIDE DEF hit
    <3>4. CASE hit BY <3>1, <3>2, <3>3, <3>4, Zenon DEF P!Place, Spot
    <3>5. CASE ~hit BY <3>1, <3>2, <3>3, <3>5, Zenon DEF P!Place, Spot
    <3> QED BY <3>4, <3>5
  <2>6. f = g
    <3>1. f = [i \in 1 .. n |-> f[i]] BY <1>1, <2>1
    <3>2. g = [i \in 1 .. n |-> g[i]] BY <2>2
    <3> QED BY <2>5, <3>1, <3>2
  <2> QED BY <2>3, <2>4, <2>6 DEF SameArguments
<1> QED BY <1>2, <1>3

(* What the invariant keeps is what the property keeps.                      *)
SameKept(kind) == P!Kept(kind) = KeptIn(stream.blocks, kind)
(* Kept and Calls, block by block, and the tools that have ended.            *)
LEMMA KeptAsHeld ==
  ASSUME Known(sent), stream.blocks \in Seq(Blocks)
  PROVE  /\ \A kind : SameKept(kind)
         /\ P!Calls = CallsIn(stream.blocks)
         /\ P!Cardinality({k \in 1 .. P!Opened : ~P!Open(k)}) = Cardinality(ClosedIn(sent))
<1>1. DOMAIN stream.blocks = 1 .. Len(stream.blocks) OBVIOUS
<1>2. ASSUME NEW kind PROVE SameKept(kind)
  BY <1>1 DEF SameKept, P!Kept, KeptIn
<1>3. P!Calls = CallsIn(stream.blocks) BY <1>1 DEF P!Calls, CallsIn
<1>4. {k \in 1 .. P!Opened : ~P!Open(k)} = ClosedIn(sent)
  <2>1. P!Opened = OpenedIn(sent) BY OpenedSent
  <2>2. DOMAIN sent = 1 .. Len(sent) BY DEF Known
  <2>3. \A k : ~P!Open(k) <=> EndedIn(sent, k) BY <2>2 DEF P!Open, EndedIn
  <2> QED BY <2>1, <2>3 DEF ClosedIn
<1>5. P!Cardinality(ClosedIn(sent)) = Cardinality(ClosedIn(sent))
  BY DEF P!Cardinality, Cardinality
<1> QED BY <1>2, <1>3, <1>4, <1>5

(* The invariant is as strong as the property.                               *)
LEMMA InvIsFaithful ==
  ASSUME StreamInv
  PROVE  P!StreamIsFaithful
<1>1. Sound(stream) /\ Known(sent) BY DEF StreamInv
<1>2. stream.blocks \in Seq(Blocks) BY <1>1 DEF Sound, Streams
<1>3. P!OneMessage
  <2>1. P!Grammar(stream.out) = MarkOf(stream) BY <1>1 DEF Sound
  <2>2. MarkOf(stream) = "over" <=> stream.ending # "none" BY DEF MarkOf
  <2>3. stream.ending # "none" <=> where = "over" BY DEF StreamInv
  <2> QED BY <2>1, <2>2, <2>3 DEF P!OneMessage
<1>4. P!NothingTwice
  <2> SUFFICES ASSUME NEW b \in DOMAIN stream.blocks, NEW i \in DOMAIN stream.blocks[b].pieces
               PROVE  \/ stream.blocks[b].pieces[i][1] = attempt
                      \/ provider = "codex" /\ stream.blocks[b].kind = "thinking"
    BY DEF P!NothingTwice
  <2>1. PICK bs \in Seq(Blocks) : bs = stream.blocks BY <1>2
  <2>2. b \in 1 .. Len(bs) BY <2>1
  <2>3. bs[b] \in Blocks BY <2>1, <2>2
  <2>4. PICK ps \in Seq(Pieces) : ps = bs[b].pieces BY <2>3 DEF Blocks
  <2>5. i \in 1 .. Len(ps) BY <2>1, <2>4
  <2>6. Mine(provider, attempt, bs) BY <2>1 DEF StreamInv
  <2> QED BY <2>1, <2>2, <2>4, <2>5, <2>6 DEF Mine
<1>5. P!DoneIsComplete
  <2> SUFFICES ASSUME stream.ending = "done"
               PROVE  /\ P!Kept("text") = P!Sent("text")
                      /\ provider # "codex" => P!Kept("thinking") = P!Sent("thinking")
                      /\ provider \notin {"codex", "google"} =>
                           /\ Len(P!Calls) = P!Opened
                           /\ \A k \in 1 .. P!Opened : P!Calls[k].pieces = P!Arguments(k)
                      /\ provider = "codex" =>
                           Len(P!Calls) = P!Cardinality({k \in 1 .. P!Opened : ~P!Open(k)})
    BY DEF P!DoneIsComplete
  <2>1. Whole(provider, attempt, sent, stream.blocks) BY DEF StreamInv
  <2>2. /\ \A kind : P!Sent(kind) = SentIn(sent, attempt, kind)
        /\ \A k : P!Arguments(k) = ArgsIn(sent, attempt, k)
    BY <1>1, SentAsSaid DEF SameSent, SameArguments
  <2>3. /\ \A kind : P!Kept(kind) = KeptIn(stream.blocks, kind)
        /\ P!Calls = CallsIn(stream.blocks)
        /\ P!Cardinality({k \in 1 .. P!Opened : ~P!Open(k)}) = Cardinality(ClosedIn(sent))
    BY <1>1, <1>2, KeptAsHeld DEF SameKept
  <2>4. P!Opened = OpenedIn(sent) BY <1>1, OpenedSent
  <2> QED BY <2>1, <2>2, <2>3, <2>4 DEF Whole, TextsHeld
<1> QED BY <1>3, <1>4, <1>5 DEF P!StreamIsFaithful

(* Before the first attempt.                                                 *)
LEMMA StreamInit ==
  ASSUME P!ProvidersAssumption, provider \in Apis, where = "request", attempt = 0,
         sent = << >>, parser = P!NewParser, stream = P!Fresh
  PROVE  StreamInv
<1>1. provider \in {"chat", "responses", "codex", "anthropic", "mistral", "google"}
  BY DEF P!ProvidersAssumption
<1>2. Going(stream) /\ stream.blocks = << >>
  <2>1. << >> \in Seq(Blocks) /\ << >> \in Seq(Events) OBVIOUS
  <2>2. PICK bs \in Seq(Blocks) : bs = << >> BY <2>1
  <2>3. PICK o \in Seq(Events) : o = << >> BY <2>1
  <2>4. PICK no \in BOOLEAN : no = FALSE OBVIOUS
  <2>5. bs = << >> /\ o = << >> /\ no = FALSE BY <2>2, <2>3, <2>4
  <2>6. stream = [blocks |-> bs, open |-> 0, started |-> no, ending |-> "none", out |-> o]
    BY <2>5 DEF P!Fresh, P!NoBlock
  <2>7. stream \in Streams BY <2>6 DEF Streams
  <2>8. P!Grammar(o) = "nothing" BY <2>5, GrammarNothing
  <2>9. MarkOf(stream) = "nothing" BY <2>5, <2>6 DEF MarkOf
  <2> QED BY <2>5, <2>6, <2>7, <2>8, <2>9 DEF Going, Sound
<1>3. OnlyThinking(provider, << >>) /\ << >> \in Seq(Blocks) BY DEF OnlyThinking
<1>4. Held(provider, attempt, sent, parser, stream.blocks)
  <2>1. attempt \in Nat OBVIOUS
  <2>2. Held(provider, attempt, << >>, P!NewParser, << >>) BY <1>3, <2>1, HeldAtFirst
  <2> QED BY <1>2, <2>2
<1>5. Known(sent) /\ Mine(provider, attempt, stream.blocks) BY <1>4 DEF Held
<1>6. attempt \in Nat OBVIOUS
<1> QED BY <1>1, <1>2, <1>4, <1>5, <1>6 DEF StreamInv, Going

(* Whatever is refused, breaks off, times out, is tried again or cancelled,  *)
(* and however much a provider sends: the agent loop reads one well-formed   *)
(* message per request, no piece of it of an attempt that was given up, and  *)
(* a message that is done holds all that was sent, in its order.             *)
THEOREM StreamIsAlwaysFaithful == Spec => []StreamIsFaithful
<1>1. Init => StreamInv
  <2> SUFFICES ASSUME P!Init PROVE StreamInv BY DEF Init
  <2>1. P!ProvidersAssumption BY PartsAssumption
  <2>2. /\ provider \in Apis /\ where = "request" /\ attempt = 0
        /\ sent = << >> /\ parser = P!NewParser /\ stream = P!Fresh
    BY DEF P!Init
  <2> QED BY <2>1, <2>2, StreamInit
<1>2. StreamInv /\ [Next]_vars => StreamInv'
  <2> SUFFICES ASSUME StreamInv, [Next]_vars PROVE StreamInv' OBVIOUS
  <2>1. [P!Next]_(P!vars) BY DEF Next, vars, streamVars, P!vars
  <2> QED BY <2>1, StreamNext
<1>3. StreamInv => StreamIsFaithful BY InvIsFaithful DEF StreamIsFaithful
<1> QED BY <1>1, <1>2, <1>3, PTL DEF Spec
-----------------------------------------------------------------------------
(* The identifiers of the calls of an assistant message.                     *)
CallIds(m) == {m.blocks[b].id : b \in {b \in DOMAIN m.blocks : m.blocks[b].is = "call"}}

Ids         == Nat \X Nat
WireBlocks  == [is : {"text", "thinking"}] \union [is : {"call"}, id : Ids]
Users       == [role : {"user"}, image : BOOLEAN]
Replies     == [role : {"assistant"}, api : Apis, blocks : Seq(WireBlocks)]
Results     == [role : {"result"}, id : Ids, image : BOOLEAN]
AllMessages == Users \union Replies \union Results

\* the message n is an assistant's, and the message r answers its call id
Replied(n)    == history[n].role = "assistant"
Answers(r, id) == history[r].role = "result" /\ history[r].id = id

(* A call is named for the message it stands in, a result follows the        *)
(* message with its call, each call has one, and whatever else comes waits   *)
(* until all are there.                                                      *)
HistoryInv ==
  /\ history \in Seq(AllMessages) /\ history # << >> /\ history[1].role = "user"
  /\ \A n \in 1 .. Len(history) : Replied(n) =>
       \A b \in DOMAIN history[n].blocks :
         history[n].blocks[b].is = "call" => history[n].blocks[b].id = <<n - 1, b>>
  /\ \A r \in 1 .. Len(history) : history[r].role = "result" =>
       \E n \in 1 .. r - 1 : /\ Replied(n) /\ history[r].id \in CallIds(history[n])
                             /\ \A k \in n + 1 .. r : history[k].role = "result"
  /\ \A r, s \in 1 .. Len(history) :
       history[r].role = "result" /\ history[s].role = "result" /\ history[s].id = history[r].id
       => r = s
  /\ \A m \in 1 .. Len(history) : history[m].role # "result" =>
       \A n \in 1 .. m - 1 : Replied(n) =>
         \A id \in CallIds(history[n]) : \E r \in 1 .. Len(history) : Answers(r, id)

(* The calls that wait are those that were made and have no result.          *)
LEMMA WaitingCalls ==
  ASSUME HistoryInv, NEW id
  PROVE  id \in H!Unanswered <=>
           /\ \E n \in 1 .. Len(history) : Replied(n) /\ id \in CallIds(history[n])
           /\ ~\E r \in 1 .. Len(history) : Answers(r, id)
<1>1. DOMAIN history = 1 .. Len(history) BY DEF HistoryInv
<1> DEFINE D == DOMAIN history
           called == UNION {{history[i].blocks[b].id :
                              b \in {b \in DOMAIN history[i].blocks : history[i].blocks[b].is = "call"}}
                            : i \in {i \in D : history[i].role = "assistant"}}
           answered == {history[i].id : i \in {i \in D : history[i].role = "result"}}
<1>2. id \in called <=> \E n \in D : Replied(n) /\ id \in CallIds(history[n])
  BY Zenon DEF Replied, CallIds
<1>3. id \in answered <=> \E r \in D : Answers(r, id)
  BY Zenon DEF Answers
<1>4. H!Unanswered = called \ answered BY DEF H!Unanswered
<1> QED BY <1>1, <1>2, <1>3, <1>4

(* One more message at the end of the history.                               *)
Appended(m) ==
  /\ history' \in Seq(AllMessages) /\ Len(history') = Len(history) + 1
  /\ history'[Len(history) + 1] = m
  /\ \A k \in 1 .. Len(history) : history'[k] = history[k]
(* A step of the history adds its message.                                   *)
LEMMA GrowsAdds ==
  ASSUME HistoryInv, NEW m \in AllMessages, H!Grows(m)
  PROVE  Appended(m)
<1>1. history \in Seq(AllMessages) /\ history' = Append(history, m)
  BY DEF HistoryInv, H!Grows
<1> QED BY <1>1, AppendProperties DEF Appended

(* A message of the user's or the assistant's comes when no call waits.      *)
LEMMA AddedKeeps ==
  ASSUME HistoryInv, NEW m \in Users \union Replies, Appended(m), H!Unanswered = {},
         m.role = "assistant" =>
           \A b \in DOMAIN m.blocks : m.blocks[b].is = "call" => m.blocks[b].id = <<Len(history), b>>
  PROVE  HistoryInv'
<1>1. PICK l \in Nat \ {0} : l = Len(history) BY DEF HistoryInv
<1>2. /\ history' \in Seq(AllMessages) /\ Len(history') = l + 1 /\ history'[l + 1] = m
      /\ \A k \in 1 .. l : history'[k] = history[k]
  BY <1>1 DEF Appended
<1>3. m.role # "result" BY DEF Users, Replies
<1>4. \A n \in 1 .. l : Replied(n)' = Replied(n) /\ history'[n] = history[n]
  BY <1>2 DEF Replied
<1>5. \A r \in 1 .. l : \A id : Answers(r, id)' <=> Answers(r, id)
  BY <1>2 DEF Answers
<1>6. \A k \in 1 .. l + 1 : k \in 1 .. l \/ k = l + 1 OBVIOUS
<1>7. history' # << >> /\ history'[1].role = "user"
  BY <1>1, <1>2 DEF HistoryInv
<1>8. \A n \in 1 .. l + 1 : Replied(n)' =>
        \A b \in DOMAIN history'[n].blocks :
          history'[n].blocks[b].is = "call" => history'[n].blocks[b].id = <<n - 1, b>>
  <2>1. ASSUME NEW n \in 1 .. l, Replied(n)'
        PROVE  \A b \in DOMAIN history'[n].blocks :
                 history'[n].blocks[b].is = "call" => history'[n].blocks[b].id = <<n - 1, b>>
    BY <1>1, <1>4, <2>1 DEF HistoryInv
  <2>2. ASSUME Replied(l + 1)'
        PROVE  \A b \in DOMAIN m.blocks : m.blocks[b].is = "call" => m.blocks[b].id = <<l, b>>
    BY <1>1, <1>2, <2>2 DEF Replied
  <2>3. (l + 1) - 1 = l OBVIOUS
  <2> QED BY <1>2, <1>6, <2>1, <2>2, <2>3
<1>9. \A r \in 1 .. l + 1 : history'[r].role = "result" => r \in 1 .. l /\ history[r].role = "result"
  BY <1>2, <1>3, <1>6
<1>10. \A r \in 1 .. l + 1 : history'[r].role = "result" =>
         \E n \in 1 .. r - 1 : /\ Replied(n)' /\ history'[r].id \in CallIds(history'[n])
                               /\ \A k \in n + 1 .. r : history'[k].role = "result"
  <2> TAKE r \in 1 .. l + 1
  <2> HAVE history'[r].role = "result"
  <2>1. r \in 1 .. l /\ history[r].role = "result" BY <1>9
  <2>2. PICK n \in 1 .. r - 1 : /\ Replied(n) /\ history[r].id \in CallIds(history[n])
                                /\ \A k \in n + 1 .. r : history[k].role = "result"
    BY <1>1, <2>1 DEF HistoryInv
  <2>3. n \in 1 .. l /\ history'[n] = history[n] /\ history'[r] = history[r] BY <1>2, <2>1
  <2>4. \A k \in n + 1 .. r : history'[k] = history[k] BY <1>2, <2>1
  <2> QED BY <1>4, <2>2, <2>3, <2>4
<1>11. \A r, s \in 1 .. l + 1 :
         history'[r].role = "result" /\ history'[s].role = "result" /\ history'[s].id = history'[r].id
         => r = s
  BY <1>1, <1>2, <1>9 DEF HistoryInv
<1>12. \A k \in 1 .. l + 1 : history'[k].role # "result" =>
         \A n \in 1 .. k - 1 : Replied(n)' =>
           \A id \in CallIds(history'[n]) : \E r \in 1 .. l + 1 : Answers(r, id)'
  <2> TAKE k \in 1 .. l + 1
  <2> HAVE history'[k].role # "result"
  <2> TAKE n \in 1 .. k - 1
  <2> HAVE Replied(n)'
  <2> TAKE id \in CallIds(history'[n])
  <2>1. n \in 1 .. l /\ Replied(n) /\ id \in CallIds(history[n]) BY <1>4
  <2>2. PICK r \in 1 .. l : Answers(r, id) BY <1>1, <2>1, WaitingCalls
  <2>3. Answers(r, id)' /\ r \in 1 .. l + 1 BY <1>5, <2>2
  <2> QED BY <2>3
<1> QED BY <1>2, <1>7, <1>8, <1>10, <1>11, <1>12 DEF HistoryInv

(* A result is one of a call of the last assistant message, which waits.     *)
LEMMA ResultKeeps ==
  ASSUME HistoryInv, NEW id \in H!Unanswered, NEW image \in BOOLEAN, NEW m \in Results,
         m = H!Result(id, image), Appended(m)
  PROVE  HistoryInv'
<1>1. PICK l \in Nat \ {0} : l = Len(history) BY DEF HistoryInv
<1>2. /\ history' \in Seq(AllMessages) /\ Len(history') = l + 1 /\ history'[l + 1] = m
      /\ \A k \in 1 .. l : history'[k] = history[k]
  BY <1>1 DEF Appended
<1>3. m.role = "result" /\ m.id = id BY DEF H!Result
<1>4. \A n \in 1 .. l : Replied(n)' = Replied(n) /\ history'[n] = history[n]
  BY <1>2 DEF Replied
<1>5. \A r \in 1 .. l : \A i : Answers(r, i)' <=> Answers(r, i)
  BY <1>2 DEF Answers
<1>6. \A k \in 1 .. l + 1 : k \in 1 .. l \/ k = l + 1 OBVIOUS
<1>7. history' # << >> /\ history'[1].role = "user"
  BY <1>1, <1>2 DEF HistoryInv
<1>8. ~Replied(l + 1)' BY <1>2, <1>3 DEF Replied
<1>9. \A n \in 1 .. l + 1 : Replied(n)' =>
        \A b \in DOMAIN history'[n].blocks :
          history'[n].blocks[b].is = "call" => history'[n].blocks[b].id = <<n - 1, b>>
  BY <1>1, <1>4, <1>6, <1>8 DEF HistoryInv
<1>10. PICK n \in 1 .. l : Replied(n) /\ id \in CallIds(history[n])
  BY <1>1, WaitingCalls
<1>11. ~\E r \in 1 .. l : Answers(r, id) BY <1>1, WaitingCalls
<1>12. \A k \in n + 1 .. l + 1 : history'[k].role = "result"
  <2> TAKE k \in n + 1 .. l + 1
  <2>1. CASE k = l + 1 BY <1>2, <1>3, <2>1
  <2>2. CASE k # l + 1
    <3>1. k \in 1 .. l /\ n \in 1 .. k - 1 BY <2>2
    <3>2. history[k].role # "result" => \E r \in 1 .. l : Answers(r, id)
      BY <1>1, <1>10, <3>1 DEF HistoryInv
    <3> QED BY <1>2, <1>11, <3>1, <3>2
  <2> QED BY <2>1, <2>2
<1>13. \A r \in 1 .. l + 1 : history'[r].role = "result" =>
         \E j \in 1 .. r - 1 : /\ Replied(j)' /\ history'[r].id \in CallIds(history'[j])
                               /\ \A k \in j + 1 .. r : history'[k].role = "result"
  <2> TAKE r \in 1 .. l + 1
  <2> HAVE history'[r].role = "result"
  <2>1. CASE r = l + 1
    <3>1. n \in 1 .. r - 1 BY <2>1
    <3>2. Replied(n)' /\ history'[r].id \in CallIds(history'[n])
      BY <1>2, <1>3, <1>4, <1>10, <2>1
    <3> QED BY <1>12, <2>1, <3>1, <3>2
  <2>2. CASE r # l + 1
    <3>1. r \in 1 .. l /\ history[r].role = "result" BY <1>2, <2>2
    <3>2. PICK j \in 1 .. r - 1 : /\ Replied(j) /\ history[r].id \in CallIds(history[j])
                                  /\ \A k \in j + 1 .. r : history[k].role = "result"
      BY <1>1, <3>1 DEF HistoryInv
    <3>3. j \in 1 .. l /\ history'[j] = history[j] /\ history'[r] = history[r] BY <1>2, <3>1
    <3>4. \A k \in j + 1 .. r : history'[k] = history[k] BY <1>2, <3>1
    <3> QED BY <1>4, <3>2, <3>3, <3>4
  <2> QED BY <2>1, <2>2
<1>14. \A r, s \in 1 .. l + 1 :
         history'[r].role = "result" /\ history'[s].role = "result" /\ history'[s].id = history'[r].id
         => r = s
  <2> TAKE r, s \in 1 .. l + 1
  <2> HAVE history'[r].role = "result" /\ history'[s].role = "result" /\ history'[s].id = history'[r].id
  <2>1. CASE r = l + 1 /\ s = l + 1 BY <2>1
  <2>2. CASE r \in 1 .. l /\ s \in 1 .. l
    <3>1. history[r].role = "result" /\ history[s].role = "result" /\ history[s].id = history[r].id
      BY <1>2, <2>2
    <3> QED BY <1>1, <2>2, <3>1 DEF HistoryInv
  <2>3. CASE r = l + 1 /\ s \in 1 .. l
    <3>1. Answers(s, id) BY <1>2, <1>3, <2>3 DEF Answers
    <3> QED BY <1>11, <2>3, <3>1
  <2>4. CASE r \in 1 .. l /\ s = l + 1
    <3>1. Answers(r, id) BY <1>2, <1>3, <2>4 DEF Answers
    <3> QED BY <1>11, <2>4, <3>1
  <2> QED BY <1>6, <2>1, <2>2, <2>3, <2>4
<1>15. \A k \in 1 .. l + 1 : history'[k].role # "result" =>
         \A j \in 1 .. k - 1 : Replied(j)' =>
           \A i \in CallIds(history'[j]) : \E r \in 1 .. l + 1 : Answers(r, i)'
  <2> TAKE k \in 1 .. l + 1
  <2> HAVE history'[k].role # "result"
  <2> TAKE j \in 1 .. k - 1
  <2> HAVE Replied(j)'
  <2> TAKE i \in CallIds(history'[j])
  <2>1. k \in 1 .. l BY <1>2, <1>3, <1>6
  <2>2. history[k].role # "result" /\ j \in 1 .. l /\ Replied(j) /\ i \in CallIds(history[j])
    BY <1>2, <1>4, <2>1
  <2>3. PICK r \in 1 .. l : Answers(r, i) BY <1>1, <2>1, <2>2 DEF HistoryInv
  <2>4. Answers(r, i)' /\ r \in 1 .. l + 1 BY <1>5, <2>3
  <2> QED BY <2>4
<1> QED BY <1>2, <1>7, <1>9, <1>13, <1>14, <1>15 DEF HistoryInv

(* The messages that may be added.                                           *)
LEMMA HistoryNext ==
  ASSUME H!HistoryAssumption, HistoryInv, [H!Next]_history
  PROVE  HistoryInv'
<1>1. ASSUME H!Unanswered = {}, NEW image \in BOOLEAN, H!Grows(H!User(image))
      PROVE  HistoryInv'
  <2>1. H!User(image) \in Users BY DEF H!User, Users
  <2>4. PICK m \in Users : m = H!User(image) /\ m.role = "user" BY <2>1 DEF H!User
  <2>2. m \in AllMessages /\ m \in Users \union Replies BY DEF AllMessages
  <2>3. Appended(m) BY <1>1, <2>4, <2>2, GrowsAdds
  <2> QED BY <1>1, <2>4, <2>2, <2>3, AddedKeeps
<1>2. ASSUME H!Unanswered = {}, NEW api \in Apis, NEW kinds \in Shapes,
             H!Grows(H!Assistant(api, kinds, Len(history)))
      PROVE  HistoryInv'
  <2>1. kinds \in Seq({"text", "thinking", "call"}) /\ Len(history) \in Nat
    BY DEF H!HistoryAssumption, HistoryInv
  <2>2. PICK c \in Nat, l \in Nat : c = Len(kinds) /\ l = Len(history) BY <2>1
  <2> DEFINE bs == [i \in 1 .. c |-> IF kinds[i] = "call" THEN [is |-> "call", id |-> <<l, i>>]
                                     ELSE [is |-> kinds[i]]]
  <2>3. \A i \in 1 .. c : bs[i] \in WireBlocks
    <3> TAKE i \in 1 .. c
    <3>1. kinds[i] \in {"text", "thinking", "call"} BY <2>1, <2>2
    <3>2. <<l, i>> \in Ids BY DEF Ids
    <3> QED BY <3>1, <3>2 DEF WireBlocks
  <2>4. \A i \in 1 .. c : bs[i].is = "call" => bs[i].id = <<l, i>>
    <3> TAKE i \in 1 .. c
    <3>1. CASE kinds[i] = "call" BY <3>1
    <3>2. CASE kinds[i] # "call" BY <3>2
    <3> QED BY <3>1, <3>2
  <2>5. DOMAIN bs = 1 .. c OBVIOUS
  <2>6. DOMAIN kinds = 1 .. c BY <2>1, <2>2
  <2>7. H!Assistant(api, kinds, Len(history)) = [role |-> "assistant", api |-> api, blocks |-> bs]
    BY <2>2, <2>6 DEF H!Assistant
  <2>8. bs \in [1 .. c -> WireBlocks] BY <2>3
  <2> HIDE DEF bs
  <2>9. bs \in Seq(WireBlocks) BY <2>8
  <2>10. PICK m \in Replies : m = H!Assistant(api, kinds, Len(history)) /\ m.blocks = bs
    BY <2>7, <2>9 DEF Replies
  <2>11. m \in AllMessages /\ m \in Users \union Replies BY DEF AllMessages
  <2>12. Appended(m) BY <1>2, <2>10, <2>11, GrowsAdds
  <2>13. \A b \in DOMAIN m.blocks : m.blocks[b].is = "call" => m.blocks[b].id = <<Len(history), b>>
    BY <2>2, <2>4, <2>5, <2>10
  <2> QED BY <1>2, <2>11, <2>12, <2>13, AddedKeeps
<1>3. ASSUME NEW id \in H!Unanswered, NEW image \in BOOLEAN, H!Grows(H!Result(id, image))
      PROVE  HistoryInv'
  <2>1. PICK n \in 1 .. Len(history) : Replied(n) /\ id \in CallIds(history[n])
    BY WaitingCalls
  <2>2. history[n] \in Replies
    <3>1. history[n] \in AllMessages BY DEF HistoryInv
    <3> QED BY <2>1, <3>1 DEF AllMessages, Users, Results, Replied
  <2>3. id \in Ids
    <3>1. PICK b \in DOMAIN history[n].blocks : history[n].blocks[b].is = "call" /\ id = history[n].blocks[b].id
      BY <2>1, Zenon DEF CallIds
    <3>2. history[n].blocks[b] \in WireBlocks BY <2>2 DEF Replies
    <3> QED BY <3>1, <3>2 DEF WireBlocks
  <2>4. PICK m \in Results : m = H!Result(id, image) BY <2>3 DEF H!Result, Results
  <2>5. m \in AllMessages BY DEF AllMessages
  <2>6. Appended(m) BY <1>3, <2>4, <2>5, GrowsAdds
  <2> QED BY <1>3, <2>4, <2>6, ResultKeeps
<1>4. CASE UNCHANGED history
  BY <1>4 DEF HistoryInv, Replied, Answers
<1> QED BY <1>1, <1>2, <1>3, <1>4 DEF H!Next

(* A sequence that grows by one part after another.                          *)
Growing(U, n, cs, f) ==
  /\ n \in Nat /\ f \in [0 .. n -> Seq(U)] /\ f[0] = << >>
  /\ \A k \in 1 .. n : cs[k] \in Seq(U) /\ f[k] = f[k - 1] \o cs[k]

(* It is laid out: where its part k begins, and what stands there.           *)
Laid(w, n, cs, off) ==
  /\ n \in Nat /\ off \in [0 .. n -> Nat] /\ off[0] = 0 /\ Len(w) = off[n]
  /\ \A k \in 1 .. n : /\ cs[k] \in Seq(H!Range(cs[k])) /\ off[k] = off[k - 1] + Len(cs[k])
                       /\ \A j \in 1 .. Len(cs[k]) : w[off[k - 1] + j] = cs[k][j]

(* What stands in a concatenation.                                           *)
Extends(a, c, b) ==
  /\ Len(a) \in Nat /\ Len(b) \in Nat /\ Len(c) \in Nat /\ Len(b) = Len(a) + Len(c)
  /\ Len(a) <= Len(b) /\ \A i \in 1 .. Len(a) : b[i] = a[i]
  /\ \A j \in 1 .. Len(c) : b[Len(a) + j] = c[j]
(* Two sequences joined begin with the first.                                *)
LEMMA ConcatExtends ==
  ASSUME NEW U, NEW a \in Seq(U), NEW c \in Seq(U)
  PROVE  Extends(a, c, a \o c)
BY ConcatProperties DEF Extends

(* What has grown stays.                                                     *)
Prefixes(n, f) ==
  \A m \in 0 .. n : \A k \in 0 .. m :
    Len(f[k]) <= Len(f[m]) /\ \A i \in 1 .. Len(f[k]) : f[m][i] = f[k][i]
(* What was there stays in its place as a sequence grows.                    *)
LEMMA GrownStays ==
  ASSUME NEW U, NEW n, NEW cs, NEW f, Growing(U, n, cs, f)
  PROVE  Prefixes(n, f)
<1>0. n \in Nat /\ f \in [0 .. n -> Seq(U)] BY DEF Growing
<1> DEFINE Kept(m) == \A k \in 0 .. m :
             Len(f[k]) <= Len(f[m]) /\ \A i \in 1 .. Len(f[k]) : f[m][i] = f[k][i]
           T == {m \in 0 .. n : Kept(m)}
<1>1. 0 \in T
  <2>1. f[0] \in Seq(U) BY <1>0
  <2> QED BY <1>0, <2>1
<1>2. ASSUME NEW m \in 1 .. n, m - 1 \in T PROVE m \in T
  <2>1. m \in 0 .. n /\ m - 1 \in 0 .. n BY <1>0
  <2>2. PICK a \in Seq(U), b \in Seq(U), c \in Seq(U) :
          a = f[m - 1] /\ b = f[m] /\ c = cs[m] /\ b = a \o c
    BY <1>0, <2>1 DEF Growing
  <2>8. Extends(a, c, b) BY <2>2, ConcatExtends, Zenon
  <2>3. Len(b) = Len(a) + Len(c) /\ \A i \in 1 .. Len(a) : b[i] = a[i] BY <2>8 DEF Extends
  <2>4. Len(a) \in Nat /\ Len(b) \in Nat /\ Len(a) <= Len(b) BY <2>8 DEF Extends
  <2>5. ASSUME NEW k \in 0 .. m
        PROVE  Len(f[k]) <= Len(f[m]) /\ \A i \in 1 .. Len(f[k]) : f[m][i] = f[k][i]
    <3>1. CASE k = m
      <4>1. f[k] \in Seq(U) BY <1>0, <2>5
      <4> QED BY <3>1, <4>1
    <3>2. CASE k # m
      <4>1. k \in 0 .. m - 1 BY <1>0, <3>2
      <4>2. k \in 0 .. n BY <1>0
      <4>3. PICK d \in Seq(U) : d = f[k] BY <1>0, <4>2
      <4>4. Len(d) <= Len(a) /\ \A i \in 1 .. Len(d) : a[i] = d[i] BY <1>2, <2>2, <4>1, <4>3
      <4>5. Len(d) \in Nat BY <4>3
      <4>6. Len(d) <= Len(b) /\ \A i \in 1 .. Len(d) : b[i] = d[i]
        BY <2>3, <2>4, <4>4, <4>5
      <4> QED BY <2>2, <4>3, <4>6
    <3> QED BY <3>1, <3>2
  <2> QED BY <2>1, <2>5
<1> HIDE DEF T
<1>3. \A m \in 0 .. n : m \in T BY <1>0, <1>1, <1>2, UpTo
<1> QED BY <1>3 DEF T, Prefixes

(* What grew by parts is laid out of them.                                   *)
LEMMA GrownIsLaid ==
  ASSUME NEW U, NEW n, NEW cs, NEW f, Growing(U, n, cs, f)
  PROVE  f[n] \in Seq(U) /\ \E off : Laid(f[n], n, cs, off)
<1>0. n \in Nat /\ f \in [0 .. n -> Seq(U)] /\ n \in 0 .. n BY DEF Growing
<1> DEFINE off == [k \in 0 .. n |-> Len(f[k])]
<1>1. off \in [0 .. n -> Nat]
  <2>1. \A k \in 0 .. n : Len(f[k]) \in Nat BY <1>0
  <2> QED BY <2>1
<1>2. off[0] = 0 /\ Len(f[n]) = off[n] BY <1>0 DEF Growing
<1>3. ASSUME NEW k \in 1 .. n
      PROVE  /\ cs[k] \in Seq(H!Range(cs[k])) /\ off[k] = off[k - 1] + Len(cs[k])
             /\ \A j \in 1 .. Len(cs[k]) : f[n][off[k - 1] + j] = cs[k][j]
  <2>1. k \in 0 .. n /\ k - 1 \in 0 .. n /\ k \in 0 .. n BY <1>0
  <2>2. PICK a \in Seq(U), b \in Seq(U), c \in Seq(U), d \in Seq(U) :
          a = f[k - 1] /\ b = f[k] /\ c = cs[k] /\ b = a \o c /\ d = f[n]
    BY <1>0, <2>1 DEF Growing
  <2>9. Extends(a, c, b) BY <2>2, ConcatExtends, Zenon
  <2>3. Len(b) = Len(a) + Len(c) /\ \A j \in 1 .. Len(c) : b[Len(a) + j] = c[j] BY <2>9 DEF Extends
  <2>4. \A i \in 1 .. Len(b) : d[i] = b[i]
    <3>0. \A m \in 0 .. n : \A x \in 0 .. m :
            Len(f[x]) <= Len(f[m]) /\ \A i \in 1 .. Len(f[x]) : f[m][i] = f[x][i]
      <4>1. Prefixes(n, f) BY GrownStays
      <4> QED BY <4>1 DEF Prefixes
    <3>1. \A i \in 1 .. Len(f[k]) : f[n][i] = f[k][i] BY <1>0, <2>1, <3>0, Zenon
    <3> QED BY <2>2, <3>1
  <2>5. Len(a) \in Nat /\ Len(b) \in Nat /\ Len(c) \in Nat BY <2>9 DEF Extends
  <2>6. \A j \in 1 .. Len(c) : d[Len(a) + j] = c[j]
    <3> TAKE j \in 1 .. Len(c)
    <3>1. Len(a) + j \in 1 .. Len(b) BY <2>3, <2>5
    <3> QED BY <2>3, <2>4, <3>1
  <2>7. off[k] = Len(b) /\ off[k - 1] = Len(a) BY <2>1, <2>2
  <2>8. c \in Seq(H!Range(c)) BY DEF H!Range
  <2> QED BY <2>2, <2>3, <2>6, <2>7, <2>8
<1>4. f[n] \in Seq(U) BY <1>0
<1> HIDE DEF off
<1>5. Laid(f[n], n, cs, off) BY <1>0, <1>1, <1>2, <1>3 DEF Laid
<1> QED BY <1>4, <1>5

(* A later part begins no earlier.                                           *)
LEMMA LaidRises ==
  ASSUME NEW w, NEW n, NEW cs, NEW off, Laid(w, n, cs, off)
  PROVE  \A b \in 0 .. n : \A a \in 0 .. b : off[a] <= off[b]
<1>0. n \in Nat /\ off \in [0 .. n -> Nat] BY DEF Laid
<1> DEFINE T == {b \in 0 .. n : \A a \in 0 .. b : off[a] <= off[b]}
<1>1. 0 \in T
  <2>1. off[0] \in Nat BY <1>0
  <2> QED BY <1>0, <2>1
<1>2. ASSUME NEW b \in 1 .. n, b - 1 \in T PROVE b \in T
  <2>1. b \in 0 .. n /\ b - 1 \in 0 .. n BY <1>0
  <2>2. off[b] = off[b - 1] + Len(cs[b]) /\ Len(cs[b]) \in Nat BY DEF Laid
  <2>3. PICK x \in Nat, y \in Nat : x = off[b - 1] /\ y = off[b] /\ x <= y BY <1>0, <2>1, <2>2
  <2>4. ASSUME NEW a \in 0 .. b PROVE off[a] <= off[b]
    <3>1. CASE a = b BY <2>3, <3>1
    <3>2. CASE a # b
      <4>1. a \in 0 .. b - 1 /\ a \in 0 .. n BY <1>0, <3>2
      <4>2. PICK z \in Nat : z = off[a] BY <1>0, <4>1
      <4>3. z <= x BY <1>2, <2>3, <4>1, <4>2
      <4> QED BY <2>3, <4>2, <4>3
    <3> QED BY <3>1, <3>2
  <2> QED BY <2>1, <2>4
<1> HIDE DEF T
<1>3. \A b \in 0 .. n : b \in T BY <1>0, <1>1, <1>2, UpTo
<1> QED BY <1>3 DEF T

(* Every place of the sequence is in one of its parts.                       *)
LEMMA LaidSomewhere ==
  ASSUME NEW w, NEW n, NEW cs, NEW off, Laid(w, n, cs, off), NEW i \in 1 .. Len(w)
  PROVE  \E k \in 1 .. n : \E j \in 1 .. Len(cs[k]) : i = off[k - 1] + j /\ w[i] = cs[k][j]
<1>0. n \in Nat /\ off \in [0 .. n -> Nat] /\ off[0] = 0 /\ Len(w) = off[n] BY DEF Laid
<1> DEFINE In(m) == \A x \in 1 .. off[m] : \E k \in 1 .. m : \E j \in 1 .. Len(cs[k]) : x = off[k - 1] + j
           T == {m \in 0 .. n : In(m)}
<1>1. 0 \in T BY <1>0
<1>2. ASSUME NEW m \in 1 .. n, m - 1 \in T PROVE m \in T
  <2>1. m \in 0 .. n /\ m - 1 \in 0 .. n BY <1>0
  <2>2. off[m] = off[m - 1] + Len(cs[m]) /\ Len(cs[m]) \in Nat BY DEF Laid
  <2>3. PICK a \in Nat, c \in Nat : a = off[m - 1] /\ c = Len(cs[m]) /\ off[m] = a + c
    BY <1>0, <2>1, <2>2
  <2>4. ASSUME NEW x \in 1 .. off[m]
        PROVE  \E k \in 1 .. m : \E j \in 1 .. Len(cs[k]) : x = off[k - 1] + j
    <3>1. x \in 1 .. a + c BY <2>3
    <3>2. CASE x \in 1 .. a
      <4>1. PICK k \in 1 .. m - 1 : \E j \in 1 .. Len(cs[k]) : x = off[k - 1] + j
        BY <1>2, <2>3, <3>2
      <4>2. k \in 1 .. m BY <1>0
      <4> QED BY <4>1, <4>2
    <3>3. CASE x \notin 1 .. a
      <4>1. PICK j \in 1 .. c : x = a + j
        <5>1. x - a \in 1 .. c /\ x = a + (x - a) BY <2>3, <3>1, <3>3
        <5> QED BY <5>1
      <4>2. m \in 1 .. m BY <1>0
      <4> QED BY <2>3, <4>1, <4>2
    <3> QED BY <3>2, <3>3
  <2> QED BY <2>1, <2>4
<1> HIDE DEF T
<1>3. n \in T
  <2>1. \A m \in 0 .. n : m \in T BY <1>0, <1>1, <1>2, UpTo
  <2> QED BY <1>0, <2>1
<1>4. PICK k \in 1 .. n : \E j \in 1 .. Len(cs[k]) : i = off[k - 1] + j BY <1>0, <1>3 DEF T
<1> QED BY <1>4 DEF Laid

Fields    == Apis \union {"field", "codex", "responses", "anthropic"}
WireParts == [is : {"text", "user", "images"}] \union [is : {"call", "answer"}, id : Ids]
               \union [is : {"reasoning"}, of : Fields]

(* How a message is written: an answer is the first part of a result, calls  *)
(* are those of an assistant message, behind whatever stood before, and the  *)
(* reasoning is of one of the APIs of home.  Strictly, results have no more. *)
Written(c, m, strict, home) ==
  /\ c \in Seq(WireParts)
  /\ m.role = "result" => Len(c) > 0 /\ c[1] = H!Answer(m.id)
  /\ \A j \in 1 .. Len(c) :
       /\ c[j].is = "answer" => m.role = "result" /\ j = 1
       /\ c[j].is = "call" => /\ m.role = "assistant" /\ c[j].id \in CallIds(m)
                              /\ \A i \in j .. Len(c) : c[i].is \notin {"user", "images"}
       /\ m.role = "result" /\ strict => c[j].is \notin {"user", "images"}
       /\ c[j].is = "reasoning" => c[j].of \in home

(* What comes after the last message: images that waited.                    *)
Trails(c) == c \in Seq([is : {"images"}])

(* A request is laid out of its messages, and of what trails.                *)
OfMessages(w, n, cs, off, strict, home) ==
  /\ w \in Seq(WireParts) /\ Laid(w, n, cs, off) /\ n >= Len(history)
  /\ \A k \in 1 .. Len(history) : Written(cs[k], history[k], strict, home)
  /\ \A k \in Len(history) + 1 .. n : Trails(cs[k])

(* What HistoryIsPortable says of one request.                               *)
AnswersBelow(w, i, strict) ==
  LET found == H!Position(w, H!Answer(w[i].id))
  IN  /\ H!Cardinality(found) = 1 /\ H!Min(found) > i
      /\ strict => \A j \in i .. H!Min(found) : w[j].is \notin {"user", "images"}

(* A result answers a call of the message it was made for.                   *)
LEMMA AnswerIsBelow ==
  ASSUME HistoryInv, H!Unanswered = {},
         NEW k \in 1 .. Len(history), Replied(k), NEW id \in CallIds(history[k])
  PROVE  \E r \in k + 1 .. Len(history) :
           Answers(r, id) /\ \A x \in k + 1 .. r : history[x].role = "result"
<1>1. PICK l \in Nat : l = Len(history) BY DEF HistoryInv
<1>2. \A n \in 1 .. l : Replied(n) => \A i \in CallIds(history[n]) : \E b : i = <<n - 1, b>>
  <2> TAKE n \in 1 .. l
  <2> HAVE Replied(n)
  <2> TAKE i \in CallIds(history[n])
  <2>1. PICK b \in DOMAIN history[n].blocks : history[n].blocks[b].is = "call" /\ i = history[n].blocks[b].id
    BY Zenon DEF CallIds
  <2> QED BY <1>1, <2>1 DEF HistoryInv
<1>3. PICK r \in 1 .. l : Answers(r, id) BY <1>1, WaitingCalls
<1>4. history[r].role = "result" /\ history[r].id = id BY <1>3 DEF Answers
<1>5. PICK n \in 1 .. r - 1 : /\ Replied(n) /\ id \in CallIds(history[n])
                              /\ \A x \in n + 1 .. r : history[x].role = "result"
  BY <1>1, <1>3, <1>4 DEF HistoryInv
<1>6. PICK b : id = <<k - 1, b>> BY <1>1, <1>2
<1>7. PICK d : id = <<n - 1, d>> BY <1>2, <1>3, <1>5
<1>8. k = n BY <1>1, <1>3, <1>5, <1>6, <1>7
<1>9. r \in k + 1 .. l BY <1>3, <1>5, <1>8
<1> QED BY <1>1, <1>3, <1>5, <1>8, <1>9

(* The answers of a call in a request: there is one, and what is between is  *)
(* of the message and of results.                                            *)
LEMMA RequestFollows ==
  ASSUME HistoryInv, H!Unanswered = {}, NEW w, NEW n, NEW cs, NEW off, NEW home,
         NEW strict \in BOOLEAN, OfMessages(w, n, cs, off, strict, home),
         NEW i \in 1 .. Len(w), w[i].is = "call"
  PROVE  AnswersBelow(w, i, strict)
<1>0. PICK l \in Nat : l = Len(history) BY DEF HistoryInv
<1>1. /\ w \in Seq(WireParts) /\ n \in Nat /\ n >= l /\ off \in [0 .. n -> Nat]
      /\ off[0] = 0 /\ Len(w) = off[n]
      /\ \A k \in 1 .. l : Written(cs[k], history[k], strict, home)
      /\ \A k \in l + 1 .. n : Trails(cs[k])
      /\ \A k \in 1 .. n : /\ cs[k] \in Seq(H!Range(cs[k])) /\ off[k] = off[k - 1] + Len(cs[k])
                           /\ \A j \in 1 .. Len(cs[k]) : w[off[k - 1] + j] = cs[k][j]
  BY <1>0 DEF OfMessages, Laid
<1>19. \A k \in 1 .. n : Len(cs[k]) \in Nat
  <2> TAKE k \in 1 .. n
  <2>1. cs[k] \in Seq(H!Range(cs[k])) BY <1>1
  <2> QED BY <2>1
<1>2. \A x \in 1 .. Len(w) : \E k \in 1 .. n : \E j \in 1 .. Len(cs[k]) :
        x = off[k - 1] + j /\ w[x] = cs[k][j]
  <2>1. Laid(w, n, cs, off) BY DEF OfMessages
  <2> TAKE x \in 1 .. Len(w)
  <2> QED BY <2>1, LaidSomewhere
<1>3. \A b \in 0 .. n : \A a \in 0 .. b : off[a] <= off[b]
  BY LaidRises DEF OfMessages
<1>4. \A k \in l + 1 .. n : \A j \in 1 .. Len(cs[k]) : cs[k][j].is = "images"
  <2> TAKE k \in l + 1 .. n
  <2> TAKE j \in 1 .. Len(cs[k])
  <2>1. cs[k] \in Seq([is : {"images"}]) BY <1>1 DEF Trails
  <2>2. cs[k][j] \in [is : {"images"}] BY <2>1, ElementOfSeq
  <2> QED BY <2>2
<1>5. PICK k \in 1 .. l : \E j \in 1 .. Len(cs[k]) : i = off[k - 1] + j /\ w[i] = cs[k][j]
  <2>1. PICK k \in 1 .. n : \E j \in 1 .. Len(cs[k]) : i = off[k - 1] + j /\ w[i] = cs[k][j]
    BY <1>2
  <2>2. ~(k \in l + 1 .. n) BY <1>4, <2>1
  <2>3. k \in 1 .. l BY <1>0, <1>1, <2>2
  <2> QED BY <2>1, <2>3
<1>6. PICK j \in 1 .. Len(cs[k]) : i = off[k - 1] + j /\ w[i] = cs[k][j] BY <1>5
<1>7. PICK id : id = w[i].id /\ id \in CallIds(history[k]) /\ Replied(k)
                /\ \A x \in j .. Len(cs[k]) : cs[k][x].is \notin {"user", "images"}
  <2>1. Written(cs[k], history[k], strict, home) /\ cs[k][j].is = "call" BY <1>1, <1>6
  <2> QED BY <1>6, <2>1 DEF Written, Replied
<1>8. PICK r \in k + 1 .. l : Answers(r, id) /\ \A x \in k + 1 .. r : history[x].role = "result"
  BY <1>0, <1>7, AnswerIsBelow
<1>9. r \in 1 .. l /\ r \in 1 .. n /\ k \in 1 .. n /\ history[r].role = "result" /\ history[r].id = id
  BY <1>0, <1>1, <1>8 DEF Answers
<1>10. Len(cs[r]) \in Nat /\ Len(cs[r]) > 0 /\ cs[r][1] = H!Answer(id)
  <2>1. Written(cs[r], history[r], strict, home) BY <1>1, <1>9
  <2> QED BY <1>9, <2>1 DEF Written
<1>11. PICK q \in Nat : q = off[r - 1] + 1
  <2>1. r - 1 \in 0 .. n BY <1>0, <1>1, <1>9
  <2> QED BY <1>1, <2>1
<1>12. q \in 1 .. Len(w) /\ w[q] = H!Answer(id) /\ q > i
  <2>1. r - 1 \in 0 .. n /\ k \in 0 .. r - 1 /\ k - 1 \in 0 .. n /\ r \in 0 .. n /\ n \in 0 .. n
    BY <1>0, <1>1, <1>8, <1>9
  <2>2. off[k] <= off[r - 1] /\ off[r] <= off[n] BY <1>3, <2>1
  <2>3. PICK a \in Nat, b \in Nat, c \in Nat, d \in Nat :
          a = off[k - 1] /\ b = off[k] /\ c = off[r - 1] /\ d = off[r]
    <3>1. \A x \in 0 .. n : off[x] \in Nat BY <1>1
    <3>2. off[k - 1] \in Nat /\ off[r - 1] \in Nat BY <2>1, <3>1
    <3>3. off[k] \in Nat /\ off[r] \in Nat BY <1>9, <3>1
    <3> QED BY <3>2, <3>3
  <2>4. b = a + Len(cs[k]) /\ d = c + Len(cs[r]) BY <1>1, <1>9, <2>3
  <2>5. Len(cs[k]) \in Nat BY <1>1, <1>9
  <2>6. i <= b BY <1>6, <2>3, <2>4, <2>5
  <2>7. q > i BY <1>11, <2>2, <2>3, <2>6
  <2>8. q <= d BY <1>10, <1>11, <2>3, <2>4
  <2>9. d <= Len(w) BY <1>1, <2>2, <2>3
  <2>10. Len(w) \in Nat BY <1>1
  <2>11. q \in 1 .. Len(w) BY <2>7, <2>8, <2>9, <2>10
  <2>12. w[q] = cs[r][1]
    <3>1. 1 \in 1 .. Len(cs[r]) BY <1>10
    <3> QED BY <1>1, <1>9, <1>11, <3>1
  <2> QED BY <1>10, <2>7, <2>11, <2>12
<1>13. ASSUME NEW x \in 1 .. Len(w), w[x] = H!Answer(id) PROVE x = q
  <2>1. PICK a \in 1 .. n : \E b \in 1 .. Len(cs[a]) : x = off[a - 1] + b /\ w[x] = cs[a][b]
    BY <1>2
  <2>2. PICK b \in 1 .. Len(cs[a]) : x = off[a - 1] + b /\ w[x] = cs[a][b] BY <2>1
  <2>3. cs[a][b].is = "answer" /\ cs[a][b].id = id BY <1>13, <2>2 DEF H!Answer
  <2>4. ~(a \in l + 1 .. n) BY <1>4, <2>3
  <2>5. a \in 1 .. l BY <1>0, <1>1, <2>4
  <2>6. Written(cs[a], history[a], strict, home) BY <1>1, <2>5
  <2>7. history[a].role = "result" /\ b = 1 /\ cs[a][1] = H!Answer(history[a].id)
    BY <2>3, <2>6 DEF Written
  <2>8. history[a].id = id BY <2>3, <2>7 DEF H!Answer
  <2>9. a = r BY <1>0, <1>9, <2>5, <2>7, <2>8 DEF HistoryInv
  <2> QED BY <1>11, <2>2, <2>7, <2>9
<1>14. DOMAIN w = 1 .. Len(w) BY <1>1
<1>15. H!Position(w, H!Answer(w[i].id)) = {q}
  BY <1>7, <1>12, <1>13, <1>14 DEF H!Position
<1>16. H!Cardinality({q}) = 1
  BY FS_Singleton DEF H!Cardinality, Cardinality
<1>17. H!Min({q}) = q
  BY <1>11 DEF H!Min
<1>18. ASSUME strict, NEW y \in i .. q PROVE w[y].is \notin {"user", "images"}
  <2>0. y \in 1 .. Len(w) BY <1>12
  <2>1. PICK a \in 1 .. n : \E b \in 1 .. Len(cs[a]) : y = off[a - 1] + b /\ w[y] = cs[a][b]
    BY <1>2, <2>0
  <2>2. PICK b \in 1 .. Len(cs[a]) : y = off[a - 1] + b /\ w[y] = cs[a][b] BY <2>1
  <2>3. a >= k
    <3> SUFFICES ASSUME a < k PROVE FALSE OBVIOUS
    <3>1. a \in 0 .. k - 1 /\ k - 1 \in 0 .. n /\ a \in 0 .. n /\ a - 1 \in 0 .. n
      BY <1>0, <1>1, <1>9
    <3>2. off[a] <= off[k - 1] BY <1>3, <3>1
    <3>3. off[a] = off[a - 1] + Len(cs[a]) /\ Len(cs[a]) \in Nat BY <1>1
    <3>4. off[a] \in Nat /\ off[a - 1] \in Nat /\ off[k - 1] \in Nat BY <1>1, <3>1
    <3>5. PICK c \in Nat, d \in Nat, e \in Nat, m \in Nat :
            c = off[a - 1] /\ d = off[a] /\ e = off[k - 1] /\ m = Len(cs[a])
      BY <3>3, <3>4
    <3>6. d <= e /\ d = c + m BY <3>2, <3>3, <3>5
    <3>7. b \in Nat /\ b <= m /\ y = c + b BY <2>2, <3>3, <3>5
    <3>8. j \in Nat /\ j >= 1 /\ i = e + j /\ i <= y
      <4>1. j \in Nat /\ j >= 1 /\ i = e + j BY <1>6, <1>9, <1>19, <3>5
      <4>2. y \in i .. q OBVIOUS
      <4> QED BY <4>1, <4>2
    <3> QED BY <3>6, <3>7, <3>8
  <2>4. a <= r
    <3> SUFFICES ASSUME a > r PROVE FALSE OBVIOUS
    <3>1. r \in 0 .. a - 1 /\ a - 1 \in 0 .. n /\ r \in 0 .. n /\ r - 1 \in 0 .. n
      BY <1>0, <1>1, <1>9
    <3>2. off[r] <= off[a - 1] BY <1>3, <3>1
    <3>3. off[r] = off[r - 1] + Len(cs[r]) BY <1>1, <1>9
    <3>4. off[r] \in Nat /\ off[a - 1] \in Nat /\ off[r - 1] \in Nat BY <1>1, <3>1
    <3>5. PICK d \in Nat, c \in Nat, e \in Nat, m \in Nat :
            d = off[r] /\ c = off[r - 1] /\ e = off[a - 1] /\ m = Len(cs[r])
      BY <1>10, <3>4
    <3>6. d <= e /\ d = c + m /\ m > 0 /\ q = c + 1 BY <1>10, <1>11, <3>2, <3>3, <3>5
    <3>7. b \in Nat /\ b >= 1 /\ y = e + b BY <1>19, <2>2, <3>5
    <3> QED BY <3>6, <3>7
  <2>5. CASE a = k
    <3>1. b >= j
      <4>1. k - 1 \in 0 .. n BY <1>1, <1>9
      <4>2. off[k - 1] \in Nat BY <1>1, <4>1
      <4> QED BY <1>6, <2>2, <2>5, <4>2
    <3>2. Len(cs[k]) \in Nat BY <1>9, <1>19
    <3>3. b \in j .. Len(cs[k]) BY <2>2, <2>5, <3>1, <3>2
    <3> QED BY <1>7, <2>2, <2>5, <3>3
  <2>6. CASE a # k
    <3>1. a \in k + 1 .. r /\ a \in 1 .. l BY <1>0, <1>8, <1>9, <2>3, <2>4, <2>6
    <3>2. history[a].role = "result" /\ Written(cs[a], history[a], strict, home) BY <1>1, <1>8, <3>1
    <3>3. cs[a][b].is \notin {"user", "images"} BY <1>18, <2>2, <3>2 DEF Written
    <3> QED BY <2>2, <3>3
  <2> QED BY <2>5, <2>6
<1> QED BY <1>12, <1>15, <1>16, <1>17, <1>18 DEF AnswersBelow

(* The library's join is the same in both modules.                           *)
LEMMA SameFlatten ==
  ASSUME NEW ps
  PROVE  H!FlattenSeq(ps) = P!FlattenSeq(ps)
BY Zenon DEF H!FlattenSeq, P!FlattenSeq

(* A join grows part by part.                                                *)
LEMMA JoinGrows ==
  ASSUME NEW U, NEW n \in Nat, NEW ps \in Seq(Seq(U)), Len(ps) = n
  PROVE  \E f : Growing(U, n, ps, f) /\ H!FlattenSeq(ps) = f[n] /\ f[n] \in Seq(U)
<1>1. PICK f : Joins(U, ps, f) BY FlattenSteps
<1>2. \A k \in 1 .. n : ps[k] \in Seq(U) OBVIOUS
<1>3. f \in [0 .. n -> Seq(U)] /\ n \in 0 .. n BY <1>1 DEF Joins
<1>4. f[n] \in Seq(U) BY <1>3
<1>5. Growing(U, n, ps, f) BY <1>1, <1>2 DEF Joins, Growing
<1>6. H!FlattenSeq(ps) = f[n] BY <1>1, SameFlatten DEF Joins
<1> QED BY <1>4, <1>5, <1>6

(* The parts of an assistant message as every provider writes it.            *)
Content(m, home) ==
  [is : {"text"}] \union [is : {"call"}, id : CallIds(m)] \union [is : {"reasoning"}, of : home]

\* a message of the assistant's, and the providers whose reasoning it may show
Reply(m, home) == m \in Replies /\ home \subseteq Fields

(* Its identifiers.                                                          *)
LEMMA ReplyIds ==
  ASSUME NEW m \in Replies
  PROVE  CallIds(m) \subseteq Ids
<1>1. m.blocks \in Seq(WireBlocks) BY DEF Replies
<1>2. \A b \in DOMAIN m.blocks : m.blocks[b] \in WireBlocks BY <1>1
<1>3. \A b \in DOMAIN m.blocks : m.blocks[b].is = "call" => m.blocks[b].id \in Ids
  BY <1>2 DEF WireBlocks
<1> QED BY <1>3, Zenon DEF CallIds

(* Such parts are written as they should be.                                 *)
LEMMA ContentIsWritten ==
  ASSUME NEW m, NEW home, Reply(m, home), NEW c \in Seq(Content(m, home)), NEW strict
  PROVE  Written(c, m, strict, home) /\ c \in Seq(WireParts)
<1>1. m \in Replies /\ m.role = "assistant" /\ home \subseteq Fields BY DEF Reply, Replies
<1>2. Content(m, home) \subseteq WireParts
  <2>1. [is : {"text"}] \subseteq WireParts BY DEF WireParts
  <2>2. [is : {"call"}, id : CallIds(m)] \subseteq WireParts BY <1>1, ReplyIds DEF WireParts
  <2>3. [is : {"reasoning"}, of : home] \subseteq WireParts BY <1>1 DEF WireParts, Fields
  <2> QED BY <2>1, <2>2, <2>3 DEF Content
<1>3. \A j \in 1 .. Len(c) : c[j] \in Content(m, home) OBVIOUS
<1>4. \A j \in 1 .. Len(c) : /\ c[j].is \in {"text", "call", "reasoning"}
                             /\ c[j].is = "call" => c[j].id \in CallIds(m)
                             /\ c[j].is = "reasoning" => c[j].of \in home
  <2> TAKE j \in 1 .. Len(c)
  <2> QED BY <1>3 DEF Content
<1>5. c \in Seq(WireParts)
  <2>1. \A j \in 1 .. Len(c) : c[j] \in WireParts BY <1>2, <1>3
  <2>2. c \in [1 .. Len(c) -> WireParts] BY <2>1
  <2> QED BY <2>2
<1>6. ASSUME NEW j \in 1 .. Len(c), NEW i \in j .. Len(c) PROVE c[i].is \notin {"user", "images"}
  <2>1. i \in 1 .. Len(c) OBVIOUS
  <2> QED BY <1>4, <2>1
<1> QED BY <1>1, <1>4, <1>5, <1>6 DEF Written

(* The blocks of one kind, in their order.                                   *)
LEMMA IsOfKind ==
  ASSUME NEW S, NEW s \in Seq(S), NEW kind
  PROVE  H!Is(kind, s) \in Seq({b \in S : b.is = kind})
<1> DEFINE n == Len(s)
           V == Seq({b \in S : b.is = kind})
           Unfolds(g) == g = [k \in 0 .. Len(s) |->
             IF k = 0 THEN << >>
             ELSE IF s[k].is = kind THEN Append(g[k - 1], s[k]) ELSE g[k - 1]]
           F == CHOOSE g : Unfolds(g)
           st == [x \in (1 .. n) \X V |-> IF s[x[1]].is = kind THEN Append(x[2], s[x[1]]) ELSE x[2]]
<1>0. n \in Nat OBVIOUS
<1>1. \A k \in 1 .. n : s[k] \in S OBVIOUS
<1>2. << >> \in V OBVIOUS
<1>3. \A k \in 1 .. n : \A v \in V :
        /\ st[<<k, v>>] = IF s[k].is = kind THEN Append(v, s[k]) ELSE v
        /\ st[<<k, v>>] \in V
  <2> TAKE k \in 1 .. n
  <2> TAKE v \in V
  <2>1. st[<<k, v>>] = IF s[k].is = kind THEN Append(v, s[k]) ELSE v OBVIOUS
  <2>2. CASE s[k].is = kind
    <3>1. s[k] \in {b \in S : b.is = kind} BY <1>1, <2>2
    <3>2. Append(v, s[k]) \in V BY <3>1, AppendProperties
    <3> QED BY <2>1, <2>2, <3>2
  <2> QED BY <2>1, <2>2
<1> HIDE DEF st, n, V
<1>4. Stepwise(n, V, << >>, st) BY <1>0, <1>2, <1>3, Recursion, Zenon
<1>5. PICK f \in [0 .. n -> V] : f[0] = << >> /\ \A k \in 1 .. n : f[k] = st[<<k, f[k - 1]>>]
  BY <1>4 DEF Stepwise
<1>6. \A k \in 0 .. n : f[k] = IF k = 0 THEN << >>
                               ELSE IF s[k].is = kind THEN Append(f[k - 1], s[k]) ELSE f[k - 1]
  <2> TAKE k \in 0 .. n
  <2>1. CASE k = 0 BY <1>5, <2>1
  <2>2. CASE k # 0
    <3>1. k \in 1 .. n /\ k - 1 \in 0 .. n BY <1>0, <2>2
    <3>2. f[k] = st[<<k, f[k - 1]>>] /\ f[k - 1] \in V BY <1>5, <3>1
    <3> QED BY <1>3, <2>2, <3>1, <3>2
  <2> QED BY <2>1, <2>2
<1>7. Unfolds(f) BY <1>5, <1>6 DEF n
<1> HIDE DEF Unfolds
<1>8. Unfolds(F) BY <1>7, Zenon
<1> HIDE DEF F
<1>9. F = [k \in 0 .. n |-> IF k = 0 THEN << >>
                            ELSE IF s[k].is = kind THEN Append(F[k - 1], s[k]) ELSE F[k - 1]]
  BY <1>8 DEF Unfolds, n
<1> DEFINE T == {k \in 0 .. n : F[k] \in V}
<1>10. 0 \in T BY <1>0, <1>2, <1>9
<1>11. ASSUME NEW k \in 1 .. n, k - 1 \in T PROVE k \in T
  <2>1. k \in 0 .. n /\ k # 0 /\ F[k - 1] \in V BY <1>0, <1>11
  <2>2. F[k] = IF s[k].is = kind THEN Append(F[k - 1], s[k]) ELSE F[k - 1] BY <1>9, <2>1
  <2>3. PICK v \in V : v = F[k - 1] BY <2>1
  <2>4. F[k] = st[<<k, v>>] BY <1>3, <2>2, <2>3
  <2> QED BY <1>3, <2>1, <2>3, <2>4
<1> HIDE DEF T
<1>12. \A k \in 0 .. n : k \in T BY <1>0, <1>10, <1>11, UpTo
<1>13. n \in 0 .. n BY <1>0
<1>14. F[n] \in V BY <1>12, <1>13 DEF T
<1>15. H!Is(kind, s) = F[n] BY Zenon DEF H!Is, F, Unfolds, n
<1> QED BY <1>14, <1>15 DEF V

(* What a message says in one kind of part.                                  *)
LEMMA TextIsContent ==
  ASSUME NEW m, NEW home, Reply(m, home)
  PROVE  H!Text(m.blocks) \in Seq(Content(m, home))
<1>1. H!Part("text") \in Content(m, home) BY DEF H!Part, Content
<1> QED BY <1>1 DEF H!Text, H!If

(* The calls of a message are written with their own identifiers.            *)
LEMMA CallsAreContent ==
  ASSUME NEW m, NEW home, Reply(m, home)
  PROVE  H!Calls(m.blocks) \in Seq(Content(m, home))
<1>0. m.blocks \in Seq(WireBlocks) BY DEF Reply, Replies
<1> DEFINE S == H!Range(m.blocks)
<1>1. m.blocks \in Seq(S) BY <1>0 DEF H!Range
<1>2. PICK cs \in Seq({b \in S : b.is = "call"}) : cs = H!Is("call", m.blocks)
  BY <1>1, IsOfKind
<1>3. \A i \in 1 .. Len(cs) : H!Call(cs[i]) \in Content(m, home)
  <2> TAKE i \in 1 .. Len(cs)
  <2>1. cs[i] \in S /\ cs[i].is = "call" OBVIOUS
  <2>2. PICK b \in DOMAIN m.blocks : m.blocks[b] = cs[i] BY <2>1 DEF H!Range
  <2>3. cs[i].id \in CallIds(m) BY <2>1, <2>2, Zenon DEF CallIds
  <2> QED BY <2>3 DEF H!Call, Content
<1>4. H!Calls(m.blocks) = [i \in 1 .. Len(cs) |-> H!Call(cs[i])]
  <2>1. DOMAIN cs = 1 .. Len(cs) OBVIOUS
  <2> QED BY <1>2, <2>1 DEF H!Calls
<1>5. [i \in 1 .. Len(cs) |-> H!Call(cs[i])] \in [1 .. Len(cs) -> Content(m, home)] BY <1>3
<1> QED BY <1>4, <1>5

(* A request that is laid out of the messages of the history.                *)
Portable(w, strict, home) == \E n, cs, off : OfMessages(w, n, cs, off, strict, home)

(* The messages are of three kinds.                                          *)
LEMMA ThreeKinds ==
  ASSUME HistoryInv, NEW k \in 1 .. Len(history)
  PROVE  \/ history[k] \in Users /\ history[k].role = "user"
         \/ history[k] \in Replies /\ history[k].role = "assistant"
         \/ history[k] \in Results /\ history[k].role = "result"
<1>1. history[k] \in AllMessages BY DEF HistoryInv
<1> QED BY <1>1 DEF AllMessages, Users, Replies, Results

(* What a join of the messages makes.                                        *)
LEMMA JoinIsPortable ==
  ASSUME HistoryInv, NEW strict, NEW home, NEW ps,
         DOMAIN ps = 1 .. Len(history), ps = [k \in 1 .. Len(history) |-> ps[k]],
         \A k \in 1 .. Len(history) : Written(ps[k], history[k], strict, home)
  PROVE  Portable(H!FlattenSeq(ps), strict, home)
<1>1. PICK l \in Nat : l = Len(history) BY DEF HistoryInv
<1>2. \A k \in 1 .. l : ps[k] \in Seq(WireParts) BY <1>1 DEF Written
<1>3. ps \in [1 .. l -> Seq(WireParts)] BY <1>1, <1>2
<1>4. ps \in Seq(Seq(WireParts)) /\ Len(ps) = l BY <1>3
<1>5. PICK f : Growing(WireParts, l, ps, f) /\ H!FlattenSeq(ps) = f[l] /\ f[l] \in Seq(WireParts)
  BY <1>4, JoinGrows
<1>6. PICK off : Laid(f[l], l, ps, off) BY <1>5, GrownIsLaid
<1>7. OfMessages(f[l], l, ps, off, strict, home)
  <2>1. l + 1 .. l = {} BY <1>1
  <2> QED BY <1>1, <1>5, <1>6, <2>1 DEF OfMessages
<1> QED BY <1>5, <1>7 DEF Portable

(* A user's message and a result are one part each.                          *)
LEMMA UserIsWritten ==
  ASSUME NEW m \in Users, NEW strict, NEW home
  PROVE  Written(<< H!Part("user") >>, m, strict, home)
<1>1. H!Part("user") \in WireParts /\ H!Part("user").is = "user" BY DEF H!Part, WireParts
<1>2. m.role = "user" BY DEF Users
<1> DEFINE c == << H!Part("user") >>
<1>3. c \in Seq(WireParts) /\ Len(c) = 1 /\ \A j \in 1 .. Len(c) : c[j].is = "user" BY <1>1
<1> HIDE DEF c
<1> QED BY <1>2, <1>3 DEF Written, c

(* A result is written as the answer to its call.                            *)
LEMMA ResultIsWritten ==
  ASSUME NEW m \in Results, NEW strict, NEW home
  PROVE  Written(<< H!Answer(m.id) >>, m, strict, home)
<1>1. H!Answer(m.id) \in WireParts /\ H!Answer(m.id).is = "answer" BY DEF H!Answer, WireParts, Results
<1>2. m.role = "result" BY DEF Results
<1> DEFINE c == << H!Answer(m.id) >>
<1>3. c \in Seq(WireParts) /\ Len(c) = 1 /\ c[1] = H!Answer(m.id) /\ \A j \in 1 .. Len(c) : j = 1 BY <1>1
<1> HIDE DEF c
<1> QED BY <1>1, <1>2, <1>3 DEF Written, c

(* At Google its images may follow it.                                       *)
LEMMA PicturedIsWritten ==
  ASSUME NEW m \in Results, NEW home
  PROVE  Written(<< H!Answer(m.id) >> \o << H!Pictures >>, m, FALSE, home)
<1>1. H!Answer(m.id) \in WireParts /\ H!Answer(m.id).is = "answer" BY DEF H!Answer, WireParts, Results
<1>2. H!Pictures \in WireParts /\ H!Pictures.is = "images" BY DEF H!Pictures, WireParts
<1>3. m.role = "result" BY DEF Results
<1> DEFINE c == << H!Answer(m.id) >> \o << H!Pictures >>
<1>4. c \in Seq(WireParts) /\ Len(c) = 2 /\ c[1] = H!Answer(m.id) /\ c[2] = H!Pictures BY <1>1, <1>2
<1>5. \A j \in 1 .. Len(c) : j = 1 \/ j = 2 BY <1>4
<1> HIDE DEF c
<1> QED BY <1>1, <1>2, <1>3, <1>4, <1>5 DEF Written, c

-----------------------------------------------------------------------------
(* Responses and Codex.                                                      *)
Shares == {"codex", "responses"}

(* A reasoning item is of an API that shares them.                           *)
LEMMA ItemsAreContent ==
  ASSUME NEW m \in Replies
  PROVE  H!Items(m) \in Seq(Content(m, Shares))
<1> DEFINE w == H!If(m.api \in {"responses", "codex"}, H!Is("thinking", m.blocks))
<1>1. m.blocks \in Seq(WireBlocks) BY DEF Replies
<1>2. H!Is("thinking", m.blocks) \in Seq({b \in WireBlocks : b.is = "thinking"}) BY <1>1, IsOfKind
<1>3. w \in Seq(WireBlocks) /\ (m.api \notin Shares => w = << >>)
  <2>1. H!Is("thinking", m.blocks) \in Seq(WireBlocks) BY <1>2
  <2> QED BY <2>1 DEF H!If, Shares
<1>4. H!Items(m) = [i \in DOMAIN w |-> H!Reasoning(m.api)] BY DEF H!Items
<1> HIDE DEF w
<1>5. PICK n \in Nat : n = Len(w) /\ DOMAIN w = 1 .. n BY <1>3
<1>6. CASE m.api \in Shares
  <2>1. H!Reasoning(m.api) \in Content(m, Shares) BY <1>6 DEF H!Reasoning, Content
  <2>2. H!Items(m) \in [1 .. n -> Content(m, Shares)] BY <1>4, <1>5, <2>1
  <2> QED BY <2>2
<1>7. CASE m.api \notin Shares
  <2>1. n = 0 /\ 1 .. n = {} BY <1>3, <1>5, <1>7
  <2>2. H!Items(m) \in [1 .. n -> Content(m, Shares)] BY <1>4, <1>5, <2>1
  <2> QED BY <2>2
<1> QED BY <1>6, <1>7

(* Responses: each message is written in its place.                          *)
LEMMA ResponsesIsPortable ==
  ASSUME HistoryInv, NEW strict
  PROVE  Portable(H!_messages_to_responses_input, strict, Shares)
<1>1. ASSUME NEW k \in 1 .. Len(history)
      PROVE  Written(H!ResponsesParts(history[k]), history[k], strict, Shares)
  <2>1. CASE history[k] \in Users /\ history[k].role = "user"
    BY <2>1, UserIsWritten DEF H!ResponsesParts
  <2>2. CASE history[k] \in Results /\ history[k].role = "result"
    BY <2>2, ResultIsWritten DEF H!ResponsesParts
  <2>3. CASE history[k] \in Replies /\ history[k].role = "assistant"
    <3>1. Reply(history[k], Shares) BY <2>3 DEF Reply, Shares, Fields
    <3>2. PICK a \in Seq(Content(history[k], Shares)), b \in Seq(Content(history[k], Shares)),
               c \in Seq(Content(history[k], Shares)) :
            /\ a = H!Items(history[k]) /\ b = H!Text(history[k].blocks)
            /\ c = H!Calls(history[k].blocks)
      BY <2>3, <3>1, ItemsAreContent, TextIsContent, CallsAreContent
    <3>3. H!ResponsesParts(history[k]) = a \o b \o c BY <2>3, <3>2 DEF H!ResponsesParts
    <3>4. a \o b \o c \in Seq(Content(history[k], Shares)) OBVIOUS
    <3> QED BY <3>1, <3>3, <3>4, ContentIsWritten
  <2> QED BY <2>1, <2>2, <2>3, ThreeKinds
<1> DEFINE ps == [i \in DOMAIN history |-> H!ResponsesParts(history[i])]
<1>2. DOMAIN history = 1 .. Len(history) BY DEF HistoryInv
<1>3. /\ DOMAIN ps = 1 .. Len(history) /\ ps = [k \in 1 .. Len(history) |-> ps[k]]
      /\ \A k \in 1 .. Len(history) : ps[k] = H!ResponsesParts(history[k])
  BY <1>2
<1>4. H!_messages_to_responses_input = H!FlattenSeq(ps) BY DEF H!_messages_to_responses_input
<1> HIDE DEF ps
<1>5. \A k \in 1 .. Len(history) : Written(ps[k], history[k], strict, Shares) BY <1>1, <1>3
<1> QED BY <1>3, <1>4, <1>5, JoinIsPortable

(* A message is written from what each of its blocks becomes.                *)
LEMMA BlocksAreContent ==
  ASSUME NEW m \in Replies, NEW home, NEW ps, DOMAIN ps = DOMAIN m.blocks,
         ps = [b \in DOMAIN m.blocks |-> ps[b]],
         \A b \in DOMAIN m.blocks : ps[b] \in Seq(Content(m, home))
  PROVE  H!FlattenSeq(ps) \in Seq(Content(m, home))
<1>1. PICK n \in Nat : DOMAIN m.blocks = 1 .. n
  <2>1. m.blocks \in Seq(WireBlocks) BY DEF Replies
  <2> QED BY <2>1
<1>2. ps \in [1 .. n -> Seq(Content(m, home))] BY <1>1
<1>3. ps \in Seq(Seq(Content(m, home))) /\ Len(ps) = n BY <1>2
<1> QED BY <1>3, JoinGrows

(* The blocks are text, thinking or calls.                                   *)
LEMMA BlockKinds ==
  ASSUME NEW m \in Replies, NEW b \in DOMAIN m.blocks
  PROVE  /\ m.blocks[b].is \in {"text", "thinking", "call"}
         /\ m.blocks[b].is = "call" => m.blocks[b].id \in CallIds(m)
<1>1. m.blocks \in Seq(WireBlocks) BY DEF Replies
<1>2. m.blocks[b] \in WireBlocks BY <1>1
<1>3. m.blocks[b].is = "call" => m.blocks[b].id \in CallIds(m) BY Zenon DEF CallIds
<1> QED BY <1>2, <1>3 DEF WireBlocks

(* Single parts, as content.                                                 *)
LEMMA OnePart ==
  ASSUME NEW m, NEW home
  PROVE  /\ << H!Part("text") >> \in Seq(Content(m, home)) /\ << >> \in Seq(Content(m, home))
         /\ \A b : b.id \in CallIds(m) => << H!Call(b) >> \in Seq(Content(m, home))
         /\ \A a \in home : << H!Reasoning(a) >> \in Seq(Content(m, home))
<1>1. H!Part("text") \in Content(m, home) BY DEF H!Part, Content
<1>2. \A b : b.id \in CallIds(m) => H!Call(b) \in Content(m, home) BY DEF H!Call, Content
<1>3. \A a \in home : H!Reasoning(a) \in Content(m, home) BY DEF H!Reasoning, Content
<1> HIDE DEF Content
<1> QED BY <1>1, <1>2, <1>3

(* What Codex makes of the blocks is content of the message.                 *)
LEMMA CodexBlocksAreContent ==
  ASSUME NEW m \in Replies
  PROVE  H!CodexBlocks(m) \in Seq(Content(m, Shares))
<1> DEFINE ps == [i \in DOMAIN m.blocks |-> H!CodexBlock(m, m.blocks[i])]
<1>1. H!CodexBlocks(m) = H!FlattenSeq(ps) BY DEF H!CodexBlocks
<1>2. \A b \in DOMAIN m.blocks : H!CodexBlock(m, m.blocks[b]) \in Seq(Content(m, Shares))
  <2> TAKE b \in DOMAIN m.blocks
  <2>1. m.blocks[b].is \in {"text", "thinking", "call"} BY BlockKinds
  <2>2. m.api \in {"responses", "codex"} => m.api \in Shares BY DEF Shares
  <2> QED BY <2>1, <2>2, OnePart DEF H!CodexBlock, H!If
<1>3. /\ DOMAIN ps = DOMAIN m.blocks /\ ps = [b \in DOMAIN m.blocks |-> ps[b]]
      /\ \A b \in DOMAIN m.blocks : ps[b] = H!CodexBlock(m, m.blocks[b])
  OBVIOUS
<1> HIDE DEF ps
<1>4. \A b \in DOMAIN m.blocks : ps[b] \in Seq(Content(m, Shares)) BY <1>2, <1>3
<1> QED BY <1>1, <1>3, <1>4, BlocksAreContent

(* Codex: each message is written in its place.                              *)
LEMMA CodexIsPortable ==
  ASSUME HistoryInv, NEW strict
  PROVE  Portable(H!codex_responses_input, strict, Shares)
<1>1. ASSUME NEW k \in 1 .. Len(history)
      PROVE  Written(H!CodexParts(history[k]), history[k], strict, Shares)
  <2>1. CASE history[k] \in Users /\ history[k].role = "user"
    BY <2>1, UserIsWritten DEF H!CodexParts
  <2>2. CASE history[k] \in Results /\ history[k].role = "result"
    BY <2>2, ResultIsWritten DEF H!CodexParts
  <2>3. CASE history[k] \in Replies /\ history[k].role = "assistant"
    <3>1. Reply(history[k], Shares) BY <2>3 DEF Reply, Shares, Fields
    <3>2. PICK a \in Seq(Content(history[k], Shares)), c \in Seq(Content(history[k], Shares)) :
            a = H!CodexBlocks(history[k]) /\ c = H!Calls(history[k].blocks)
      BY <2>3, <3>1, CodexBlocksAreContent, CallsAreContent
    <3>3. H!CodexParts(history[k]) = a \o c BY <2>3, <3>2 DEF H!CodexParts
    <3>4. a \o c \in Seq(Content(history[k], Shares)) OBVIOUS
    <3> QED BY <3>1, <3>3, <3>4, ContentIsWritten
  <2> QED BY <2>1, <2>2, <2>3, ThreeKinds
<1> DEFINE ps == [i \in DOMAIN history |-> H!CodexParts(history[i])]
<1>2. DOMAIN history = 1 .. Len(history) BY DEF HistoryInv
<1>3. /\ DOMAIN ps = 1 .. Len(history) /\ ps = [k \in 1 .. Len(history) |-> ps[k]]
      /\ \A k \in 1 .. Len(history) : ps[k] = H!CodexParts(history[k])
  BY <1>2
<1>4. H!codex_responses_input = H!FlattenSeq(ps) BY DEF H!codex_responses_input
<1> HIDE DEF ps
<1>5. \A k \in 1 .. Len(history) : Written(ps[k], history[k], strict, Shares) BY <1>1, <1>3
<1> QED BY <1>3, <1>4, <1>5, JoinIsPortable

-----------------------------------------------------------------------------
(* Anthropic and Google: blocks in their order.                              *)
LEMMA InOrderIsContent ==
  ASSUME NEW m \in Replies, NEW home, NEW keep \in BOOLEAN, keep => m.api \in home
  PROVE  H!InOrder(m, keep) \in Seq(Content(m, home))
<1> DEFINE ps == [i \in DOMAIN m.blocks |-> H!BlockParts(m, m.blocks[i], keep)]
<1>1. H!InOrder(m, keep) = H!FlattenSeq(ps) BY DEF H!InOrder
<1>2. \A b \in DOMAIN m.blocks : H!BlockParts(m, m.blocks[b], keep) \in Seq(Content(m, home))
  <2> TAKE b \in DOMAIN m.blocks
  <2>1. /\ m.blocks[b].is \in {"text", "thinking", "call"}
        /\ m.blocks[b].is = "call" => m.blocks[b].id \in CallIds(m)
    BY BlockKinds
  <2>2. CASE m.blocks[b].is = "text" BY <2>2, OnePart DEF H!BlockParts
  <2>3. CASE m.blocks[b].is = "thinking" BY <2>3, OnePart DEF H!BlockParts, H!If
  <2>4. CASE m.blocks[b].is = "call" BY <2>1, <2>4, OnePart DEF H!BlockParts
  <2> QED BY <2>1, <2>2, <2>3, <2>4
<1>3. /\ DOMAIN ps = DOMAIN m.blocks /\ ps = [b \in DOMAIN m.blocks |-> ps[b]]
      /\ \A b \in DOMAIN m.blocks : ps[b] = H!BlockParts(m, m.blocks[b], keep)
  OBVIOUS
<1> HIDE DEF ps
<1>4. \A b \in DOMAIN m.blocks : ps[b] \in Seq(Content(m, home)) BY <1>2, <1>3
<1> QED BY <1>1, <1>3, <1>4, BlocksAreContent

(* Google: each message is written in its place, with the images it brings.  *)
LEMMA GoogleIsPortable ==
  ASSUME H!HistoryAssumption, HistoryInv, NEW w,
         w = H!FlattenSeq([i \in DOMAIN history |-> H!_messages_to_google(history[i])])
  PROVE  Portable(w, ~OldGemini, Fields)
<1>0. OldGemini \in BOOLEAN BY DEF H!HistoryAssumption
<1>1. ASSUME NEW k \in 1 .. Len(history)
      PROVE  Written(H!_messages_to_google(history[k]), history[k], ~OldGemini, Fields)
  <2>1. CASE history[k] \in Users /\ history[k].role = "user"
    BY <2>1, UserIsWritten DEF H!_messages_to_google
  <2>2. CASE history[k] \in Results /\ history[k].role = "result"
    <3>1. CASE history[k].image /\ OldGemini
      <4>1. H!_messages_to_google(history[k]) = << H!Answer(history[k].id) >> \o << H!Pictures >>
        BY <2>2, <3>1 DEF H!_messages_to_google, H!If
      <4> QED BY <1>0, <2>2, <3>1, <4>1, PicturedIsWritten
    <3>2. CASE ~(history[k].image /\ OldGemini)
      <4>1. H!_messages_to_google(history[k]) = << H!Answer(history[k].id) >> \o << >>
        BY <2>2, <3>2 DEF H!_messages_to_google, H!If
      <4>2. << H!Answer(history[k].id) >> \o << >> = << H!Answer(history[k].id) >> OBVIOUS
      <4> QED BY <2>2, <4>1, <4>2, ResultIsWritten
    <3> QED BY <3>1, <3>2
  <2>3. CASE history[k] \in Replies /\ history[k].role = "assistant"
    <3>1. Reply(history[k], Fields) BY <2>3 DEF Reply
    <3>2. history[k].api \in Fields BY <2>3 DEF Replies, Fields
    <3>3. H!InOrder(history[k], TRUE) \in Seq(Content(history[k], Fields))
      BY <2>3, <3>2, InOrderIsContent
    <3>4. << H!Part("text") >> \in Seq(Content(history[k], Fields)) BY OnePart
    <3>5. H!_messages_to_google(history[k]) \in Seq(Content(history[k], Fields))
      BY <2>3, <3>3, <3>4 DEF H!_messages_to_google
    <3> QED BY <3>1, <3>5, ContentIsWritten
  <2> QED BY <2>1, <2>2, <2>3, ThreeKinds
<1> DEFINE ps == [i \in DOMAIN history |-> H!_messages_to_google(history[i])]
<1>2. DOMAIN history = 1 .. Len(history) BY DEF HistoryInv
<1>3. /\ DOMAIN ps = 1 .. Len(history) /\ ps = [k \in 1 .. Len(history) |-> ps[k]]
      /\ \A k \in 1 .. Len(history) : ps[k] = H!_messages_to_google(history[k])
  BY <1>2
<1>4. w = H!FlattenSeq(ps) OBVIOUS
<1> HIDE DEF ps
<1>5. \A k \in 1 .. Len(history) : Written(ps[k], history[k], ~OldGemini, Fields) BY <1>1, <1>3
<1> QED BY <1>3, <1>4, <1>5, JoinIsPortable

(* What Anthropic is sent of a message.                                      *)
LEMMA AnthropicIsWritten ==
  ASSUME HistoryInv, NEW strict, NEW k \in 1 .. Len(history)
  PROVE  Written(H!_anthropic_message(history[k]), history[k], strict, {"anthropic", "field"})
<1> DEFINE home == {"anthropic", "field"}
<1>1. CASE history[k] \in Users /\ history[k].role = "user"
  BY <1>1, UserIsWritten DEF H!_anthropic_message
<1>2. CASE history[k] \in Results /\ history[k].role = "result"
  BY <1>2, ResultIsWritten DEF H!_anthropic_message
<1>3. CASE history[k] \in Replies /\ history[k].role = "assistant"
  <2>1. Reply(history[k], home) BY <1>3 DEF Reply, Fields
  <2>2. PICK keep \in BOOLEAN : keep = (history[k].api = "anthropic") OBVIOUS
  <2>3. keep => history[k].api \in home BY <2>2
  <2> HIDE DEF home
  <2>4. H!InOrder(history[k], keep) \in Seq(Content(history[k], home))
    BY <1>3, <2>3, InOrderIsContent
  <2>5. H!_anthropic_message(history[k]) = H!InOrder(history[k], keep)
    BY <1>3, <2>2 DEF H!_anthropic_message
  <2>6. Written(H!_anthropic_message(history[k]), history[k], strict, home)
    BY <2>1, <2>4, <2>5, ContentIsWritten
  <2> QED BY <2>6 DEF home
<1> QED BY <1>1, <1>2, <1>3, ThreeKinds

(* What is sent to Anthropic, message by message; an empty one is left out.  *)
Payloads == [role : {"user", "assistant", "result"}, parts : Seq(WireParts)]
AsSent(m) == [role |-> m.role, parts |-> H!_anthropic_message(m)]
Sending(G) ==
  /\ G \in [0 .. Len(history) -> Seq(Payloads)] /\ G[0] = << >> /\ H!Payload = G[Len(history)]
  /\ \A k \in 1 .. Len(history) :
       G[k] = IF H!_anthropic_message(history[k]) = << >> THEN G[k - 1]
              ELSE Append(G[k - 1], AsSent(history[k]))

(* Payload takes one message after another.                                  *)
LEMMA SendingSteps ==
  ASSUME HistoryInv
  PROVE  \E G : Sending(G)
<1> DEFINE n == Len(history)
           V == Seq(Payloads)
           Unfolds(g) == g = [k \in 0 .. Len(history) |->
             IF k = 0 THEN << >>
             ELSE IF H!_anthropic_message(history[k]) = << >> THEN g[k - 1]
             ELSE Append(g[k - 1],
                         [role |-> history[k].role, parts |-> H!_anthropic_message(history[k])])]
           F == CHOOSE g : Unfolds(g)
           st == [x \in (1 .. n) \X V |->
                    IF H!_anthropic_message(history[x[1]]) = << >> THEN x[2]
                    ELSE Append(x[2], AsSent(history[x[1]]))]
<1>0. n \in Nat BY DEF HistoryInv
<1>1. \A k \in 1 .. n : AsSent(history[k]) \in Payloads
  <2> TAKE k \in 1 .. n
  <2>1. history[k].role \in {"user", "assistant", "result"} BY ThreeKinds
  <2>2. Written(H!_anthropic_message(history[k]), history[k], TRUE, {"anthropic", "field"})
    BY AnthropicIsWritten
  <2>3. H!_anthropic_message(history[k]) \in Seq(WireParts) BY <2>2 DEF Written
  <2> QED BY <2>1, <2>3 DEF AsSent, Payloads
<1>2. << >> \in V OBVIOUS
<1>3. \A k \in 1 .. n : \A v \in V :
        /\ st[<<k, v>>] = IF H!_anthropic_message(history[k]) = << >> THEN v
                          ELSE Append(v, AsSent(history[k]))
        /\ st[<<k, v>>] \in V
  <2> TAKE k \in 1 .. n
  <2> TAKE v \in V
  <2>1. st[<<k, v>>] = IF H!_anthropic_message(history[k]) = << >> THEN v
                       ELSE Append(v, AsSent(history[k]))
    OBVIOUS
  <2>2. Append(v, AsSent(history[k])) \in V BY <1>1, AppendProperties
  <2> QED BY <2>1, <2>2
<1> HIDE DEF st, n, V
<1>4. Stepwise(n, V, << >>, st) BY <1>0, <1>2, <1>3, Recursion, Zenon
<1>5. PICK f \in [0 .. n -> V] : f[0] = << >> /\ \A k \in 1 .. n : f[k] = st[<<k, f[k - 1]>>]
  BY <1>4 DEF Stepwise
<1>6. \A k \in 0 .. n : f[k] = IF k = 0 THEN << >>
                               ELSE IF H!_anthropic_message(history[k]) = << >> THEN f[k - 1]
                               ELSE Append(f[k - 1], AsSent(history[k]))
  <2> TAKE k \in 0 .. n
  <2>1. CASE k = 0 BY <1>5, <2>1
  <2>2. CASE k # 0
    <3>1. k \in 1 .. n /\ k - 1 \in 0 .. n BY <1>0, <2>2
    <3>2. f[k] = st[<<k, f[k - 1]>>] /\ f[k - 1] \in V BY <1>5, <3>1
    <3> QED BY <1>3, <2>2, <3>1, <3>2
  <2> QED BY <2>1, <2>2
<1>7. Unfolds(f) BY <1>5, <1>6 DEF n, AsSent
<1> HIDE DEF Unfolds
<1>8. Unfolds(F) BY <1>7, Zenon
<1> HIDE DEF F
<1>9. F = [k \in 0 .. n |-> IF k = 0 THEN << >>
                            ELSE IF H!_anthropic_message(history[k]) = << >> THEN F[k - 1]
                            ELSE Append(F[k - 1], AsSent(history[k]))]
  BY <1>8 DEF Unfolds, n, AsSent
<1>10. F[0] = << >> BY <1>0, <1>9
<1>11. \A k \in 1 .. n : F[k] = IF H!_anthropic_message(history[k]) = << >> THEN F[k - 1]
                                ELSE Append(F[k - 1], AsSent(history[k]))
  <2> TAKE k \in 1 .. n
  <2>1. k \in 0 .. n /\ k # 0 BY <1>0
  <2> QED BY <1>9, <2>1
<1> DEFINE T == {k \in 0 .. n : F[k] \in V}
<1>12. 0 \in T BY <1>0, <1>2, <1>10
<1>13. ASSUME NEW k \in 1 .. n, k - 1 \in T PROVE k \in T
  <2>1. k \in 0 .. n BY <1>0
  <2>2. PICK v \in V : v = F[k - 1] BY <1>13
  <2>3. F[k] = st[<<k, v>>] BY <1>3, <1>11, <2>2
  <2> QED BY <1>3, <2>1, <2>2, <2>3
<1> HIDE DEF T
<1>14. \A k \in 0 .. n : k \in T BY <1>0, <1>12, <1>13, UpTo
<1>15. F \in [0 .. n -> V] BY <1>9, <1>14 DEF T
<1>16. H!Payload = F[n] BY Zenon DEF H!Payload, F, Unfolds, n
<1>17. Sending(F) BY <1>10, <1>11, <1>15, <1>16 DEF Sending, n, V
<1> QED BY <1>17

(* As a sequence of parts it is what all messages make: those left out had   *)
(* none.                                                                     *)
PartsOf(s) == [i \in DOMAIN s |-> s[i].parts]
Longer(s, e, t) ==
  /\ Len(s) \in Nat /\ Len(t) = Len(s) + 1 /\ t[Len(s) + 1] = e
  /\ \A i \in 1 .. Len(s) : t[i] = s[i]
(* What is appended comes last, the rest stays in its place.                 *)
LEMMA AppendIsLonger ==
  ASSUME NEW V, NEW s \in Seq(V), NEW e \in V
  PROVE  Append(s, e) \in Seq(V) /\ Longer(s, e, Append(s, e))
BY AppendProperties DEF Longer

(* The parts of one more message.                                            *)
LEMMA PartsAppended ==
  ASSUME NEW s \in Seq(Payloads), NEW e \in Payloads
  PROVE  PartsOf(s) \in Seq(Seq(WireParts)) /\ PartsOf(Append(s, e)) = Append(PartsOf(s), e.parts)
<1>1. PICK n \in Nat : n = Len(s) /\ DOMAIN s = 1 .. n OBVIOUS
<1>2. \A i \in 1 .. n : s[i].parts \in Seq(WireParts)
  <2> TAKE i \in 1 .. n
  <2>1. s[i] \in Payloads BY <1>1
  <2> QED BY <2>1 DEF Payloads
<1>3. PICK t \in Seq(Payloads) : t = Append(s, e) /\ Len(t) = n + 1
                                 /\ (\A i \in 1 .. n : t[i] = s[i]) /\ t[n + 1] = e
  BY <1>1, AppendProperties
<1>4. PartsOf(s) \in [1 .. n -> Seq(WireParts)] BY <1>1, <1>2 DEF PartsOf
<1>9. \A i \in 1 .. n : PartsOf(s)[i] = s[i].parts BY <1>1 DEF PartsOf
<1>5. PICK p \in Seq(Seq(WireParts)) : p = PartsOf(s) /\ Len(p) = n /\ \A i \in 1 .. n : p[i] = s[i].parts
  <2>1. PartsOf(s) \in Seq(Seq(WireParts)) /\ Len(PartsOf(s)) = n BY <1>4
  <2> QED BY <1>9, <2>1
<1>6. e.parts \in Seq(WireParts) BY DEF Payloads
<1>7. PICK q \in Seq(Seq(WireParts)) : /\ q = Append(p, e.parts) /\ Len(q) = n + 1
                                       /\ (\A i \in 1 .. n : q[i] = p[i]) /\ q[n + 1] = e.parts
  <2>1. Append(p, e.parts) \in Seq(Seq(WireParts)) /\ Longer(p, e.parts, Append(p, e.parts))
    BY <1>6, AppendIsLonger
  <2> QED BY <1>5, <2>1 DEF Longer
<1>8. PartsOf(t) = q
  <2>1. DOMAIN t = 1 .. n + 1 /\ DOMAIN q = 1 .. n + 1 BY <1>3, <1>7
  <2>2. PartsOf(t) = [i \in 1 .. n + 1 |-> t[i].parts] BY <2>1 DEF PartsOf
  <2>3. q = [i \in 1 .. n + 1 |-> q[i]] BY <1>7
  <2>4. \A i \in 1 .. n + 1 : t[i].parts = q[i]
    <3> TAKE i \in 1 .. n + 1
    <3>1. i \in 1 .. n \/ i = n + 1 BY <1>1
    <3> QED BY <1>3, <1>5, <1>7, <3>1
  <2> QED BY <2>2, <2>3, <2>4
<1> QED BY <1>3, <1>5, <1>7, <1>8

(* Anthropic: what is left out had no parts, the rest is in its place.       *)
LEMMA AnthropicIsPortable ==
  ASSUME HistoryInv, NEW strict, NEW w,
         w = H!FlattenSeq([i \in DOMAIN H!Payload |-> H!Payload[i].parts])
  PROVE  Portable(w, strict, {"anthropic", "field"})
<1>1. PICK l \in Nat : l = Len(history) BY DEF HistoryInv
<1>2. PICK G : Sending(G) BY SendingSteps
<1>3. /\ G \in [0 .. l -> Seq(Payloads)] /\ G[0] = << >> /\ H!Payload = G[l]
      /\ \A k \in 1 .. l :
           G[k] = IF H!_anthropic_message(history[k]) = << >> THEN G[k - 1]
                  ELSE Append(G[k - 1], AsSent(history[k]))
  BY <1>1, <1>2 DEF Sending
<1>4. \A k \in 1 .. l : Written(H!_anthropic_message(history[k]), history[k], strict, {"anthropic", "field"})
  BY <1>1, AnthropicIsWritten
<1> DEFINE cs == [k \in 1 .. l |-> H!_anthropic_message(history[k])]
<1>5. \A k \in 1 .. l : cs[k] = H!_anthropic_message(history[k]) OBVIOUS
<1>6. \A k \in 1 .. l : cs[k] \in Seq(WireParts) BY <1>4, <1>5 DEF Written
<1>7. cs \in Seq(Seq(WireParts)) /\ Len(cs) = l
  <2>1. cs \in [1 .. l -> Seq(WireParts)] BY <1>6
  <2> QED BY <2>1
<1> HIDE DEF cs
<1>8. PICK f : Growing(WireParts, l, cs, f) /\ f[l] \in Seq(WireParts)
  BY <1>7, JoinGrows
<1>9. /\ f \in [0 .. l -> Seq(WireParts)] /\ f[0] = << >>
      /\ \A k \in 1 .. l : f[k] = f[k - 1] \o cs[k]
  BY <1>8 DEF Growing
<1> DEFINE T == {k \in 0 .. l : P!FlattenSeq(PartsOf(G[k])) = f[k]}
<1>10. 0 \in T
  <2>1. PartsOf(<< >>) = << >> BY DEF PartsOf
  <2>2. P!FlattenSeq(<< >>) = << >>
    <3>1. << >> \in Seq(Seq(WireParts)) /\ Len(<< >>) = 0 /\ 1 .. 0 = {} OBVIOUS
    <3> QED BY <3>1, FlattenNothing
  <2> QED BY <1>3, <1>9, <2>1, <2>2
<1>11. ASSUME NEW k \in 1 .. l, k - 1 \in T PROVE k \in T
  <2>1. k \in 0 .. l /\ k - 1 \in 0 .. l BY <1>1
  <2>2. PICK s \in Seq(Payloads), a \in Seq(WireParts), c \in Seq(WireParts) :
          s = G[k - 1] /\ a = f[k - 1] /\ c = cs[k] /\ f[k] = a \o c
    BY <1>3, <1>6, <1>9, <2>1
  <2>3. P!FlattenSeq(PartsOf(s)) = a BY <1>11, <2>2
  <2>4. CASE c = << >>
    <3>1. G[k] = s BY <1>3, <1>5, <2>2, <2>4
    <3>2. f[k] = a BY <2>2, <2>4
    <3> QED BY <2>1, <2>3, <3>1, <3>2
  <2>5. CASE c # << >>
    <3>1. PICK e : e = AsSent(history[k]) OBVIOUS
    <3>2. history[k].role \in {"user", "assistant", "result"} BY <1>1, ThreeKinds
    <3>3. e \in Payloads /\ e.parts = c BY <1>5, <2>2, <3>1, <3>2 DEF AsSent, Payloads
    <3>4. G[k] = Append(s, e) BY <1>3, <1>5, <2>2, <2>5, <3>1
    <3>5. PICK p \in Seq(Seq(WireParts)) : p = PartsOf(s) /\ PartsOf(Append(s, e)) = Append(p, c)
      BY <3>3, PartsAppended
    <3>6. P!FlattenSeq(Append(p, c)) = P!FlattenSeq(p) \o c BY FlattenAppend DEF Joined
    <3> QED BY <2>1, <2>2, <2>3, <3>4, <3>5, <3>6
  <2> QED BY <2>4, <2>5
<1> HIDE DEF T
<1>12. P!FlattenSeq(PartsOf(G[l])) = f[l]
  <2>1. \A k \in 0 .. l : k \in T BY <1>1, <1>10, <1>11, UpTo
  <2>2. l \in 0 .. l BY <1>1
  <2> QED BY <2>1, <2>2 DEF T
<1>13. w = f[l]
  <2>1. w = H!FlattenSeq(PartsOf(G[l])) BY <1>3 DEF PartsOf
  <2> QED BY <1>12, <2>1, SameFlatten
<1>14. PICK off : Laid(f[l], l, cs, off) BY <1>8, GrownIsLaid
<1>15. OfMessages(f[l], l, cs, off, strict, {"anthropic", "field"})
  <2>1. l + 1 .. l = {} BY <1>1
  <2> QED BY <1>1, <1>4, <1>5, <1>8, <1>14, <2>1 DEF OfMessages
<1> QED BY <1>13, <1>15 DEF Portable

(* When nothing was left out the payload has the roles of the history.       *)
LEMMA NothingLeftOut ==
  ASSUME HistoryInv, Len(H!Payload) = Len(history)
  PROVE  \A k \in 1 .. Len(history) : H!Payload[k].role = history[k].role
<1>1. PICK l \in Nat : l = Len(history) BY DEF HistoryInv
<1>2. PICK G : Sending(G) BY SendingSteps
<1>3. /\ G \in [0 .. l -> Seq(Payloads)] /\ G[0] = << >> /\ H!Payload = G[l]
      /\ \A k \in 1 .. l :
           G[k] = IF H!_anthropic_message(history[k]) = << >> THEN G[k - 1]
                  ELSE Append(G[k - 1], AsSent(history[k]))
  BY <1>1, <1>2 DEF Sending
<1> DEFINE Same(k) == /\ Len(G[k]) <= k
                      /\ Len(G[k]) = k => \A i \in 1 .. k : G[k][i].role = history[i].role
           T == {k \in 0 .. l : Same(k)}
<1>4. 0 \in T BY <1>1, <1>3
<1>5. ASSUME NEW k \in 1 .. l, k - 1 \in T PROVE k \in T
  <2>1. k \in 0 .. l /\ k - 1 \in 0 .. l BY <1>1
  <2>2. PICK s \in Seq(Payloads), c \in Nat : s = G[k - 1] /\ c = Len(s) BY <1>3, <2>1
  <2>3. c <= k - 1 /\ (c = k - 1 => \A i \in 1 .. k - 1 : s[i].role = history[i].role)
    BY <1>5, <2>2
  <2>4. CASE G[k] = s
    <3>1. Len(G[k]) <= k /\ Len(G[k]) # k BY <2>2, <2>3, <2>4
    <3> QED BY <2>1, <3>1
  <2>5. CASE G[k] # s
    <3>1. G[k] = Append(s, AsSent(history[k])) BY <1>3, <2>2, <2>5
    <3>2. PICK e : e = AsSent(history[k]) OBVIOUS
    <3>3. e.role = history[k].role BY <3>2 DEF AsSent
    <3>4. PICK t : t = Append(s, e) /\ Len(t) = c + 1 /\ (\A i \in 1 .. c : t[i] = s[i]) /\ t[c + 1] = e
      <4>1. e \in Payloads
        <5>1. history[k].role \in {"user", "assistant", "result"} BY <1>1, ThreeKinds
        <5>2. Written(H!_anthropic_message(history[k]), history[k], TRUE, {"anthropic", "field"})
          BY <1>1, AnthropicIsWritten
        <5>3. H!_anthropic_message(history[k]) \in Seq(WireParts) BY <5>2 DEF Written
        <5> QED BY <3>2, <5>1, <5>3 DEF AsSent, Payloads
      <4>2. Longer(s, e, Append(s, e)) BY <4>1, AppendIsLonger
      <4> QED BY <2>2, <4>2 DEF Longer
    <3>5. ASSUME c + 1 = k, NEW i \in 1 .. k PROVE t[i].role = history[i].role
      <4>1. CASE i = k BY <3>3, <3>4, <3>5, <4>1
      <4>2. CASE i # k
        <5>1. i \in 1 .. k - 1 /\ c = k - 1 BY <2>2, <3>5, <4>2
        <5> QED BY <2>3, <3>4, <5>1
      <4> QED BY <4>1, <4>2
    <3>6. G[k] = t BY <3>1, <3>2, <3>4
    <3>7. Len(t) <= k /\ (Len(t) = k => \A i \in 1 .. k : t[i].role = history[i].role)
      BY <2>2, <2>3, <3>4, <3>5
    <3> QED BY <2>1, <3>6, <3>7
  <2> QED BY <2>4, <2>5
<1> HIDE DEF T
<1>6. l \in T
  <2>1. \A k \in 0 .. l : k \in T BY <1>1, <1>4, <1>5, UpTo
  <2>2. l \in 0 .. l BY <1>1
  <2> QED BY <2>1, <2>2
<1> QED BY <1>1, <1>3, <1>6 DEF T

(* The second breakpoint is the end of the last request.                     *)
LEMMA BoundaryIsThere ==
  ASSUME HistoryInv
  PROVE  H!BoundaryIsLastRequest
<1> SUFFICES ASSUME H!Tidy, NEW i \in DOMAIN history, history[i].role = "assistant",
                    \A j \in i + 1 .. Len(history) : history[j].role # "assistant"
             PROVE  H!_previous_request_boundary = i - 1
  BY DEF H!BoundaryIsLastRequest
<1>1. PICK l \in Nat : l = Len(history) /\ DOMAIN history = 1 .. l BY DEF HistoryInv
<1>2. Len(H!Payload) = l /\ \A k \in 1 .. l : H!Payload[k].role = history[k].role
  BY <1>1, NothingLeftOut DEF H!Tidy
<1>3. i \in 2 .. l
  <2>1. history[1].role = "user" BY DEF HistoryInv
  <2>2. i # 1 BY <2>1
  <2> QED BY <1>1, <2>2
<1>4. history[i - 1].role # "assistant"
  <2>1. PICK j \in 1 .. l - 1 : j = i - 1 /\ j + 1 = i BY <1>1, <1>3
  <2>2. ~(history[j].role = "assistant" /\ history[j + 1].role = "assistant")
    BY <1>1, <2>1 DEF H!Tidy
  <2> QED BY <2>1, <2>2
<1>5. H!LastBelow(l, TRUE) = i
  <2> DEFINE S == {x \in 1 .. l : (H!Payload[x].role = "assistant") = TRUE}
  <2>1. i \in S BY <1>1, <1>2
  <2>2. \A x \in S : x <= i
    <3> TAKE x \in S
    <3>1. x \in 1 .. l /\ history[x].role = "assistant" BY <1>2
    <3>2. ~(x \in i + 1 .. l) BY <1>1, <3>1
    <3> QED BY <1>1, <1>3, <3>1, <3>2
  <2>3. \A x \in S : x \in Nat OBVIOUS
  <2>4. H!LastBelow(l, TRUE) = IF S = {} THEN 0 ELSE H!Max(S) BY DEF H!LastBelow
  <2> HIDE DEF S
  <2>5. H!Max(S) = i BY <2>1, <2>2, <2>3 DEF H!Max
  <2> QED BY <2>1, <2>4, <2>5
<1>6. H!LastBelow(i - 1, FALSE) = i - 1
  <2> DEFINE S == {x \in 1 .. i - 1 : (H!Payload[x].role = "assistant") = FALSE}
  <2>1. i - 1 \in S
    <3>1. i - 1 \in 1 .. l /\ i - 1 \in 1 .. i - 1 BY <1>1, <1>3
    <3> QED BY <1>2, <1>4, <3>1
  <2>2. \A x \in S : x <= i - 1 /\ x \in Nat BY <1>3
  <2>4. H!LastBelow(i - 1, FALSE) = IF S = {} THEN 0 ELSE H!Max(S) BY DEF H!LastBelow
  <2> HIDE DEF S
  <2>5. H!Max(S) = i - 1 BY <2>1, <2>2 DEF H!Max
  <2> QED BY <2>1, <2>4, <2>5
<1>7. i # 0 BY <1>3
<1> QED BY <1>2, <1>5, <1>6, <1>7 DEF H!_previous_request_boundary

(* Chat and Mistral: images that wait come before what follows the results.  *)
Waits == {<< >>, << H!Pictures >>}
Deferrals == [parts : Seq(WireParts), wait : Waits]

\* what one message adds to the parts
Adds(own, so, i) ==
  IF history[i].role = "user" THEN so.wait \o << H!Part("user") >>
  ELSE IF history[i].role = "assistant" THEN so.wait \o own[i]
  ELSE << H!Answer(history[i].id) >>

\* the step of Deferred
Defers(own, so, i) ==
  LET m == history[i]
      flushed == [parts |-> so.parts \o so.wait, wait |-> <<>>]
  IN  CASE m.role = "user"      -> [flushed EXCEPT !.parts = Append(@, H!Part("user"))]
        [] m.role = "assistant" -> [flushed EXCEPT !.parts = @ \o own[i]]
        [] m.role = "result"    -> [parts |-> Append(so.parts, H!Answer(m.id)),
                                    wait |-> IF m.image THEN <<H!Pictures>> ELSE so.wait]

\* what the adapter wrote of each assistant message
Owned(own, home) ==
  /\ home \subseteq Fields
  /\ \A k \in 1 .. Len(history) : Replied(k) => own[k] \in Seq(Content(history[k], home))

(* Images that wait are parts of a request.                                  *)
LEMMA PicturesArePart == Waits \subseteq Seq(WireParts) /\ Waits \subseteq Seq([is : {"images"}])
<1>1. H!Pictures \in WireParts /\ H!Pictures \in [is : {"images"}] BY DEF H!Pictures, WireParts
<1> QED BY <1>1 DEF Waits

(* What comes after what waited is written as before.                        *)
LEMMA WaitedIsWritten ==
  ASSUME NEW wait \in Waits, NEW c, NEW m, NEW strict, NEW home,
         Written(c, m, strict, home), m.role # "result"
  PROVE  Written(wait \o c, m, strict, home)
<1>1. c \in Seq(WireParts) BY DEF Written
<1>2. CASE wait = << >>
  <2>1. << >> \o c = c BY <1>1
  <2> QED BY <1>2, <2>1
<1>3. CASE wait = << H!Pictures >>
  <2>1. H!Pictures.is = "images" BY DEF H!Pictures
  <2>2. PICK p \in WireParts : p = H!Pictures /\ p.is = "images" BY <2>1 DEF H!Pictures, WireParts
  <2>3. PICK n \in Nat : n = Len(c) BY <1>1
  <2>4. PICK d \in Seq(WireParts) : /\ d = << p >> \o c /\ Len(d) = n + 1 /\ d[1] = p
                                    /\ \A j \in 1 .. n : d[j + 1] = c[j]
    <3>1. << p >> \in Seq(WireParts) /\ Len(<< p >>) = 1 /\ << p >>[1] = p OBVIOUS
    <3>2. Extends(<< p >>, c, << p >> \o c) BY <1>1, <3>1, ConcatExtends
    <3>3. << p >> \o c \in Seq(WireParts) BY <1>1, <3>1
    <3>4. PICK z : z = << p >> \o c /\ \A j \in 1 .. n : z[1 + j] = c[j]
      BY <2>3, <3>1, <3>2 DEF Extends
    <3>5. \A j \in 1 .. n : z[j + 1] = c[j]
      <4> TAKE j \in 1 .. n
      <4>1. j + 1 = 1 + j OBVIOUS
      <4> QED BY <3>4, <4>1, Zenon
    <3>6. (<< p >> \o c)[1] = p /\ Len(<< p >> \o c) = n + 1 BY <2>3, <3>1, <3>2 DEF Extends
    <3> QED BY <3>3, <3>4, <3>5, <3>6
  <2>5. \A j \in 1 .. n + 1 : j = 1 \/ \E i \in 1 .. n : j = i + 1
    <3> TAKE j \in 1 .. n + 1
    <3>1. CASE j # 1
      <4>1. j - 1 \in 1 .. n /\ j = (j - 1) + 1 BY <2>3, <3>1
      <4> QED BY <4>1
    <3> QED BY <3>1
  <2>6. \A j \in 1 .. n : /\ c[j].is # "answer"
                          /\ c[j].is = "call" => /\ m.role = "assistant" /\ c[j].id \in CallIds(m)
                                                 /\ \A i \in j .. n : c[i].is \notin {"user", "images"}
                          /\ c[j].is = "reasoning" => c[j].of \in home
    BY <2>3 DEF Written
  <2>7. \A j \in 1 .. n + 1 :
          /\ d[j].is # "answer"
          /\ d[j].is = "call" => /\ m.role = "assistant" /\ d[j].id \in CallIds(m)
                                 /\ \A i \in j .. n + 1 : d[i].is \notin {"user", "images"}
          /\ d[j].is = "reasoning" => d[j].of \in home
    <3> TAKE j \in 1 .. n + 1
    <3>1. CASE j = 1 BY <2>2, <2>4, <3>1
    <3>2. CASE j # 1
      <4>1. PICK i \in 1 .. n : j = i + 1 BY <2>5, <3>2
      <4>2. d[j] = c[i] BY <2>4, <4>1
      <4>3. ASSUME c[i].is = "call", NEW x \in j .. n + 1 PROVE d[x].is \notin {"user", "images"}
        <5>1. x - 1 \in i .. n /\ x - 1 \in 1 .. n /\ x = (x - 1) + 1 BY <2>3, <4>1
        <5>2. d[x] = c[x - 1] BY <2>4, <5>1
        <5> QED BY <2>6, <4>3, <5>1, <5>2
      <4> QED BY <2>6, <4>2, <4>3
    <3> QED BY <3>1, <3>2
  <2>8. Written(d, m, strict, home) BY <2>4, <2>7 DEF Written
  <2> QED BY <1>3, <2>2, <2>4, <2>8
<1> QED BY <1>2, <1>3 DEF Waits

(* What a message adds, after images that waited, is written for it.         *)
LEMMA AddsAreWritten ==
  ASSUME HistoryInv, NEW own, NEW home, Owned(own, home), NEW strict,
         NEW k \in 1 .. Len(history), NEW so \in Deferrals
  PROVE  Written(Adds(own, so, k), history[k], strict, home)
<1>0. so.wait \in Waits BY DEF Deferrals
<1>1. CASE history[k] \in Users /\ history[k].role = "user"
  <2>1. Written(<< H!Part("user") >>, history[k], strict, home) BY <1>1, UserIsWritten
  <2>2. Written(so.wait \o << H!Part("user") >>, history[k], strict, home)
    BY <1>0, <1>1, <2>1, WaitedIsWritten
  <2> QED BY <1>1, <2>2 DEF Adds
<1>2. CASE history[k] \in Replies /\ history[k].role = "assistant"
  <2>1. Reply(history[k], home) /\ own[k] \in Seq(Content(history[k], home))
    BY <1>2 DEF Reply, Owned, Replied
  <2>2. Written(own[k], history[k], strict, home) BY <2>1, ContentIsWritten
  <2>3. Written(so.wait \o own[k], history[k], strict, home) BY <1>0, <1>2, <2>2, WaitedIsWritten
  <2> QED BY <1>2, <2>3 DEF Adds
<1>3. CASE history[k] \in Results /\ history[k].role = "result"
  BY <1>3, ResultIsWritten DEF Adds
<1> QED BY <1>1, <1>2, <1>3, ThreeKinds

(* A step adds to the parts, and something may wait.                         *)
LEMMA DefersIs ==
  ASSUME HistoryInv, NEW own, NEW home, Owned(own, home),
         NEW k \in 1 .. Len(history), NEW so \in Deferrals
  PROVE  /\ Defers(own, so, k) \in Deferrals
         /\ Defers(own, so, k).parts = so.parts \o Adds(own, so, k)
<1>0. so.parts \in Seq(WireParts) /\ so.wait \in Waits /\ so.wait \in Seq(WireParts)
  BY PicturesArePart DEF Deferrals
<1>1. Written(Adds(own, so, k), history[k], TRUE, home) BY AddsAreWritten
<1>2. PICK a \in Seq(WireParts) : a = Adds(own, so, k) BY <1>1 DEF Written
<1>3. PICK p \in Seq(WireParts), w \in Seq(WireParts) : p = so.parts /\ w = so.wait BY <1>0
<1>4. << >> \in Waits BY DEF Waits
<1>5. CASE history[k].role = "user"
  <2>1. PICK u \in WireParts : u = H!Part("user") BY DEF H!Part, WireParts
  <2>6. (p \o w) \o << u >> = p \o (w \o << u >>) OBVIOUS
  <2>7. p \o w \in Seq(WireParts) OBVIOUS
  <2>8. \A x \in Seq(WireParts) : Append(x, u) = x \o << u >> OBVIOUS
  <2>9. Append(p \o w, u) = (p \o w) \o << u >> BY <2>7, <2>8
  <2>2. Append(p \o w, H!Part("user")) = p \o (w \o << u >>) BY <2>1, <2>6, <2>9
  <2>3. Defers(own, so, k) = [parts |-> Append(p \o w, H!Part("user")), wait |-> << >>]
    BY <1>3, <1>5 DEF Defers
  <2>4. a = w \o << u >> BY <1>2, <1>3, <1>5, <2>1 DEF Adds
  <2>5. p \o a \in Seq(WireParts) OBVIOUS
  <2>10. Defers(own, so, k) = [parts |-> p \o a, wait |-> << >>] BY <2>2, <2>3, <2>4
  <2> QED BY <1>2, <1>3, <1>4, <2>5, <2>10 DEF Deferrals
<1>6. CASE history[k].role = "assistant"
  <2>1. Replied(k) BY <1>6 DEF Replied
  <2>2. history[k] \in Replies BY <1>6, ThreeKinds
  <2>3. own[k] \in Seq(Content(history[k], home)) /\ Reply(history[k], home)
    BY <2>1, <2>2 DEF Owned, Reply
  <2>4. PICK o \in Seq(WireParts) : o = own[k] BY <2>3, ContentIsWritten
  <2>5. (p \o w) \o o = p \o (w \o o) OBVIOUS
  <2>6. Defers(own, so, k) = [parts |-> (p \o w) \o o, wait |-> << >>]
    BY <1>3, <1>6, <2>4 DEF Defers
  <2>7. a = w \o o BY <1>2, <1>3, <1>6, <2>4 DEF Adds
  <2>8. p \o a \in Seq(WireParts) OBVIOUS
  <2> QED BY <1>2, <1>3, <1>4, <2>5, <2>6, <2>7, <2>8 DEF Deferrals
<1>7. CASE history[k] \in Results /\ history[k].role = "result"
  <2>1. H!Answer(history[k].id) \in WireParts BY <1>7 DEF H!Answer, WireParts, Results
  <2>2. PICK v \in Waits : v = IF history[k].image THEN <<H!Pictures>> ELSE so.wait
    BY <1>0 DEF Waits
  <2>3. Defers(own, so, k) = [parts |-> Append(p, H!Answer(history[k].id)), wait |-> v]
    BY <1>3, <1>7, <2>2 DEF Defers
  <2>4. Append(p, H!Answer(history[k].id)) = p \o << H!Answer(history[k].id) >> BY <2>1
  <2>5. a = << H!Answer(history[k].id) >> BY <1>2, <1>7 DEF Adds
  <2>6. p \o a \in Seq(WireParts) OBVIOUS
  <2> QED BY <1>2, <1>3, <2>2, <2>3, <2>4, <2>5, <2>6 DEF Deferrals
<1> QED BY <1>5, <1>6, <1>7, ThreeKinds

(* The steps of Deferred, one after another.                                 *)
Deferring(own, F) ==
  /\ F \in [0 .. Len(history) -> Deferrals] /\ F[0] = [parts |-> << >>, wait |-> << >>]
  /\ H!Deferred(own) = F[Len(history)].parts \o F[Len(history)].wait
  /\ \A k \in 1 .. Len(history) : F[k] = Defers(own, F[k - 1], k)

(* Deferred takes one message after another.                                 *)
LEMMA DeferringSteps ==
  ASSUME HistoryInv, NEW own, NEW home, Owned(own, home)
  PROVE  \E F : Deferring(own, F)
<1> DEFINE n == Len(history)
           V == Deferrals
           none == [parts |-> <<>>, wait |-> <<>>]
           Step(so, i) ==
             LET m == history[i]
                 flushed == [parts |-> so.parts \o so.wait, wait |-> <<>>]
             IN  CASE m.role = "user"      -> [flushed EXCEPT !.parts = Append(@, H!Part("user"))]
                   [] m.role = "assistant" -> [flushed EXCEPT !.parts = @ \o own[i]]
                   [] m.role = "result"    -> [parts |-> Append(so.parts, H!Answer(m.id)),
                                               wait |-> IF m.image THEN <<H!Pictures>> ELSE so.wait]
           Unfolds(g) == g = [k \in 0 .. Len(history) |-> IF k = 0 THEN none ELSE Step(g[k - 1], k)]
           F == CHOOSE g : Unfolds(g)
           st == [x \in (1 .. n) \X V |-> Defers(own, x[2], x[1])]
<1>0. n \in Nat BY DEF HistoryInv
<1>1. \A so, i : Step(so, i) = Defers(own, so, i) BY Zenon DEF Defers
<1>2. none \in V
  <2>1. << >> \in Seq(WireParts) /\ << >> \in Waits BY DEF Waits
  <2> QED BY <2>1 DEF Deferrals
<1>3. \A k \in 1 .. n : \A v \in V : st[<<k, v>>] = Defers(own, v, k) /\ st[<<k, v>>] \in V
  <2> TAKE k \in 1 .. n
  <2> TAKE v \in V
  <2>1. st[<<k, v>>] = Defers(own, v, k) OBVIOUS
  <2>2. Defers(own, v, k) \in V BY DefersIs
  <2> QED BY <2>1, <2>2
<1> HIDE DEF st, n, V, Step, none
<1>4. Stepwise(n, V, none, st) BY <1>0, <1>2, <1>3, Recursion, Zenon
<1>5. PICK f \in [0 .. n -> V] : f[0] = none /\ \A k \in 1 .. n : f[k] = st[<<k, f[k - 1]>>]
  BY <1>4 DEF Stepwise
<1>6. \A k \in 0 .. n : f[k] = IF k = 0 THEN none ELSE Step(f[k - 1], k)
  <2> TAKE k \in 0 .. n
  <2>1. CASE k = 0 BY <1>5, <2>1
  <2>2. CASE k # 0
    <3>1. k \in 1 .. n /\ k - 1 \in 0 .. n BY <1>0, <2>2
    <3>2. f[k] = st[<<k, f[k - 1]>>] /\ f[k - 1] \in V BY <1>5, <3>1
    <3> QED BY <1>1, <1>3, <2>2, <3>1, <3>2
  <2> QED BY <2>1, <2>2
<1>7. Unfolds(f) BY <1>5, <1>6 DEF n
<1> HIDE DEF Unfolds
<1>8. Unfolds(F) BY <1>7, Zenon
<1> HIDE DEF F
<1>9. F = [k \in 0 .. n |-> IF k = 0 THEN none ELSE Step(F[k - 1], k)] BY <1>8 DEF Unfolds, n
<1>10. F[0] = none BY <1>0, <1>9
<1>11. \A k \in 1 .. n : F[k] = Defers(own, F[k - 1], k)
  <2> TAKE k \in 1 .. n
  <2>1. k \in 0 .. n /\ k # 0 BY <1>0
  <2> QED BY <1>1, <1>9, <2>1
<1> DEFINE T == {k \in 0 .. n : F[k] \in V}
<1>12. 0 \in T BY <1>0, <1>2, <1>10
<1>13. ASSUME NEW k \in 1 .. n, k - 1 \in T PROVE k \in T
  <2>1. k \in 0 .. n BY <1>0
  <2>2. PICK v \in V : v = F[k - 1] BY <1>13
  <2>3. F[k] = st[<<k, v>>] BY <1>3, <1>11, <2>2
  <2> QED BY <1>3, <2>1, <2>2, <2>3
<1> HIDE DEF T
<1>14. \A k \in 0 .. n : k \in T BY <1>0, <1>12, <1>13, UpTo
<1>15. F \in [0 .. n -> V] BY <1>9, <1>14 DEF T
<1>16. H!Deferred(own) = F[n].parts \o F[n].wait
  BY Zenon DEF H!Deferred, F, Unfolds, n, none, Step
<1>17. Deferring(own, F) BY <1>10, <1>11, <1>15, <1>16 DEF Deferring, n, V, none
<1> QED BY <1>17

(* What waits to the end trails.                                             *)
LEMMA DeferredIsPortable ==
  ASSUME HistoryInv, NEW own, NEW home, Owned(own, home), NEW strict
  PROVE  Portable(H!Deferred(own), strict, home)
<1>1. PICK l \in Nat : l = Len(history) BY DEF HistoryInv
<1>2. PICK F : Deferring(own, F) BY DeferringSteps
<1>3. /\ F \in [0 .. l -> Deferrals] /\ F[0] = [parts |-> << >>, wait |-> << >>]
      /\ H!Deferred(own) = F[l].parts \o F[l].wait
      /\ \A k \in 1 .. l : F[k] = Defers(own, F[k - 1], k)
  BY <1>1, <1>2 DEF Deferring
<1>4. \A k \in 0 .. l : F[k].parts \in Seq(WireParts) /\ F[k].wait \in Waits
  <2> TAKE k \in 0 .. l
  <2>1. F[k] \in Deferrals BY <1>3
  <2> QED BY <2>1 DEF Deferrals
<1>5. \A k \in 1 .. l : /\ Written(Adds(own, F[k - 1], k), history[k], strict, home)
                        /\ F[k].parts = F[k - 1].parts \o Adds(own, F[k - 1], k)
  <2> TAKE k \in 1 .. l
  <2>1. k - 1 \in 0 .. l BY <1>1
  <2>2. F[k - 1] \in Deferrals BY <1>3, <2>1
  <2> QED BY <1>1, <1>3, <2>2, AddsAreWritten, DefersIs
<1> DEFINE cs == [k \in 1 .. l + 1 |-> IF k = l + 1 THEN F[l].wait ELSE Adds(own, F[k - 1], k)]
           f == [k \in 0 .. l + 1 |-> IF k = l + 1 THEN F[l].parts \o F[l].wait ELSE F[k].parts]
<1>6. \A k \in 1 .. l : cs[k] = Adds(own, F[k - 1], k) BY <1>1
<1>7. cs[l + 1] = F[l].wait BY <1>1
<1>8. \A k \in 0 .. l : f[k] = F[k].parts BY <1>1
<1>9. f[l + 1] = F[l].parts \o F[l].wait BY <1>1
<1>10. \A k \in 1 .. l + 1 : k \in 1 .. l \/ k = l + 1 BY <1>1
<1>11. f \in [0 .. l + 1 -> Seq(WireParts)]
  <2>1. l \in 0 .. l BY <1>1
  <2>2. F[l].parts \in Seq(WireParts) /\ F[l].wait \in Seq(WireParts) BY <1>4, <2>1, PicturesArePart
  <2>3. F[l].parts \o F[l].wait \in Seq(WireParts) BY <2>2
  <2>4. \A k \in 0 .. l + 1 : k # l + 1 => k \in 0 .. l BY <1>1
  <2> QED BY <1>4, <2>3, <2>4
<1> HIDE DEF cs, f
<1>12. \A k \in 1 .. l + 1 : cs[k] \in Seq(WireParts) /\ f[k] = f[k - 1] \o cs[k]
  <2> TAKE k \in 1 .. l + 1
  <2>1. CASE k \in 1 .. l
    <3>1. k \in 0 .. l /\ k - 1 \in 0 .. l BY <1>1, <2>1
    <3>2. f[k] = F[k].parts /\ f[k - 1] = F[k - 1].parts BY <1>8, <3>1
    <3>3. cs[k] \in Seq(WireParts) BY <1>5, <1>6, <2>1 DEF Written
    <3> QED BY <1>5, <1>6, <2>1, <3>2, <3>3
  <2>2. CASE k = l + 1
    <3>1. k - 1 = l /\ l \in 0 .. l BY <1>1, <2>2
    <3>2. f[k - 1] = F[l].parts BY <1>8, <3>1
    <3>3. F[l].wait \in Seq(WireParts) BY <1>4, <3>1, PicturesArePart
    <3> QED BY <1>7, <1>9, <2>2, <3>2, <3>3
  <2> QED BY <1>10, <2>1, <2>2
<1>13. Growing(WireParts, l + 1, cs, f)
  <2>1. f[0] = << >>
    <3>1. 0 \in 0 .. l BY <1>1
    <3> QED BY <1>3, <1>8, <3>1
  <2>2. l + 1 \in Nat BY <1>1
  <2> QED BY <1>11, <1>12, <2>1, <2>2 DEF Growing
<1>14. PICK off : f[l + 1] \in Seq(WireParts) /\ Laid(f[l + 1], l + 1, cs, off) BY <1>13, GrownIsLaid
<1>15. \A k \in 1 .. l : Written(cs[k], history[k], strict, home) BY <1>5, <1>6
<1>16. \A k \in l + 1 .. l + 1 : Trails(cs[k])
  <2>1. l \in 0 .. l BY <1>1
  <2>2. F[l].wait \in Seq([is : {"images"}]) BY <1>4, <2>1, PicturesArePart
  <2>3. \A k \in l + 1 .. l + 1 : k = l + 1 BY <1>1
  <2> QED BY <1>7, <2>2, <2>3 DEF Trails
<1>17. l + 1 >= l BY <1>1
<1>18. OfMessages(f[l + 1], l + 1, cs, off, strict, home)
  BY <1>1, <1>14, <1>15, <1>16, <1>17 DEF OfMessages
<1> QED BY <1>3, <1>9, <1>18 DEF Portable

(* Chat and Mistral keep reasoning under the name of a field.                *)
LEMMA ChatIsPortable ==
  ASSUME HistoryInv, NEW strict, NEW home, home \subseteq Fields, "field" \in home
  PROVE  /\ Portable(H!_messages_to_openai_chat, strict, home)
         /\ Portable(H!_messages_to_mistral, strict, home)
<1>1. PICK l \in Nat : l = Len(history) /\ DOMAIN history = 1 .. l BY DEF HistoryInv
<1>2. H!Assistants = {i \in 1 .. l : Replied(i)} BY <1>1 DEF H!Assistants, Replied
<1>3. ASSUME NEW k \in 1 .. l, Replied(k)
      PROVE  /\ H!ChatMessage(history[k]) \in Seq(Content(history[k], home))
             /\ H!MistralMessage(history[k]) \in Seq(Content(history[k], home))
  <2>1. history[k] \in Replies BY <1>1, <1>3, ThreeKinds DEF Replied
  <2>2. Reply(history[k], home) BY <2>1 DEF Reply
  <2>3. PICK r \in Seq(Content(history[k], home)), e \in Seq(Content(history[k], home)),
             a \in Seq(Content(history[k], home)), b \in Seq(Content(history[k], home)) :
          /\ r = << H!Reasoning("field") >> /\ e = << >>
          /\ a = H!Text(history[k].blocks) /\ b = H!Calls(history[k].blocks)
    BY <2>2, OnePart, TextIsContent, CallsAreContent
  <2>4. \A q \in Seq(Content(history[k], home)) : q \o a \o b \in Seq(Content(history[k], home))
    OBVIOUS
  <2>5. \A x : H!If(x, << H!Reasoning("field") >>) \in {r, e} BY <2>3 DEF H!If
  <2>6. PICK q \in Seq(Content(history[k], home)) : H!ChatMessage(history[k]) = q \o a \o b
    BY <2>3, <2>5 DEF H!ChatMessage
  <2>7. PICK x \in Seq(Content(history[k], home)) : H!MistralMessage(history[k]) = x \o a \o b
    BY <2>3, <2>5 DEF H!MistralMessage
  <2> QED BY <2>4, <2>6, <2>7
<1> DEFINE chat == [i \in H!Assistants |-> H!ChatMessage(history[i])]
           mistral == [i \in H!Assistants |-> H!MistralMessage(history[i])]
<1>4. \A k \in 1 .. l : Replied(k) => /\ chat[k] = H!ChatMessage(history[k])
                                      /\ mistral[k] = H!MistralMessage(history[k])
  BY <1>2
<1>5. /\ H!_messages_to_openai_chat = H!Deferred(chat)
      /\ H!_messages_to_mistral = H!Deferred(mistral)
  BY DEF H!_messages_to_openai_chat, H!_messages_to_mistral
<1> HIDE DEF chat, mistral
<1>6. Owned(chat, home) /\ Owned(mistral, home) BY <1>1, <1>3, <1>4 DEF Owned
<1> QED BY <1>5, <1>6, DeferredIsPortable

-----------------------------------------------------------------------------
(* Whatever the provider, the request is one of the history's messages.      *)
Home(api) == IF api = "google" THEN Fields ELSE H!Shared(api)
(* What is sent to any provider is portable.                                 *)
LEMMA WireIsPortable ==
  ASSUME H!HistoryAssumption, P!ProvidersAssumption, HistoryInv, NEW api \in Apis
  PROVE  Portable(H!Wire(api), api # "google" \/ ~OldGemini, Home(api))
<1>1. api \in {"chat", "responses", "codex", "anthropic", "mistral", "google"}
  BY DEF P!ProvidersAssumption
<1>2. CASE api \in {"chat", "mistral"}
  <2>1. Home(api) = {api, "field"} BY <1>2 DEF Home, H!Shared
  <2>2. Home(api) \subseteq Fields /\ "field" \in Home(api) BY <2>1 DEF Fields
  <2>3. H!Wire(api) = H!_messages_to_openai_chat \/ H!Wire(api) = H!_messages_to_mistral
    BY <1>2 DEF H!Wire
  <2> QED BY <2>2, <2>3, ChatIsPortable
<1>3. CASE api = "responses"
  <2>1. Home(api) = Shares BY <1>3 DEF Home, H!Shared, Shares
  <2>2. H!Wire(api) = H!_messages_to_responses_input BY <1>3 DEF H!Wire
  <2> QED BY <2>1, <2>2, ResponsesIsPortable
<1>4. CASE api = "codex"
  <2>1. Home(api) = Shares BY <1>4 DEF Home, H!Shared, Shares
  <2>2. H!Wire(api) = H!codex_responses_input BY <1>4 DEF H!Wire
  <2> QED BY <2>1, <2>2, CodexIsPortable
<1>5. CASE api = "anthropic"
  <2>1. Home(api) = {"anthropic", "field"} BY <1>5 DEF Home, H!Shared
  <2>2. H!Wire(api) = H!FlattenSeq([i \in DOMAIN H!Payload |-> H!Payload[i].parts])
    BY <1>5 DEF H!Wire
  <2> QED BY <1>5, <2>1, <2>2, AnthropicIsPortable
<1>6. CASE api = "google"
  <2>1. Home(api) = Fields BY <1>6 DEF Home
  <2>2. H!Wire(api) = H!FlattenSeq([i \in DOMAIN history |-> H!_messages_to_google(history[i])])
    BY <1>6 DEF H!Wire
  <2>3. (api # "google" \/ ~OldGemini) = ~OldGemini BY <1>6 DEF H!HistoryAssumption
  <2> QED BY <2>1, <2>2, <2>3, GoogleIsPortable
<1> QED BY <1>1, <1>2, <1>3, <1>4, <1>5, <1>6

(* Reasoning in a request is its provider's.                                 *)
LEMMA RequestStaysHome ==
  ASSUME HistoryInv, NEW w, NEW strict, NEW home, Portable(w, strict, home),
         NEW i \in DOMAIN w, w[i].is = "reasoning"
  PROVE  w[i].of \in home
<1>1. PICK n, cs, off : OfMessages(w, n, cs, off, strict, home) BY DEF Portable
<1>2. i \in 1 .. Len(w) /\ Laid(w, n, cs, off) BY <1>1 DEF OfMessages
<1>3. PICK k \in 1 .. n : \E j \in 1 .. Len(cs[k]) : i = off[k - 1] + j /\ w[i] = cs[k][j]
  BY <1>2, LaidSomewhere
<1>4. PICK j \in 1 .. Len(cs[k]) : w[i] = cs[k][j] BY <1>3
<1>5. Len(history) \in Nat /\ n \in Nat BY <1>2 DEF HistoryInv, Laid
<1>6. CASE k \in 1 .. Len(history)
  <2>1. Written(cs[k], history[k], strict, home) BY <1>1, <1>6 DEF OfMessages
  <2> QED BY <1>4, <2>1 DEF Written
<1>7. CASE k \notin 1 .. Len(history)
  <2>1. k \in Len(history) + 1 .. n BY <1>5, <1>7
  <2>2. cs[k] \in Seq([is : {"images"}]) BY <1>1, <2>1 DEF OfMessages, Trails
  <2>3. cs[k][j] \in [is : {"images"}] BY <2>2, ElementOfSeq
  <2> QED BY <1>4, <2>3
<1> QED BY <1>6, <1>7

(* Each part of HistoryIsPortable.                                           *)
LEMMA HistoryIsWritten ==
  ASSUME H!HistoryAssumption, P!ProvidersAssumption, HistoryInv
  PROVE  HistoryIsPortable
<1>1. H!AnswersFollowCalls
  <2> SUFFICES ASSUME H!Unanswered = {}, NEW api \in Apis, NEW w, w = H!Wire(api),
                      NEW i \in DOMAIN w, w[i].is = "call"
               PROVE  LET found == H!Position(w, H!Answer(w[i].id))
                      IN  /\ H!Cardinality(found) = 1 /\ H!Min(found) > i
                          /\ api # "google" \/ ~OldGemini =>
                               \A j \in i .. H!Min(found) : w[j].is \notin {"user", "images"}
    BY DEF H!AnswersFollowCalls
  <2>1. PICK strict \in BOOLEAN : strict = (api # "google" \/ ~OldGemini) OBVIOUS
  <2>2. Portable(w, strict, Home(api)) BY <2>1, WireIsPortable
  <2>3. PICK n, cs, off : OfMessages(w, n, cs, off, strict, Home(api)) BY <2>2 DEF Portable
  <2>4. i \in 1 .. Len(w) BY <2>3 DEF OfMessages
  <2>5. AnswersBelow(w, i, strict) BY <2>3, <2>4, RequestFollows
  <2> QED BY <2>1, <2>5 DEF AnswersBelow
<1>2. H!ReasoningStaysHome
  <2> SUFFICES ASSUME NEW api \in Apis \ {"google"}, NEW i \in DOMAIN H!Wire(api),
                      H!Wire(api)[i].is = "reasoning"
               PROVE  H!Wire(api)[i].of \in H!Shared(api)
    BY DEF H!ReasoningStaysHome
  <2>1. PICK w : w = H!Wire(api) OBVIOUS
  <2>2. PICK strict : Portable(w, strict, Home(api)) BY <2>1, WireIsPortable
  <2>3. w[i].of \in Home(api) BY <2>1, <2>2, RequestStaysHome
  <2> QED BY <2>1, <2>3 DEF Home
<1>3. H!BoundaryIsLastRequest BY BoundaryIsThere
<1> QED BY <1>1, <1>2, <1>3 DEF HistoryIsPortable, H!HistoryIsPortable

(* A history led with any of the providers can be sent to any other: each    *)
(* call is followed by its answer, no request carries another API's          *)
(* reasoning, and Anthropic's second breakpoint is the last request's end.   *)
THEOREM HistoryIsAlwaysPortable == Spec => []HistoryIsPortable
<1> USE PartsAssumption
<1>1. Init => HistoryInv
  <2> SUFFICES ASSUME H!Init PROVE HistoryInv BY DEF Init
  <2>1. history = << H!User(FALSE) >> BY DEF H!Init
  <2>2. PICK m \in Users : m = H!User(FALSE) /\ m.role = "user"
    <3>1. H!User(FALSE) \in Users BY DEF H!User, Users
    <3> QED BY <3>1 DEF H!User
  <2>3. m \in AllMessages BY DEF AllMessages
  <2>9. << m >> \in Seq(AllMessages) /\ Len(<< m >>) = 1 /\ << m >>[1] = m BY <2>3
  <2>10. history = << m >> BY <2>1, <2>2
  <2>4. history \in Seq(AllMessages) /\ Len(history) = 1 /\ history[1] = m BY <2>9, <2>10
  <2>5. \A k \in 1 .. Len(history) : k = 1 BY <2>4
  <2>6. \A k \in 1 .. Len(history) : history[k].role = "user" BY <2>2, <2>4, <2>5
  <2>7. \A k \in 1 .. Len(history) : ~Replied(k) BY <2>6 DEF Replied
  <2>8. \A k \in 1 .. Len(history) : 1 .. k - 1 = {} BY <2>5
  <2>11. \A k \in 1 .. Len(history) : history[k].role # "result" BY <2>6
  <2>13. Len(<< >>) = 0 OBVIOUS
  <2>14. history # << >>
    <3>0. 0 # 1 OBVIOUS
    <3>1. \A s : Len(s) = 1 => s # << >> BY <2>13, <3>0, Zenon
    <3> QED BY <2>4, <3>1, Zenon
  <2>12. history # << >> /\ history[1].role = "user" BY <2>2, <2>4, <2>14
  <2> QED BY <2>4, <2>7, <2>8, <2>11, <2>12 DEF HistoryInv
<1>2. HistoryInv /\ [Next]_vars => HistoryInv'
  <2> SUFFICES ASSUME HistoryInv, [Next]_vars PROVE HistoryInv' OBVIOUS
  <2>1. [H!Next]_history BY DEF Next, vars
  <2>2. H!HistoryAssumption BY DEF PartsAssumption
  <2> QED BY <2>1, <2>2, HistoryNext
<1>3. HistoryInv => HistoryIsPortable
  BY HistoryIsWritten DEF PartsAssumption
<1> QED BY <1>1, <1>2, <1>3, PTL DEF Spec

-----------------------------------------------------------------------------
(***************************************************************************)
(* EditTool: line ends, the places of the edits, and what they do together.*)
(***************************************************************************)
(* What is made by such steps stays where they lead.                         *)
LEMMA Within ==
  ASSUME NEW n \in Nat, NEW V, NEW F, F[0] \in V, \A k \in 1 .. n : F[k - 1] \in V => F[k] \in V
  PROVE  \A k \in 0 .. n : F[k] \in V
<1> DEFINE K == {k \in 0 .. n : F[k] \in V}
<1>1. 0 \in K OBVIOUS
<1>2. ASSUME NEW k \in 1 .. n, k - 1 \in K PROVE k \in K
  <2>1. F[k - 1] \in V BY <1>2
  <2>2. F[k] \in V BY <2>1
  <2> QED BY <2>2
<1> HIDE DEF K
<1>3. \A k \in 0 .. n : k \in K BY <1>1, <1>2, UpTo
<1> QED BY <1>3 DEF K

\* what a text holds (the provers do not know that a literal is a string),
\* and what it holds with its line ends normalized
Letters == STRING \union {"r", "n"}
Plain   == Letters \ {"r"}

Lf(s, k, v) == IF s[k] = "n" /\ E!Before(s, k) = "r" THEN v
               ELSE Append(v, IF s[k] = "r" THEN "n" ELSE s[k])
Normalizes(s, f) ==
  /\ f \in [0 .. Len(s) -> Seq(Plain)] /\ f[0] = << >> /\ E!normalize_to_lf(s) = f[Len(s)]
  /\ \A k \in 1 .. Len(s) : f[k] = Lf(s, k, f[k - 1])

(* Line ends are normalized from the first character to the last.            *)
LEMMA NormalSteps ==
  ASSUME NEW s \in Seq(Letters)
  PROVE  \E f : Normalizes(s, f)
<1> DEFINE n == Len(s)
           Unfolds(g) == g = [k \in 0 .. Len(s) |->
             IF k = 0 THEN << >>
             ELSE IF s[k] = "n" /\ E!Before(s, k) = "r" THEN g[k - 1]
             ELSE Append(g[k - 1], IF s[k] = "r" THEN "n" ELSE s[k])]
           F == CHOOSE g : Unfolds(g)
           V == Seq(Plain)
           st == [x \in (1 .. n) \X V |-> Lf(s, x[1], x[2])]
<1>0. n \in Nat OBVIOUS
<1>1. \A k \in 1 .. n : \A v \in V : Lf(s, k, v) \in V
  <2> TAKE k \in 1 .. n
  <2> TAKE v \in V
  <2>1. PICK c \in Plain : c = IF s[k] = "r" THEN "n" ELSE s[k]
    <3>1. s[k] \in Letters OBVIOUS
    <3>2. "n" \in Plain BY DEF Plain, Letters
    <3> QED BY <3>1, <3>2 DEF Plain, Letters
  <2>2. Append(v, c) \in V BY <2>1
  <2> QED BY <2>1, <2>2 DEF Lf
<1>2. \A k \in 1 .. n : \A v \in V : st[<<k, v>>] \in V /\ st[<<k, v>>] = Lf(s, k, v) BY <1>1
<1>3. << >> \in V OBVIOUS
<1> HIDE DEF st, n, V
<1>4. Stepwise(n, V, << >>, st) BY <1>0, <1>2, <1>3, Recursion, Zenon
<1>5. PICK f \in [0 .. n -> V] : f[0] = << >> /\ \A k \in 1 .. n : f[k] = st[<<k, f[k - 1]>>]
  BY <1>4 DEF Stepwise
<1>6. \A k \in 0 .. n : f[k] = IF k = 0 THEN << >> ELSE Lf(s, k, f[k - 1])
  <2> TAKE k \in 0 .. n
  <2>1. CASE k = 0 BY <1>5, <2>1
  <2>2. CASE k # 0
    <3>1. k \in 1 .. n /\ k - 1 \in 0 .. n BY <1>0, <2>2
    <3>2. f[k] = st[<<k, f[k - 1]>>] /\ f[k - 1] \in V BY <1>5, <3>1
    <3> QED BY <1>2, <2>2, <3>1, <3>2
  <2> QED BY <2>1, <2>2
<1>7. Unfolds(f) BY <1>5, <1>6 DEF n, Lf
<1> HIDE DEF Unfolds
<1>8. Unfolds(F) BY <1>7, Zenon
<1> HIDE DEF F
<1>9. \A k \in 0 .. n : F[k] = IF k = 0 THEN << >> ELSE Lf(s, k, F[k - 1]) BY <1>8 DEF Unfolds, n, Lf
<1>10. F[0] = << >> /\ \A k \in 1 .. n : F[k] = Lf(s, k, F[k - 1])
  <2>1. 0 \in 0 .. n /\ \A k \in 1 .. n : k \in 0 .. n /\ k # 0 BY <1>0
  <2> QED BY <1>9, <2>1
<1>11. \A k \in 0 .. n : F[k] \in V
  <2>1. F[0] \in V BY <1>3, <1>10
  <2>2. \A k \in 1 .. n : F[k - 1] \in V => F[k] \in V BY <1>1, <1>10
  <2> QED BY <1>0, <2>1, <2>2, Within
<1>12. F \in [0 .. n -> V]
  <2>1. F = [k \in 0 .. n |-> F[k]] BY <1>8 DEF Unfolds, n
  <2> QED BY <1>11, <2>1
<1>13. E!normalize_to_lf(s) = F[n] BY Zenon DEF E!normalize_to_lf, F, Unfolds, n
<1>14. Normalizes(s, F) BY <1>10, <1>12, <1>13 DEF Normalizes, n, V
<1> QED BY <1>14

(* Nothing is left of the carriage returns.                                  *)
LEMMA NormalIsPlain ==
  ASSUME NEW s \in Seq(Letters)
  PROVE  E!normalize_to_lf(s) \in Seq(Plain)
<1>1. PICK f : Normalizes(s, f) BY NormalSteps
<1>2. Len(s) \in 0 .. Len(s) OBVIOUS
<1> QED BY <1>1, <1>2 DEF Normalizes

Same(a, b) == a = b
(* A text of plain characters is normalized already.                         *)
LEMMA PlainIsNormal ==
  ASSUME NEW t \in Seq(Plain)
  PROVE  Same(E!normalize_to_lf(t), t)
<1>1. t \in Seq(Letters) BY DEF Plain, Letters
<1>2. PICK f : Normalizes(t, f) BY <1>1, NormalSteps
<1>3. PICK n \in Nat : n = Len(t) OBVIOUS
<1>4. /\ f \in [0 .. n -> Seq(Plain)] /\ f[0] = << >> /\ E!normalize_to_lf(t) = f[n]
      /\ \A k \in 1 .. n : f[k] = Lf(t, k, f[k - 1])
  BY <1>2, <1>3 DEF Normalizes
<1>5. \A k \in 1 .. n : t[k] \in Plain BY <1>3
<1>6. \A k \in 1 .. n : f[k] = Append(f[k - 1], t[k])
  <2> TAKE k \in 1 .. n
  <2>1. t[k] # "r" BY <1>5 DEF Plain
  <2>2. E!Before(t, k) # "r"
    <3>1. CASE k = 1 BY <3>1 DEF E!Before
    <3>2. CASE k # 1
      <4>1. k - 1 \in 1 .. n BY <3>2
      <4>2. t[k - 1] # "r" BY <1>5, <4>1 DEF Plain
      <4> QED BY <3>2, <4>2 DEF E!Before
    <3> QED BY <3>1, <3>2
  <2> QED BY <1>4, <2>1, <2>2 DEF Lf
<1> DEFINE T == {k \in 0 .. n : f[k] = SubSeq(t, 1, k)}
<1>7. 0 \in T BY <1>4
<1>8. ASSUME NEW k \in 1 .. n, k - 1 \in T PROVE k \in T
  <2>0. f[k - 1] = SubSeq(t, 1, k - 1) /\ k \in 0 .. n BY <1>8
  <2>1. k \in 0 .. n /\ f[k] = Append(SubSeq(t, 1, k - 1), t[k]) BY <1>6, <2>0
  <2>2. Append(SubSeq(t, 1, k - 1), t[k]) = SubSeq(t, 1, k) BY <1>3
  <2> QED BY <2>1, <2>2
<1> HIDE DEF T
<1>9. \A k \in 0 .. n : k \in T BY <1>7, <1>8, UpTo
<1>10. n \in 0 .. n OBVIOUS
<1>11. f[n] = SubSeq(t, 1, n) BY <1>9, <1>10 DEF T
<1>12. SubSeq(t, 1, n) = t BY <1>3
<1> QED BY <1>4, <1>11, <1>12 DEF Same

Ended(s, k, e) == IF s[k] = "n" THEN e ELSE << s[k] >>
Restores(s, e, f) ==
  /\ f \in [0 .. Len(s) -> Seq(Letters)] /\ f[0] = << >> /\ E!restore_line_endings(s, e) = f[Len(s)]
  /\ \A k \in 1 .. Len(s) : Ended(s, k, e) \in Seq(Letters) /\ f[k] = f[k - 1] \o Ended(s, k, e)

(* Line ends are restored from the first character to the last.              *)
LEMMA RestoreSteps ==
  ASSUME NEW s \in Seq(Letters), NEW e \in Seq(Letters)
  PROVE  \E f : Restores(s, e, f)
<1> DEFINE n == Len(s)
           Unfolds(g) == g = [k \in 0 .. Len(s) |->
             IF k = 0 THEN << >> ELSE g[k - 1] \o (IF s[k] = "n" THEN e ELSE << s[k] >>)]
           F == CHOOSE g : Unfolds(g)
           V == Seq(Letters)
           st == [x \in (1 .. n) \X V |-> x[2] \o Ended(s, x[1], e)]
<1>0. n \in Nat OBVIOUS
<1>1. \A k \in 1 .. n : Ended(s, k, e) \in V
  <2> TAKE k \in 1 .. n
  <2>1. s[k] \in Letters OBVIOUS
  <2>2. << s[k] >> \in V BY <2>1
  <2> QED BY <2>2 DEF Ended
<1>2. \A k \in 1 .. n : \A v \in V : st[<<k, v>>] \in V /\ st[<<k, v>>] = v \o Ended(s, k, e)
  <2> TAKE k \in 1 .. n
  <2> TAKE v \in V
  <2>1. PICK c \in V : c = Ended(s, k, e) BY <1>1
  <2>2. v \o c \in V OBVIOUS
  <2> QED BY <2>1, <2>2
<1>3. << >> \in V OBVIOUS
<1> HIDE DEF st, n, V
<1>4. Stepwise(n, V, << >>, st) BY <1>0, <1>2, <1>3, Recursion, Zenon
<1>5. PICK f \in [0 .. n -> V] : f[0] = << >> /\ \A k \in 1 .. n : f[k] = st[<<k, f[k - 1]>>]
  BY <1>4 DEF Stepwise
<1>6. \A k \in 0 .. n : f[k] = IF k = 0 THEN << >> ELSE f[k - 1] \o Ended(s, k, e)
  <2> TAKE k \in 0 .. n
  <2>1. CASE k = 0 BY <1>5, <2>1
  <2>2. CASE k # 0
    <3>1. k \in 1 .. n /\ k - 1 \in 0 .. n BY <1>0, <2>2
    <3>2. f[k] = st[<<k, f[k - 1]>>] /\ f[k - 1] \in V BY <1>5, <3>1
    <3> QED BY <1>2, <2>2, <3>1, <3>2
  <2> QED BY <2>1, <2>2
<1>7. Unfolds(f) BY <1>5, <1>6 DEF n, Ended
<1> HIDE DEF Unfolds
<1>8. Unfolds(F) BY <1>7, Zenon
<1> HIDE DEF F
<1>9. \A k \in 0 .. n : F[k] = IF k = 0 THEN << >> ELSE F[k - 1] \o Ended(s, k, e)
  BY <1>8 DEF Unfolds, n, Ended
<1>10. F[0] = << >> /\ \A k \in 1 .. n : F[k] = F[k - 1] \o Ended(s, k, e)
  <2>1. 0 \in 0 .. n /\ \A k \in 1 .. n : k \in 0 .. n /\ k # 0 BY <1>0
  <2> QED BY <1>9, <2>1
<1>11. \A k \in 0 .. n : F[k] \in V
  <2>1. F[0] \in V BY <1>3, <1>10
  <2>2. ASSUME NEW k \in 1 .. n, F[k - 1] \in V PROVE F[k] \in V
    <3>1. PICK v \in V, c \in V : v = F[k - 1] /\ c = Ended(s, k, e) BY <1>1, <2>2
    <3>2. v \o c \in V BY DEF V
    <3> QED BY <1>10, <3>1, <3>2
  <2> QED BY <1>0, <2>1, <2>2, Within
<1>12. F \in [0 .. n -> V]
  <2>1. F = [k \in 0 .. n |-> F[k]] BY <1>8 DEF Unfolds, n
  <2> QED BY <1>11, <2>1
<1>13. E!restore_line_endings(s, e) = F[n] BY Zenon DEF E!restore_line_endings, F, Unfolds, n
<1>14. Restores(s, e, F) BY <1>1, <1>10, <1>12, <1>13 DEF Restores, n, V
<1> QED BY <1>14

RestoredIs(t, e) == /\ E!restore_line_endings(t, e) \in Seq(Letters)
                    /\ E!normalize_to_lf(E!restore_line_endings(t, e)) = t
(* The text with plain line ends is as it was.                               *)
LEMMA PlainEnds ==
  ASSUME NEW t \in Seq(Plain)
  PROVE  Same(E!restore_line_endings(t, << "n" >>), t)
<1>1. t \in Seq(Letters) /\ << "n" >> \in Seq(Letters) BY DEF Plain, Letters
<1>2. PICK f : Restores(t, << "n" >>, f) BY <1>1, RestoreSteps
<1>3. PICK n \in Nat : n = Len(t) OBVIOUS
<1>4. /\ f[0] = << >> /\ E!restore_line_endings(t, << "n" >>) = f[n]
      /\ \A k \in 1 .. n : f[k] = f[k - 1] \o Ended(t, k, << "n" >>)
  BY <1>2, <1>3 DEF Restores
<1>5. \A k \in 1 .. n : f[k] = f[k - 1] \o << t[k] >> BY <1>4 DEF Ended
<1> DEFINE T == {k \in 0 .. n : f[k] = SubSeq(t, 1, k)}
<1>6. 0 \in T
  <2>1. SubSeq(t, 1, 0) = << >> /\ 0 \in 0 .. n OBVIOUS
  <2> QED BY <1>4, <2>1
<1>7. ASSUME NEW k \in 1 .. n, k - 1 \in T PROVE k \in T
  <2>1. f[k - 1] = SubSeq(t, 1, k - 1) /\ k \in 0 .. n BY <1>7
  <2>2. f[k] = SubSeq(t, 1, k - 1) \o << t[k] >> BY <1>5, <2>1
  <2>3. SubSeq(t, 1, k - 1) \o << t[k] >> = SubSeq(t, 1, k) BY <1>3
  <2> QED BY <2>1, <2>2, <2>3
<1> HIDE DEF T
<1>8. \A k \in 0 .. n : k \in T BY <1>6, <1>7, UpTo
<1>9. n \in 0 .. n OBVIOUS
<1>10. f[n] = SubSeq(t, 1, n) BY <1>8, <1>9 DEF T
<1>11. SubSeq(t, 1, n) = t BY <1>3
<1> QED BY <1>4, <1>10, <1>11 DEF Same

(* With either kind of line end, the text is normalized to what it was.      *)
LEMMA RestoredIsNormal ==
  ASSUME NEW t \in Seq(Plain), NEW e \in {<< "n" >>, << "r", "n" >>}
  PROVE  RestoredIs(t, e)
<1>1. t \in Seq(Letters) BY DEF Plain, Letters
<1>2. CASE e = << "n" >>
  <2>1. E!restore_line_endings(t, e) = t BY <1>2, PlainEnds DEF Same
  <2>2. E!normalize_to_lf(t) = t BY PlainIsNormal DEF Same
  <2> QED BY <1>1, <2>1, <2>2 DEF RestoredIs
<1>3. CASE e = << "r", "n" >>
  <2>1. e \in Seq(Letters) BY <1>3 DEF Letters
  <2>2. PICK g : Restores(t, e, g) BY <1>1, <2>1, RestoreSteps
  <2>3. PICK n \in Nat : n = Len(t) OBVIOUS
  <2> DEFINE cs == [k \in 1 .. n |-> Ended(t, k, e)]
  <2>4. Growing(Letters, n, cs, g) BY <2>2, <2>3 DEF Restores, Growing
  <2>5. \A k \in 1 .. n : cs[k] = Ended(t, k, e) OBVIOUS
  <2> HIDE DEF cs
  <2>6. g \in [0 .. n -> Seq(Letters)] /\ g[0] = << >> /\ E!restore_line_endings(t, e) = g[n]
    BY <2>2, <2>3 DEF Restores
  <2>7. PICK w \in Seq(Letters) : w = g[n]
    <3>1. n \in 0 .. n OBVIOUS
    <3> QED BY <2>6, <3>1
  <2>8. PICK f : Normalizes(w, f) BY NormalSteps
  <2>9. PICK m \in Nat : m = Len(w) OBVIOUS
  <2>10. /\ f \in [0 .. m -> Seq(Plain)] /\ f[0] = << >> /\ E!normalize_to_lf(w) = f[m]
         /\ \A k \in 1 .. m : f[k] = Lf(w, k, f[k - 1])
    BY <2>8, <2>9 DEF Normalizes
  <2> DEFINE T == {k \in 0 .. n : f[Len(g[k])] = SubSeq(t, 1, k)}
  <2>11. 0 \in T BY <2>6, <2>10
  <2>12. ASSUME NEW k \in 1 .. n, k - 1 \in T PROVE k \in T
    <3>1. k \in 0 .. n /\ k - 1 \in 0 .. n /\ f[Len(g[k - 1])] = SubSeq(t, 1, k - 1) BY <2>12
    <3>2. PICK a \in Seq(Letters), b \in Seq(Letters), c \in Seq(Letters) :
            a = g[k - 1] /\ b = g[k] /\ c = cs[k] /\ b = a \o c
      BY <2>4, <2>6, <3>1 DEF Growing
    <3>3. Extends(a, c, b) BY <3>2, ConcatExtends, Zenon
    <3>4. Len(b) <= m /\ \A i \in 1 .. Len(b) : w[i] = b[i]
      <4>0. \A y \in 0 .. n : \A x \in 0 .. y :
              Len(g[x]) <= Len(g[y]) /\ \A i \in 1 .. Len(g[x]) : g[y][i] = g[x][i]
        <5>1. Prefixes(n, g) BY <2>4, GrownStays
        <5> QED BY <5>1 DEF Prefixes
      <4>1. n \in 0 .. n /\ k \in 0 .. n OBVIOUS
      <4>2. Len(g[k]) <= Len(g[n]) /\ \A i \in 1 .. Len(g[k]) : g[n][i] = g[k][i]
        BY <4>0, <4>1, Zenon
      <4> QED BY <2>7, <2>9, <3>2, <4>2
    <3>5. PICK p \in Nat : p = Len(a) BY <3>3 DEF Extends
    <3>6. c = Ended(t, k, e) BY <2>5, <3>2
    <3>7. t[k] \in Plain BY <2>3
    <3>8. Append(SubSeq(t, 1, k - 1), t[k]) = SubSeq(t, 1, k) BY <2>3
    <3>9. f[p] = SubSeq(t, 1, k - 1) BY <3>1, <3>2, <3>5
    <3>10. CASE t[k] # "n"
      <4>1. c = << t[k] >> BY <3>6, <3>10 DEF Ended
      <4>2. Len(c) = 1 /\ c[1] = t[k] BY <4>1
      <4>3. Len(b) = p + 1 /\ b[p + 1] = t[k] BY <3>3, <3>5, <4>2 DEF Extends
      <4>4. p + 1 \in 1 .. m /\ p + 1 - 1 = p /\ w[p + 1] = t[k] BY <2>9, <3>4, <4>3
      <4>5. f[p + 1] = Lf(w, p + 1, f[p]) BY <2>10, <4>4
      <4>6. f[p + 1] = Append(f[p], t[k]) BY <3>7, <3>10, <4>4, <4>5 DEF Lf, Plain
      <4> QED BY <3>1, <3>2, <3>8, <3>9, <4>3, <4>6
    <3>11. CASE t[k] = "n"
      <4>1. c = << "r", "n" >> BY <1>3, <3>6, <3>11 DEF Ended
      <4>2. Len(c) = 2 /\ c[1] = "r" /\ c[2] = "n" BY <4>1
      <4>3. Len(b) = p + 2 /\ b[p + 1] = "r" /\ b[p + 2] = "n" BY <3>3, <3>5, <4>2 DEF Extends
      <4>4. /\ p + 1 \in 1 .. m /\ p + 1 - 1 = p /\ p + 2 \in 1 .. m /\ p + 2 - 1 = p + 1
            /\ p + 2 # 1 /\ w[p + 1] = "r" /\ w[p + 2] = "n"
        BY <2>9, <3>4, <4>3
      <4>5. f[p + 1] = Lf(w, p + 1, f[p]) /\ f[p + 2] = Lf(w, p + 2, f[p + 1]) BY <2>10, <4>4
      <4>6. f[p + 1] = Append(f[p], "n")
        <5>1. w[p + 1] # "n" BY <4>4
        <5> QED BY <4>4, <4>5, <5>1 DEF Lf
      <4>7. E!Before(w, p + 2) = "r" BY <4>4 DEF E!Before
      <4>8. f[p + 2] = f[p + 1] BY <4>4, <4>5, <4>7 DEF Lf
      <4> QED BY <3>1, <3>2, <3>8, <3>9, <3>11, <4>3, <4>6, <4>8
    <3> QED BY <3>10, <3>11
  <2> HIDE DEF T
  <2>13. \A k \in 0 .. n : k \in T BY <2>11, <2>12, UpTo
  <2>14. n \in 0 .. n OBVIOUS
  <2>15. f[Len(g[n])] = SubSeq(t, 1, n) BY <2>13, <2>14 DEF T
  <2>16. SubSeq(t, 1, n) = t BY <2>3
  <2>17. E!normalize_to_lf(w) = t BY <2>7, <2>9, <2>10, <2>15, <2>16
  <2> QED BY <2>6, <2>7, <2>17 DEF RestoredIs
<1> QED BY <1>2, <1>3

TailOf(x, c, e) == SubSeq(x \o c, e, Len(x \o c)) = SubSeq(x, e, Len(x)) \o c
(* What comes behind a place grows as the whole does.                        *)
LEMMA TailGrows ==
  ASSUME NEW U, NEW x \in Seq(U), NEW c \in Seq(U), NEW e \in Nat \ {0}, e <= Len(x) + 1
  PROVE  TailOf(x, c, e) /\ Len(x \o c) = Len(x) + Len(c)
<1>1. PICK m \in Nat, l \in Nat : m = Len(x) /\ l = Len(c) OBVIOUS
<1>2. PICK y \in Seq(U) : y = x \o c
  <2>1. x \o c \in Seq(U) BY ConcatProperties
  <2> QED BY <2>1
<1>3. /\ Len(y) = m + l /\ \A i \in 1 .. m : y[i] = x[i]
      /\ \A j \in 1 .. l : y[m + j] = c[j]
  <2>1. Extends(x, c, y) BY <1>2, ConcatExtends, Zenon
  <2> QED BY <1>1, <2>1 DEF Extends
<1>4. PICK d \in Nat : d = m - e + 1 BY <1>1
<1>5. PICK u \in Seq(U) : u = SubSeq(x, e, m)
  <2>1. \A i \in e .. m : x[i] \in U BY <1>1
  <2>2. SubSeq(x, e, m) \in Seq(U) BY <2>1, SubSeqProperties
  <2> QED BY <2>2
<1>6. Len(u) = d /\ \A j \in 1 .. d : u[j] = x[e + j - 1]
  BY <1>1, <1>4, <1>5
<1>7. PICK z \in Seq(U) : z = SubSeq(y, e, m + l)
  <2>1. \A i \in e .. m + l : y[i] \in U BY <1>3
  <2>2. SubSeq(y, e, m + l) \in Seq(U) BY <2>1, SubSeqProperties
  <2> QED BY <2>2
<1>8. Len(z) = d + l /\ \A j \in 1 .. d + l : z[j] = y[e + j - 1]
  BY <1>1, <1>3, <1>4, <1>7
<1>9. PICK v \in Seq(U) : v = u \o c
  <2>1. u \o c \in Seq(U) BY ConcatProperties
  <2> QED BY <2>1
<1>10. /\ Len(v) = d + l /\ \A i \in 1 .. d : v[i] = u[i]
       /\ \A j \in 1 .. l : v[d + j] = c[j]
  <2>1. Extends(u, c, v) BY <1>9, ConcatExtends, Zenon
  <2> QED BY <1>1, <1>6, <2>1 DEF Extends
<1>11. \A j \in 1 .. d + l : z[j] = v[j]
  <2> TAKE j \in 1 .. d + l
  <2>1. CASE j <= d
    <3>1. j \in 1 .. d /\ e + j - 1 \in 1 .. m BY <1>1, <1>4, <2>1
    <3> QED BY <1>3, <1>6, <1>8, <1>10, <3>1
  <2>2. CASE ~(j <= d)
    <3>1. PICK q \in 1 .. l : j = d + q
      <4>1. j - d \in 1 .. l /\ j = d + (j - d) BY <2>2
      <4> QED BY <4>1
    <3>2. e + j - 1 = m + q BY <1>1, <1>4, <3>1
    <3> QED BY <1>3, <1>8, <1>10, <3>1, <3>2
  <2> QED BY <2>1, <2>2
<1>12. z = v BY <1>8, <1>10, <1>11
<1> QED BY <1>1, <1>2, <1>3, <1>5, <1>7, <1>9, <1>12 DEF TailOf

\* the text x with what stands from a up to before e replaced
Put(x, a, e, new) == SubSeq(x, 1, a - 1) \o new \o SubSeq(x, e, Len(x))
\* as parts, where the part a stands for all that is replaced
Swapped(ps, qs, n, a, e, new) ==
  /\ n \in Nat /\ Len(ps) = n /\ Len(qs) = n /\ a \in 1 .. n /\ e \in a + 1 .. n + 1
  /\ \A j \in 1 .. e - 1 : Len(ps[j]) = 1
  /\ \A j \in 1 .. a - 1 : qs[j] = ps[j]
  /\ qs[a] = new /\ \A j \in a + 1 .. e - 1 : qs[j] = << >>
  /\ \A j \in e .. n : qs[j] = ps[j]

(* To replace a piece of a text is to replace the parts it is made of.       *)
LEMMA SwapPuts ==
  ASSUME NEW U, NEW ps \in Seq(Seq(U)), NEW qs \in Seq(Seq(U)), NEW n, NEW a, NEW e, NEW new \in Seq(U),
         Swapped(ps, qs, n, a, e, new)
  PROVE  Same(P!FlattenSeq(qs), Put(P!FlattenSeq(ps), a, e, new))
<1>0. n \in Nat /\ Len(ps) = n /\ Len(qs) = n /\ a \in 1 .. n /\ e \in a + 1 .. n + 1 BY DEF Swapped
<1>1. PICK f : Joins(U, ps, f) BY FlattenSteps
<1>2. PICK g : Joins(U, qs, g) BY FlattenSteps
<1>3. /\ f \in [0 .. n -> Seq(U)] /\ f[0] = << >> /\ P!FlattenSeq(ps) = f[n]
      /\ \A k \in 1 .. n : f[k] = f[k - 1] \o ps[k]
  BY <1>0, <1>1 DEF Joins
<1>4. /\ g \in [0 .. n -> Seq(U)] /\ g[0] = << >> /\ P!FlattenSeq(qs) = g[n]
      /\ \A k \in 1 .. n : g[k] = g[k - 1] \o qs[k]
  BY <1>0, <1>2 DEF Joins
<1>24. \A k \in 1 .. n : ps[k] \in Seq(U) BY <1>0
<1>5. PICK b \in Nat : b = a - 1 BY <1>0
<1>6. PICK h \in Nat : h = e - 1 BY <1>0
<1>7. b + 1 = a /\ h + 1 = e /\ b < h /\ h <= n /\ a \in Nat /\ e \in Nat /\ n \in Nat
  BY <1>0, <1>5, <1>6
<1> DEFINE T1 == {j \in 0 .. h : Len(f[j]) = j}
<1>8. \A j \in 0 .. h : j \in T1
  <2>1. 0 \in T1 BY <1>3
  <2>2. ASSUME NEW j \in 1 .. h, j - 1 \in T1 PROVE j \in T1
    <3>1. j \in 1 .. n /\ j - 1 \in 0 .. n /\ j \in 1 .. e - 1 /\ j \in 0 .. h BY <1>7
    <3>7. f[j - 1] \in Seq(U) /\ ps[j] \in Seq(U) BY <1>3, <1>24, <3>1
    <3>2. PICK x \in Seq(U), c \in Seq(U) : x = f[j - 1] /\ c = ps[j] BY <3>7
    <3>3. f[j] = x \o c BY <1>3, <3>1, <3>2
    <3>4. Len(x) = j - 1 /\ Len(c) = 1 BY <2>2, <3>1, <3>2 DEF Swapped
    <3>5. Len(x \o c) = Len(x) + Len(c) OBVIOUS
    <3>6. Len(f[j]) = j BY <3>3, <3>4, <3>5
    <3> QED BY <3>1, <3>6
  <2> HIDE DEF T1
  <2> QED BY <2>1, <2>2, UpTo
<1> DEFINE T2 == {j \in 0 .. b : g[j] = f[j]}
<1>9. \A j \in 0 .. b : j \in T2
  <2>1. 0 \in T2 BY <1>3, <1>4
  <2>2. ASSUME NEW j \in 1 .. b, j - 1 \in T2 PROVE j \in T2
    <3>1. j \in 1 .. n /\ j \in 1 .. a - 1 /\ j \in 0 .. b BY <1>5, <1>7
    <3>2. g[j - 1] = f[j - 1] BY <2>2
    <3>3. qs[j] = ps[j] BY <3>1 DEF Swapped
    <3>4. g[j] = g[j - 1] \o qs[j] /\ f[j] = f[j - 1] \o ps[j] BY <1>3, <1>4, <3>1
    <3>5. g[j] = f[j] BY <3>2, <3>3, <3>4
    <3> QED BY <3>1, <3>5
  <2> HIDE DEF T2
  <2> QED BY <2>1, <2>2, UpTo
<1>10. b \in 0 .. n /\ h \in 0 .. n /\ n \in 0 .. n /\ b \in 0 .. b /\ h \in 0 .. h /\ b \in 0 .. h BY <1>7
<1>11. PICK head \in Seq(U) : head = f[b] BY <1>3, <1>10
<1>12. Len(head) = b BY <1>8, <1>10, <1>11
<1>13. g[b] = head BY <1>9, <1>10, <1>11
<1>14. PICK mid \in Seq(U) : mid = head \o new
  <2>1. head \o new \in Seq(U) BY ConcatProperties
  <2> QED BY <2>1
<1>15. g[a] = mid
  <2>1. g[a] = g[a - 1] \o qs[a] BY <1>0, <1>4
  <2>2. qs[a] = new /\ a - 1 = b BY <1>5 DEF Swapped
  <2> QED BY <1>13, <1>14, <2>1, <2>2
<1>16. PICK w \in Nat : h = a + w
  <2>1. h - a \in Nat /\ h = a + (h - a) BY <1>7
  <2> QED BY <2>1
<1> DEFINE T3 == {d \in 0 .. w : g[a + d] = mid}
<1>17. \A d \in 0 .. w : d \in T3
  <2>1. 0 \in T3
    <3>1. a + 0 = a /\ 0 \in 0 .. w BY <1>7
    <3> QED BY <1>15, <3>1
  <2>2. ASSUME NEW d \in 1 .. w, d - 1 \in T3 PROVE d \in T3
    <3>0. h \in Nat /\ d \in Nat /\ 1 <= d /\ d <= w BY <1>7
    <3>1. /\ a + d \in 1 .. n /\ a + d \in a + 1 .. e - 1 /\ a + d - 1 = a + (d - 1) /\ d \in 0 .. w
      BY <1>7, <1>16, <3>0
    <3>2. g[a + (d - 1)] = mid BY <2>2
    <3>3. qs[a + d] = << >> BY <3>1 DEF Swapped
    <3>7. PICK j \in 1 .. n : j = a + d BY <3>1
    <3>4. g[j] = g[j - 1] \o qs[j] BY <1>4, Zenon
    <3>5. mid \o << >> = mid OBVIOUS
    <3>8. j - 1 = a + (d - 1) BY <1>7, <3>0, <3>7
    <3>6. g[a + d] = mid BY <3>2, <3>3, <3>4, <3>5, <3>7, <3>8
    <3> QED BY <3>1, <3>6
  <2> HIDE DEF T3
  <2> QED BY <2>1, <2>2, UpTo
<1>18. g[h] = mid
  <2>1. w \in 0 .. w OBVIOUS
  <2> QED BY <1>16, <1>17, <2>1
<1>19. PICK r \in Nat : n = h + r
  <2>1. PICK i \in Nat : i = n - h BY <1>7
  <2> QED BY <1>7, <2>1
<1> HIDE DEF T1, T2, T3
<1> DEFINE T4 == {d \in 0 .. r : /\ h <= Len(f[h + d])
                                /\ g[h + d] = mid \o SubSeq(f[h + d], e, Len(f[h + d]))}
<1>20. \A d \in 0 .. r : d \in T4
  <2>1. 0 \in T4
    <3>1. h + 0 = h /\ 0 \in 0 .. r BY <1>7
    <3>2. PICK x \in Seq(U) : x = f[h] BY <1>3, <1>10
    <3>3. Len(x) = h BY <1>8, <1>10, <3>2 DEF T1
    <3>4. SubSeq(x, e, h) = << >> BY <1>7
    <3>5. mid \o << >> = mid OBVIOUS
    <3> QED BY <1>7, <1>18, <3>1, <3>2, <3>3, <3>4, <3>5
  <2>2. ASSUME NEW d \in 1 .. r, d - 1 \in T4 PROVE d \in T4
    <3>1. /\ h + d \in 1 .. n /\ h + d \in e .. n /\ h + d - 1 = h + (d - 1) /\ d \in 0 .. r
          /\ h + (d - 1) \in 0 .. n
      BY <1>7, <1>19
    <3>12. PICK j \in 1 .. n : j = h + d BY <3>1
    <3>13. j - 1 = h + (d - 1) BY <3>1, <3>12
    <3>11. f[h + (d - 1)] \in Seq(U) /\ ps[j] \in Seq(U) BY <1>3, <1>24, <3>1
    <3>2. PICK x \in Seq(U), c \in Seq(U) : x = f[h + (d - 1)] /\ c = ps[j] BY <3>11
    <3>3. h <= Len(x) /\ g[h + (d - 1)] = mid \o SubSeq(x, e, Len(x)) BY <2>2, <3>2
    <3>4. f[h + d] = x \o c
      <4>1. f[j] = f[j - 1] \o ps[j] BY <1>3, Zenon
      <4> QED BY <3>2, <3>12, <3>13, <4>1
    <3>5. g[h + d] = (mid \o SubSeq(x, e, Len(x))) \o c
      <4>1. qs[j] = c BY <3>1, <3>2, <3>12 DEF Swapped
      <4>2. g[j] = g[j - 1] \o qs[j] BY <1>4, Zenon
      <4> QED BY <3>3, <3>12, <3>13, <4>1, <4>2
    <3>6. TailOf(x, c, e) /\ Len(x \o c) = Len(x) + Len(c)
      <4>1. e \in Nat \ {0} /\ e <= Len(x) + 1 BY <1>7, <3>3
      <4> QED BY <4>1, TailGrows
    <3>7. PICK y \in Seq(U) : y = SubSeq(x, e, Len(x))
      <4>1. Len(x) \in Int /\ \A i \in e .. Len(x) : x[i] \in U BY <1>7
      <4>2. SubSeq(x, e, Len(x)) \in Seq(U) BY <1>7, <4>1, SubSeqProperties
      <4> QED BY <4>2
    <3>8. (mid \o y) \o c = mid \o (y \o c) OBVIOUS
    <3>9. g[h + d] = mid \o SubSeq(x \o c, e, Len(x \o c)) BY <3>5, <3>6, <3>7, <3>8 DEF TailOf
    <3>10. h <= Len(x \o c)
      <4>1. Len(x) \in Nat /\ Len(c) \in Nat OBVIOUS
      <4> QED BY <1>7, <3>3, <3>6, <4>1
    <3> QED BY <3>1, <3>4, <3>9, <3>10
  <2> HIDE DEF T4
  <2> QED BY <2>1, <2>2, UpTo
<1>21. g[n] = mid \o SubSeq(f[n], e, Len(f[n]))
  <2>1. r \in 0 .. r OBVIOUS
  <2> QED BY <1>19, <1>20, <2>1
<1> HIDE DEF T4
<1>22. head = SubSeq(f[n], 1, b)
  <2>1. \A k \in 1 .. n : ps[k] \in Seq(U) BY <1>0
  <2>2. Growing(U, n, ps, f) BY <1>0, <1>3, <2>1 DEF Growing
  <2>3. Prefixes(n, f) BY <2>2, GrownStays
  <2>4. \A m \in 0 .. n : \A k \in 0 .. m :
          Len(f[k]) <= Len(f[m]) /\ \A i \in 1 .. Len(f[k]) : f[m][i] = f[k][i]
    BY <2>3 DEF Prefixes
  <2>5. Len(f[b]) <= Len(f[n]) /\ \A i \in 1 .. Len(f[b]) : f[n][i] = f[b][i] BY <1>10, <2>4, Zenon
  <2>6. PICK x \in Seq(U) : x = f[n] BY <1>3, <1>10
  <2>7. b <= Len(x) /\ \A i \in 1 .. b : x[i] = head[i] BY <1>11, <1>12, <2>5, <2>6
  <2>8. PICK y \in Seq(U) : y = SubSeq(x, 1, b)
    <3>1. \A i \in 1 .. b : x[i] \in U BY <2>7
    <3>2. SubSeq(x, 1, b) \in Seq(U) BY <3>1, SubSeqProperties
    <3> QED BY <3>2
  <2>9. Len(y) = b /\ \A i \in 1 .. b : y[i] = x[i] BY <2>7, <2>8
  <2>10. y = head
    <3>1. \A i \in 1 .. b : y[i] = head[i] BY <2>7, <2>9
    <3>2. Len(y) = b /\ Len(head) = b /\ y \in Seq(U) /\ head \in Seq(U) BY <1>12, <2>9
    <3> QED BY <3>1, <3>2
  <2> QED BY <2>6, <2>8, <2>10
<1>23. g[n] = SubSeq(f[n], 1, a - 1) \o new \o SubSeq(f[n], e, Len(f[n]))
  BY <1>5, <1>14, <1>21, <1>22
<1> QED BY <1>3, <1>4, <1>23 DEF Same, Put

(* A set of numbers has a least one.                                         *)
LEMMA LeastIs ==
  ASSUME NEW S0 \in SUBSET Nat, S0 # {}
  PROVE  E!Min(S0) \in S0
<1>1. PICK x \in S0 : \A y \in S0 : ~(<<y, x>> \in OpToRel(<, Nat))
  BY NatLessThanWellFounded, WFMin
<1>2. \A y \in S0 : x <= y
  <2> TAKE y \in S0
  <2>1. x \in Nat /\ y \in Nat /\ ~(y < x) BY <1>1 DEF OpToRel
  <2> QED BY <2>1
<1> QED BY <1>2 DEF E!Min

(* What is counted is somewhere.                                             *)
LEMMA CountedStands ==
  ASSUME NEW s \in Seq(Letters), NEW t, E!Places(s, t) = {}
  PROVE  E!count_occurrences(s, t) = 0
<1> DEFINE n == Len(s)
           none == [count |-> 0, start |-> 1]
           Counts(k, v) == IF k >= v.start /\ E!At(s, t, k)
                          THEN [count |-> v.count + 1, start |-> k + Len(t)] ELSE v
           Unfolds(g) == g = [k \in 0 .. Len(s) |->
             IF k = 0 THEN [count |-> 0, start |-> 1]
             ELSE LET so == g[k - 1]
                  IN  IF k >= so.start /\ E!At(s, t, k)
                      THEN [count |-> so.count + 1, start |-> k + Len(t)] ELSE so]
           F == CHOOSE g : Unfolds(g)
<1>0. n \in Nat OBVIOUS
<1>1. \A k \in 1 .. n : ~E!At(s, t, k) BY DEF E!Places
<1> DEFINE f == [k \in 0 .. n |-> none]
<1>2. Unfolds(f)
  <2>1. \A k \in 1 .. n : k - 1 \in 0 .. n /\ f[k - 1] = none BY <1>0
  <2>2. \A k \in 0 .. n : k # 0 => k \in 1 .. n BY <1>0
  <2> QED BY <1>1, <2>1, <2>2
<1> HIDE DEF Unfolds
<1>3. Unfolds(F) BY <1>2, Zenon
<1> HIDE DEF F
<1>4. F = [k \in 0 .. n |-> IF k = 0 THEN none ELSE Counts(k, F[k - 1])] BY <1>3 DEF Unfolds
<1> DEFINE T == {k \in 0 .. n : F[k] = none}
<1>5. 0 \in T BY <1>0, <1>4
<1>6. ASSUME NEW k \in 1 .. n, k - 1 \in T PROVE k \in T
  <2>1. k \in 0 .. n /\ k # 0 BY <1>0
  <2>2. F[k] = Counts(k, F[k - 1]) BY <1>4, <2>1
  <2>3. F[k] = F[k - 1] BY <1>1, <2>2
  <2> QED BY <1>6, <2>1, <2>3
<1> HIDE DEF T
<1>7. \A k \in 0 .. n : k \in T BY <1>0, <1>5, <1>6, UpTo
<1>8. F[n] = none BY <1>0, <1>7 DEF T
<1>9. E!count_occurrences(s, t) = F[n].count BY Zenon DEF E!count_occurrences, F, Unfolds, n
<1> QED BY <1>8, <1>9

\* the places of the replacements in the text, and what is put there
SpansFit(s, spans) ==
  /\ \A i \in DOMAIN spans : /\ spans[i].start \in Nat /\ spans[i].end \in Nat
                             /\ 1 <= spans[i].start /\ spans[i].start < spans[i].end
                             /\ spans[i].end <= Len(s) + 1 /\ spans[i].new \in Seq(Plain)
  /\ ~E!Overlap(spans)

\* the replacement of the character k, of those that start behind the place p
Covers(spans, p, k) == {i \in DOMAIN spans : p < spans[i].start /\ k \in spans[i].start .. spans[i].end - 1}
PartOf(s, spans, here, k) ==
  IF here = {} THEN << s[k] >>
  ELSE LET i == CHOOSE i \in here : TRUE
       IN  IF k = spans[i].start THEN spans[i].new ELSE << >>
Part(s, spans, p, k) == PartOf(s, spans, Covers(spans, p, k), k)
Parts(s, spans, p) == [k \in 1 .. Len(s) |-> Part(s, spans, p, k)]
After(s, spans, p) == P!FlattenSeq(Parts(s, spans, p))

(* Each character is kept, replaced or left out.                             *)
LEMMA PartsAreTexts ==
  ASSUME NEW s \in Seq(Plain), NEW spans, SpansFit(s, spans), NEW p
  PROVE  /\ Parts(s, spans, p) \in Seq(Seq(Plain)) /\ Len(Parts(s, spans, p)) = Len(s)
         /\ \A k \in 1 .. Len(s) : Parts(s, spans, p)[k] = Part(s, spans, p, k)
<1>1. PICK n \in Nat : n = Len(s) OBVIOUS
<1>2. ASSUME NEW k \in 1 .. n PROVE Part(s, spans, p, k) \in Seq(Plain)
  <2>1. << s[k] >> \in Seq(Plain)
    <3>1. s[k] \in Plain BY <1>1
    <3> QED BY <3>1
  <2>2. ASSUME Covers(spans, p, k) # {}
        PROVE  spans[CHOOSE i \in Covers(spans, p, k) : TRUE].new \in Seq(Plain)
    <3>1. (CHOOSE i \in Covers(spans, p, k) : TRUE) \in Covers(spans, p, k) BY <2>2
    <3>2. (CHOOSE i \in Covers(spans, p, k) : TRUE) \in DOMAIN spans BY <3>1 DEF Covers
    <3> QED BY <3>2 DEF SpansFit
  <2>3. << >> \in Seq(Plain) OBVIOUS
  <2> QED BY <2>1, <2>2, <2>3 DEF Part, PartOf
<1>3. [k \in 1 .. n |-> Part(s, spans, p, k)] \in [1 .. n -> Seq(Plain)] BY <1>2
<1>4. PICK ps \in [1 .. n -> Seq(Plain)] : ps = Parts(s, spans, p) BY <1>1, <1>3 DEF Parts
<1>5. ps \in Seq(Seq(Plain)) /\ Len(ps) = n OBVIOUS
<1>6. \A k \in 1 .. n : Parts(s, spans, p)[k] = Part(s, spans, p, k) BY <1>1 DEF Parts
<1> QED BY <1>1, <1>4, <1>5, <1>6

(* Nothing starts behind the end.                                            *)
LEMMA NothingReplaced ==
  ASSUME NEW s \in Seq(Plain), NEW spans, SpansFit(s, spans)
  PROVE  Same(After(s, spans, Len(s)), s)
<1>1. PICK n \in Nat : n = Len(s) OBVIOUS
<1>2. PICK ps \in Seq(Seq(Plain)) : ps = Parts(s, spans, n) BY <1>1, PartsAreTexts
<1>3. Len(ps) = n /\ \A k \in 1 .. n : ps[k] = Part(s, spans, n, k) BY <1>1, <1>2, PartsAreTexts
<1>4. ASSUME NEW k \in 1 .. n PROVE ps[k] = << s[k] >>
  <2>1. ASSUME NEW i \in Covers(spans, n, k) PROVE FALSE
    <3>1. i \in DOMAIN spans /\ n < spans[i].start BY DEF Covers
    <3>2. PICK a \in Nat, b \in Nat : a = spans[i].start /\ b = spans[i].end /\ a < b /\ b <= n + 1
      BY <1>1, <3>1 DEF SpansFit
    <3> QED BY <3>1, <3>2
  <2>2. Covers(spans, n, k) = {} BY <2>1
  <2> QED BY <1>3, <2>2 DEF Part, PartOf
<1>5. PICK f : Joins(Plain, ps, f) BY FlattenSteps
<1>6. /\ f[0] = << >> /\ P!FlattenSeq(ps) = f[n]
      /\ \A k \in 1 .. n : f[k] = f[k - 1] \o ps[k]
  BY <1>3, <1>5 DEF Joins
<1> DEFINE T == {k \in 0 .. n : f[k] = SubSeq(s, 1, k)}
<1>7. 0 \in T
  <2>1. SubSeq(s, 1, 0) = << >> /\ 0 \in 0 .. n OBVIOUS
  <2> QED BY <1>6, <2>1
<1>8. ASSUME NEW k \in 1 .. n, k - 1 \in T PROVE k \in T
  <2>1. f[k - 1] = SubSeq(s, 1, k - 1) /\ k \in 0 .. n BY <1>8
  <2>2. f[k] = SubSeq(s, 1, k - 1) \o << s[k] >> BY <1>4, <1>6, <2>1
  <2>3. SubSeq(s, 1, k - 1) \o << s[k] >> = SubSeq(s, 1, k) BY <1>1
  <2> QED BY <2>1, <2>2, <2>3
<1> HIDE DEF T
<1>9. \A k \in 0 .. n : k \in T BY <1>7, <1>8, UpTo
<1>10. n \in 0 .. n OBVIOUS
<1>11. f[n] = SubSeq(s, 1, n) BY <1>9, <1>10 DEF T
<1>12. SubSeq(s, 1, n) = s BY <1>1
<1> QED BY <1>1, <1>2, <1>6, <1>11, <1>12 DEF Same, After

(* The spans that start at or behind a place are done when those behind it   *)
(* were and the one that starts there is.                                    *)
LEMMA OneMoreReplaced ==
  ASSUME NEW s \in Seq(Plain), NEW spans, SpansFit(s, spans), NEW p \in 1 .. Len(s)
  PROVE  Same(After(s, spans, p - 1), E!Replaced(After(s, spans, p), spans, p))
<1>1. PICK n \in Nat : n = Len(s) OBVIOUS
<1>2. p \in Nat /\ 1 <= p /\ p <= n BY <1>1
<1>3. PICK ps \in Seq(Seq(Plain)) : ps = Parts(s, spans, p) BY PartsAreTexts
<1>4. PICK qs \in Seq(Seq(Plain)) : qs = Parts(s, spans, p - 1) BY PartsAreTexts
<1>5. Len(ps) = n /\ \A k \in 1 .. n : ps[k] = Part(s, spans, p, k) BY <1>1, <1>3, PartsAreTexts
<1>6. Len(qs) = n /\ \A k \in 1 .. n : qs[k] = Part(s, spans, p - 1, k) BY <1>1, <1>4, PartsAreTexts
<1>7. \A i \in DOMAIN spans : /\ spans[i].start \in Nat /\ spans[i].end \in Nat
                              /\ 1 <= spans[i].start /\ spans[i].start < spans[i].end
                              /\ spans[i].end <= n + 1 /\ spans[i].new \in Seq(Plain)
  BY <1>1 DEF SpansFit
<1>8. \A i, j \in DOMAIN spans : i # j /\ spans[i].start <= spans[j].start => spans[i].end <= spans[j].start
  BY <1>7 DEF SpansFit, E!Overlap
<1> DEFINE here == {i \in DOMAIN spans : spans[i].start = p}
<1>9. CASE here = {}
  <2>1. ASSUME NEW k \in 1 .. n PROVE Covers(spans, p, k) = Covers(spans, p - 1, k)
    <3>1. \A i \in DOMAIN spans : p < spans[i].start <=> p - 1 < spans[i].start BY <1>2, <1>7, <1>9
    <3> QED BY <3>1 DEF Covers
  <2>2. Parts(s, spans, p) = Parts(s, spans, p - 1)
    <3>1. \A k \in 1 .. n : Part(s, spans, p, k) = Part(s, spans, p - 1, k) BY <2>1 DEF Part
    <3> QED BY <1>1, <3>1 DEF Parts
  <2>3. E!Replaced(After(s, spans, p), spans, p) = After(s, spans, p) BY <1>9 DEF E!Replaced
  <2> QED BY <2>2, <2>3 DEF Same, After
<1>10. CASE here # {}
  <2>1. PICK o \in here : o = CHOOSE i \in here : TRUE BY <1>10
  <2>2. o \in DOMAIN spans /\ spans[o].start = p OBVIOUS
  <2>3. PICK e \in Nat : e = spans[o].end BY <1>7, <2>2
  <2>4. PICK new \in Seq(Plain) : new = spans[o].new BY <1>7, <2>2
  <2>5. p < e /\ e <= n + 1 BY <1>7, <2>2, <2>3
  <2>6. \A i \in DOMAIN spans : i # o /\ p <= spans[i].start => e <= spans[i].start BY <1>8, <2>2, <2>3
  <2>7. ASSUME NEW k \in 1 .. n, k < e PROVE ps[k] = << s[k] >>
    <3>1. ASSUME NEW i \in Covers(spans, p, k) PROVE FALSE
      <4>1. i \in DOMAIN spans /\ p < spans[i].start /\ k \in spans[i].start .. spans[i].end - 1
        BY DEF Covers
      <4>2. PICK a \in Nat : a = spans[i].start BY <1>7, <4>1
      <4>3. i # o /\ p <= a /\ a <= k BY <1>2, <1>7, <2>2, <4>1, <4>2
      <4>4. e <= a BY <2>6, <4>1, <4>2, <4>3
      <4> QED BY <2>7, <4>2, <4>3, <4>4
    <3>2. Covers(spans, p, k) = {} BY <3>1
    <3> QED BY <1>5, <3>2 DEF Part, PartOf
  <2>8. ASSUME NEW k \in 1 .. n, k < p PROVE qs[k] = << s[k] >>
    <3>1. ASSUME NEW i \in Covers(spans, p - 1, k) PROVE FALSE
      <4>1. i \in DOMAIN spans /\ p - 1 < spans[i].start /\ k \in spans[i].start .. spans[i].end - 1
        BY DEF Covers
      <4>2. PICK a \in Nat, b \in Nat : a = spans[i].start /\ b = spans[i].end BY <1>7, <4>1
      <4> QED BY <1>2, <2>8, <4>1, <4>2
    <3>2. Covers(spans, p - 1, k) = {} BY <3>1
    <3> QED BY <1>6, <3>2 DEF Part, PartOf
  <2>9. ASSUME NEW k \in 1 .. n, p <= k, k < e
        PROVE  qs[k] = IF k = p THEN new ELSE << >>
    <3>1. o \in Covers(spans, p - 1, k) BY <1>2, <2>2, <2>3, <2>9 DEF Covers
    <3>2. ASSUME NEW i \in Covers(spans, p - 1, k) PROVE i = o
      <4>1. i \in DOMAIN spans /\ p - 1 < spans[i].start /\ k \in spans[i].start .. spans[i].end - 1
        BY DEF Covers
      <4>2. PICK a \in Nat, b \in Nat : a = spans[i].start /\ b = spans[i].end BY <1>7, <4>1
      <4>3. p <= a /\ a <= k BY <1>2, <4>1, <4>2
      <4>4. CASE i # o
        <5>1. e <= a BY <2>6, <4>1, <4>2, <4>3, <4>4
        <5> QED BY <2>9, <4>2, <4>3, <5>1
      <4> QED BY <4>4
    <3>3. Covers(spans, p - 1, k) = {o} BY <3>1, <3>2
    <3>4. (CHOOSE i \in {o} : TRUE) = o OBVIOUS
    <3>5. qs[k] = Part(s, spans, p - 1, k) BY <1>6
    <3> QED BY <2>2, <2>4, <3>3, <3>4, <3>5 DEF Part, PartOf
  <2>10. ASSUME NEW k \in 1 .. n, e <= k PROVE qs[k] = ps[k]
    <3>1. ASSUME NEW i \in DOMAIN spans, k \in spans[i].start .. spans[i].end - 1
          PROVE  p < spans[i].start <=> p - 1 < spans[i].start
      <4>1. PICK a \in Nat, b \in Nat : a = spans[i].start /\ b = spans[i].end BY <1>7
      <4>2. i # o BY <2>3, <2>5, <2>10, <3>1
      <4>3. a # p BY <2>5, <2>6, <4>1, <4>2
      <4> QED BY <1>2, <4>1, <4>3
    <3>2. Covers(spans, p, k) = Covers(spans, p - 1, k) BY <3>1 DEF Covers
    <3> QED BY <1>5, <1>6, <3>2 DEF Part
  <2>11. Swapped(ps, qs, n, p, e, new)
    <3>1. p \in 1 .. n /\ e \in p + 1 .. n + 1 BY <1>2, <2>5
    <3>2. ASSUME NEW j \in 1 .. e - 1 PROVE Len(ps[j]) = 1
      <4>1. j \in 1 .. n /\ j < e BY <2>5
      <4>2. ps[j] = << s[j] >> BY <2>7, <4>1
      <4> QED BY <4>2
    <3>3. ASSUME NEW j \in 1 .. p - 1 PROVE qs[j] = ps[j]
      <4>1. j \in 1 .. n /\ j < p /\ j < e BY <1>2, <2>5
      <4> QED BY <2>7, <2>8, <4>1
    <3>4. qs[p] = new BY <1>2, <2>5, <2>9, <3>1
    <3>5. ASSUME NEW j \in p + 1 .. e - 1 PROVE qs[j] = << >>
      <4>1. j \in 1 .. n /\ p <= j /\ j < e /\ j # p BY <1>2, <2>5
      <4> QED BY <2>9, <4>1
    <3>6. ASSUME NEW j \in e .. n PROVE qs[j] = ps[j]
      <4>1. j \in 1 .. n /\ e <= j BY <1>2, <2>5
      <4> QED BY <2>10, <4>1
    <3> QED BY <1>5, <1>6, <3>1, <3>2, <3>3, <3>4, <3>5, <3>6 DEF Swapped
  <2>12. P!FlattenSeq(qs) = Put(P!FlattenSeq(ps), p, e, new) BY <2>11, SwapPuts DEF Same
  <2>13. E!Replaced(After(s, spans, p), spans, p) = Put(P!FlattenSeq(ps), p, e, new)
    <3>1. here = {i \in DOMAIN spans : spans[i].start = p} OBVIOUS
    <3> HIDE DEF here
    <3>2. E!Replaced(After(s, spans, p), spans, p) =
            SubSeq(After(s, spans, p), 1, spans[o].start - 1) \o spans[o].new
              \o SubSeq(After(s, spans, p), spans[o].end, Len(After(s, spans, p)))
      BY <1>10, <2>1, <3>1 DEF E!Replaced
    <3> QED BY <1>3, <2>2, <2>3, <2>4, <3>2 DEF Put, After
  <2> QED BY <1>4, <2>12, <2>13 DEF Same, After
<1> QED BY <1>9, <1>10

(* The spans are replaced one after the other, from the last to the first.   *)
LEMMA SplicedIsAfter ==
  ASSUME NEW s \in Seq(Plain), NEW spans, SpansFit(s, spans)
  PROVE  Same(E!Spliced(s, spans), After(s, spans, 0))
<1> DEFINE n == Len(s)
           Unfolds(g) == g = [k \in 0 .. Len(s) |->
             IF k = 0 THEN s ELSE E!Replaced(g[k - 1], spans, Len(s) + 1 - k)]
           F == CHOOSE g : Unfolds(g)
           f == [k \in 0 .. n |-> After(s, spans, n - k)]
<1>0. n \in Nat OBVIOUS
<1>1. f[0] = s
  <2>1. n - 0 = n /\ 0 \in 0 .. n BY <1>0
  <2>2. After(s, spans, n) = s BY NothingReplaced DEF Same
  <2> QED BY <2>1, <2>2
<1>2. \A k \in 1 .. n : f[k] = E!Replaced(f[k - 1], spans, n + 1 - k)
  <2> TAKE k \in 1 .. n
  <2>1. PICK p \in 1 .. n : p = n + 1 - k BY <1>0
  <2>2. k \in 0 .. n /\ k - 1 \in 0 .. n /\ n - k = p - 1 /\ n - (k - 1) = p BY <1>0, <2>1
  <2>3. After(s, spans, p - 1) = E!Replaced(After(s, spans, p), spans, p)
    BY OneMoreReplaced DEF Same
  <2>4. f[k] = After(s, spans, p - 1) /\ f[k - 1] = After(s, spans, p) BY <2>2
  <2> QED BY <2>1, <2>3, <2>4
<1>3. f = [k \in 0 .. n |-> f[k]] OBVIOUS
<1> HIDE DEF f
<1>4. Unfolds(f)
  <2>1. \A k \in 0 .. n : f[k] = IF k = 0 THEN s ELSE E!Replaced(f[k - 1], spans, n + 1 - k)
    <3> TAKE k \in 0 .. n
    <3>1. CASE k = 0 BY <1>1, <3>1
    <3>2. CASE k # 0
      <4>1. k \in 1 .. n BY <1>0, <3>2
      <4> QED BY <1>2, <3>2, <4>1
    <3> QED BY <3>1, <3>2
  <2> QED BY <1>3, <2>1
<1> HIDE DEF Unfolds
<1>5. Unfolds(F) BY <1>4, Zenon
<1> HIDE DEF F
<1>6. F = [k \in 0 .. n |-> IF k = 0 THEN s ELSE E!Replaced(F[k - 1], spans, n + 1 - k)]
  BY <1>5 DEF Unfolds
<1> DEFINE T == {k \in 0 .. n : F[k] = f[k]}
<1>7. 0 \in T BY <1>0, <1>1, <1>6
<1>8. ASSUME NEW k \in 1 .. n, k - 1 \in T PROVE k \in T
  <2>1. k \in 0 .. n /\ k # 0 BY <1>0
  <2>2. F[k - 1] = f[k - 1] BY <1>8
  <2>3. F[k] = E!Replaced(F[k - 1], spans, n + 1 - k) BY <1>6, <2>1
  <2>4. F[k] = f[k] BY <1>2, <2>2, <2>3
  <2> QED BY <2>1, <2>4
<1> HIDE DEF T
<1>9. \A k \in 0 .. n : k \in T BY <1>0, <1>7, <1>8, UpTo
<1>10. F[n] = f[n] BY <1>0, <1>9 DEF T
<1>11. f[n] = After(s, spans, 0)
  <2>1. n - n = 0 /\ n \in 0 .. n BY <1>0
  <2> QED BY <2>1 DEF f
<1>12. E!Spliced(s, spans) = F[n] BY Zenon DEF E!Spliced, F, Unfolds, n
<1> QED BY <1>10, <1>11, <1>12 DEF Same

(* What is made of the parts is a text again.                                *)
LEMMA AfterIsText ==
  ASSUME NEW s \in Seq(Plain), NEW spans, SpansFit(s, spans), NEW p
  PROVE  After(s, spans, p) \in Seq(Plain)
<1>1. PICK ps \in Seq(Seq(Plain)) : ps = Parts(s, spans, p) BY PartsAreTexts
<1>2. PICK f : Joins(Plain, ps, f) BY FlattenSteps
<1>3. Len(ps) \in 0 .. Len(ps) OBVIOUS
<1>4. f[Len(ps)] \in Seq(Plain) BY <1>2, <1>3 DEF Joins
<1> QED BY <1>1, <1>2, <1>4 DEF Joins, After

Asked == [old : Seq(STRING), new : Seq(STRING)]
AsksFor(edits) == \A i \in DOMAIN edits : edits[i] \in Asked
\* the replacements as the code works with them
WantedIn(edits) == [i \in DOMAIN edits |-> [old |-> E!normalize_to_lf(edits[i].old),
                                            new |-> E!normalize_to_lf(edits[i].new)]]
SpansOf(s, edits) == [i \in DOMAIN edits |-> E!Span(s, WantedIn(edits)[i])]
FoundOnce(s, edits) ==
  \A i \in DOMAIN edits : WantedIn(edits)[i].old # << >> /\ E!count_occurrences(s, WantedIn(edits)[i].old) = 1

(* What the code finds fits into the text.                                   *)
LEMMA FoundFits ==
  ASSUME NEW s \in Seq(Plain), NEW edits, AsksFor(edits), FoundOnce(s, edits),
         ~E!Overlap(SpansOf(s, edits))
  PROVE  SpansFit(s, SpansOf(s, edits))
<1>1. s \in Seq(Letters) BY DEF Plain, Letters
<1>2. ASSUME NEW i \in DOMAIN edits
      PROVE  LET x == SpansOf(s, edits)[i]
             IN  /\ x.start \in Nat /\ x.end \in Nat /\ 1 <= x.start /\ x.start < x.end
                 /\ x.end <= Len(s) + 1 /\ x.new \in Seq(Plain)
  <2>1. edits[i].old \in Seq(Letters) /\ edits[i].new \in Seq(Letters)
    <3>1. edits[i].old \in Seq(STRING) /\ edits[i].new \in Seq(STRING) BY DEF AsksFor, Asked
    <3> QED BY <3>1 DEF Letters
  <2>2. PICK old \in Seq(Plain), new \in Seq(Plain) :
          old = E!normalize_to_lf(edits[i].old) /\ new = E!normalize_to_lf(edits[i].new)
    <3>1. E!normalize_to_lf(edits[i].old) \in Seq(Plain) BY <2>1, NormalIsPlain
    <3>2. E!normalize_to_lf(edits[i].new) \in Seq(Plain) BY <2>1, NormalIsPlain
    <3> QED BY <3>1, <3>2
  <2>3. WantedIn(edits)[i] = [old |-> old, new |-> new] BY <2>2 DEF WantedIn
  <2>4. old # << >> /\ E!count_occurrences(s, old) = 1 BY <2>3 DEF FoundOnce
  <2>5. E!Places(s, old) # {} /\ E!Places(s, old) \in SUBSET Nat
    <3>1. E!Places(s, old) # {} BY <1>1, <2>4, CountedStands
    <3> QED BY <3>1 DEF E!Places
  <2>6. PICK a \in E!Places(s, old) : a = E!Min(E!Places(s, old)) BY <2>5, LeastIs
  <2>7. a \in 1 .. Len(s) /\ a + Len(old) - 1 <= Len(s) BY DEF E!Places, E!At
  <2>8. PICK l \in Nat \ {0} : l = Len(old) BY <2>4
  <2>9. SpansOf(s, edits)[i] = [start |-> a, end |-> a + l, new |-> new]
    BY <2>3, <2>6, <2>8 DEF SpansOf, E!Span
  <2>10. a \in Nat /\ a + l \in Nat /\ 1 <= a /\ a < a + l /\ a + l <= Len(s) + 1 BY <2>7, <2>8
  <2> QED BY <2>9, <2>10
<1>3. DOMAIN SpansOf(s, edits) = DOMAIN edits BY DEF SpansOf
<1> QED BY <1>2, <1>3 DEF SpansFit

(* The parts of the whole are those that the edits mean.                     *)
LEMMA AfterIsMeant ==
  ASSUME NEW s \in Seq(Plain), NEW edits, AsksFor(edits), SpansFit(s, SpansOf(s, edits))
  PROVE  Same(After(s, SpansOf(s, edits), 0), E!Meant(s, edits))
<1> DEFINE spans == SpansOf(s, edits)
           place(i) == E!Min(E!Places(s, E!normalize_to_lf(edits[i].old)))
           size(i)  == Len(E!normalize_to_lf(edits[i].old))
           held(k)  == LET here == {i \in DOMAIN edits : k \in place(i) .. place(i) + size(i) - 1}
                       IN  IF here = {} THEN << s[k] >>
                           ELSE LET i == CHOOSE i \in here : TRUE
                                IN  IF k = place(i) THEN E!normalize_to_lf(edits[i].new) ELSE << >>
<1>1. DOMAIN spans = DOMAIN edits BY DEF SpansOf
<1>2. \A i \in DOMAIN edits : /\ spans[i].start = place(i) /\ spans[i].end = place(i) + size(i)
                              /\ spans[i].new = E!normalize_to_lf(edits[i].new)
  BY DEF SpansOf, E!Span, WantedIn
<1>3. \A i \in DOMAIN edits : spans[i].start \in Nat /\ 1 <= spans[i].start BY <1>1 DEF SpansFit
<1>9. \A i \in DOMAIN edits : size(i) \in Nat
  <2> TAKE i \in DOMAIN edits
  <2>1. edits[i].old \in Seq(Letters)
    <3>1. edits[i].old \in Seq(STRING) BY DEF AsksFor, Asked
    <3> QED BY <3>1 DEF Letters
  <2>2. E!normalize_to_lf(edits[i].old) \in Seq(Plain) BY <2>1, NormalIsPlain
  <2> QED BY <2>2
<1>4. ASSUME NEW k \in 1 .. Len(s) PROVE Part(s, spans, 0, k) = held(k)
  <2> HIDE DEF spans, place, size
  <2>1. Covers(spans, 0, k) = {i \in DOMAIN edits : k \in place(i) .. place(i) + size(i) - 1}
    <3>1. \A i \in DOMAIN edits : 0 < spans[i].start BY <1>3
    <3>2. \A i \in DOMAIN edits :
            k \in spans[i].start .. spans[i].end - 1 <=> k \in place(i) .. place(i) + size(i) - 1
      <4> TAKE i \in DOMAIN edits
      <4>1. spans[i].start = place(i) /\ spans[i].end = place(i) + size(i) BY <1>2
      <4>2. PICK a \in Nat, z \in Nat : a = place(i) /\ z = size(i) BY <1>3, <1>9, <4>1
      <4>3. spans[i].start = a /\ spans[i].end = a + z BY <4>1, <4>2
      <4>4. k \in a .. (a + z) - 1 <=> k \in a .. a + z - 1 BY <4>2
      <4> QED BY <4>2, <4>3, <4>4
    <3>3. Covers(spans, 0, k) = {i \in DOMAIN edits : k \in spans[i].start .. spans[i].end - 1}
      BY <1>1, <3>1 DEF Covers
    <3> QED BY <3>2, <3>3, Zenon
  <2>2. PICK here : here = {i \in DOMAIN edits : k \in place(i) .. place(i) + size(i) - 1} OBVIOUS
  <2>3. CASE here = {} BY <2>1, <2>2, <2>3 DEF Part, PartOf
  <2>4. CASE here # {}
    <3>1. PICK j \in DOMAIN edits : j = CHOOSE i \in here : TRUE BY <2>2, <2>4
    <3>2. Part(s, spans, 0, k) = IF k = spans[j].start THEN spans[j].new ELSE << >>
      <4>1. Part(s, spans, 0, k) = PartOf(s, spans, here, k) BY <2>1, <2>2, Zenon DEF Part
      <4> QED BY <2>4, <3>1, <4>1 DEF PartOf
    <3>3. held(k) = IF k = place(j) THEN E!normalize_to_lf(edits[j].new) ELSE << >>
      BY <2>2, <2>4, <3>1
    <3> QED BY <1>2, <3>2, <3>3
  <2> QED BY <2>3, <2>4
<1> HIDE DEF spans
<1>5. Parts(s, spans, 0) = [k \in 1 .. Len(s) |-> held(k)] BY <1>4 DEF Parts
<1>6. E!Meant(s, edits) = E!FlattenSeq([k \in 1 .. Len(s) |-> held(k)]) BY Zenon DEF E!Meant
<1>7. E!FlattenSeq([k \in 1 .. Len(s) |-> held(k)]) = P!FlattenSeq([k \in 1 .. Len(s) |-> held(k)])
  BY Zenon DEF E!FlattenSeq, P!FlattenSeq
<1>8. After(s, spans, 0) = E!Meant(s, edits) BY <1>5, <1>6, <1>7 DEF After
<1> QED BY <1>8 DEF Same, spans

Applies(s, edits) ==
  LET new == E!apply_edits_to_normalized_content(s, edits)
  IN  new.ok => new.text \in Seq(Plain) /\ new.text = E!Meant(s, edits)
(* What is applied is what was meant.                                        *)
LEMMA AppliedIsMeant ==
  ASSUME NEW s \in Seq(Plain), NEW edits, AsksFor(edits)
  PROVE  Applies(s, edits)
<1> DEFINE new == E!apply_edits_to_normalized_content(s, edits)
           wanted == WantedIn(edits)
           spans == SpansOf(s, edits)
<1>1. DOMAIN wanted = DOMAIN edits BY DEF WantedIn
<1>2. spans = [i \in DOMAIN wanted |-> E!Span(s, wanted[i])] BY <1>1 DEF SpansOf
<1>3. new = IF \E i \in DOMAIN wanted : wanted[i].old = << >> THEN E!Fails("empty")
            ELSE IF \E i \in DOMAIN wanted : E!count_occurrences(s, wanted[i].old) # 1 THEN E!Fails("not once")
            ELSE IF E!Overlap(spans) THEN E!Fails("overlap")
            ELSE IF E!Spliced(s, spans) = s THEN E!Fails("no change")
            ELSE [ok |-> TRUE, text |-> E!Spliced(s, spans)]
  <2>1. wanted = [i \in DOMAIN edits |-> [old |-> E!normalize_to_lf(edits[i].old),
                                          new |-> E!normalize_to_lf(edits[i].new)]]
    BY DEF WantedIn
  <2> HIDE DEF wanted, spans
  <2> QED BY <1>2, <2>1 DEF E!apply_edits_to_normalized_content
<1> HIDE DEF new, wanted, spans
<1>4. SUFFICES ASSUME new.ok PROVE new.text \in Seq(Plain) /\ new.text = E!Meant(s, edits)
  BY DEF Applies, new
<1>5. ~E!Fails("empty").ok /\ ~E!Fails("not once").ok /\ ~E!Fails("overlap").ok /\ ~E!Fails("no change").ok
  BY DEF E!Fails
<1>6. /\ ~\E i \in DOMAIN wanted : wanted[i].old = << >>
      /\ ~\E i \in DOMAIN wanted : E!count_occurrences(s, wanted[i].old) # 1
      /\ ~E!Overlap(spans) /\ new = [ok |-> TRUE, text |-> E!Spliced(s, spans)]
  BY <1>3, <1>4, <1>5
<1>7. FoundOnce(s, edits) BY <1>1, <1>6 DEF FoundOnce, wanted
<1>8. SpansFit(s, SpansOf(s, edits)) BY <1>6, <1>7, FoundFits DEF spans
<1>9. E!Spliced(s, SpansOf(s, edits)) = After(s, SpansOf(s, edits), 0) BY <1>8, SplicedIsAfter DEF Same
<1>10. After(s, SpansOf(s, edits), 0) = E!Meant(s, edits) BY <1>8, AfterIsMeant DEF Same
<1>11. After(s, SpansOf(s, edits), 0) \in Seq(Plain) BY <1>8, AfterIsText
<1>12. new.text = E!Spliced(s, SpansOf(s, edits)) BY <1>6 DEF spans
<1> QED BY <1>9, <1>10, <1>11, <1>12

\* a call of the edit tool or the write tool
CallsMade == [at : {"no", "asked", "done"}, edits : Seq(Asked),
              found : Seq(Letters) \union {None}, result : {"ok", "failed", None}]
EditInv == file \in Seq(Letters) \union {None} /\ call \in [Editors -> CallsMade]

(* A text that is read is normalized, once more or not.                      *)
LEMMA ReadIsNormal ==
  ASSUME NEW s \in Seq(Letters)
  PROVE  /\ E!normalize_to_lf(s) \in Seq(Plain)
         /\ E!normalize_to_lf(E!read_text(s)) = E!normalize_to_lf(s)
<1>1. PICK t \in Seq(Plain) : t = E!normalize_to_lf(s) BY NormalIsPlain
<1>2. E!normalize_to_lf(t) = t BY PlainIsNormal DEF Same
<1> QED BY <1>1, <1>2 DEF E!read_text

\* what a step does for one call
Means(c) ==
  call[c].at = "asked" /\ call'[c].at = "done" =>
    IF call'[c].result = "ok"
    THEN E!normalize_to_lf(file') = E!Meant(E!normalize_to_lf(file), call[c].edits)
    ELSE file' = file
\* and for all of them, which keeps the types
EditStep == EditInv' /\ \A c \in Editors : Means(c)

(* Only the call that takes a step ends with it.                             *)
LEMMA OthersWait ==
  ASSUME EditInv, NEW c \in Editors, NEW m, call' = [call EXCEPT ![c] = m]
  PROVE  \A d \in Editors \ {c} : Means(d)
<1> TAKE d \in Editors \ {c}
<1>1. call'[d] = call[d] BY DEF EditInv
<1>2. call[d].at = "asked" => call'[d].at # "done" BY <1>1
<1> QED BY <1>2 DEF Means

(* An edit is applied as it was meant, and the file keeps its line ends.     *)
LEMMA ApplyMeans ==
  ASSUME EditInv, NEW c \in Editors, E!Apply(c)
  PROVE  EditStep
<1>1. call[c] \in CallsMade /\ call[c].at = "asked" BY DEF EditInv, E!Apply
<1>2. PICK edits \in Seq(Asked) : edits = call[c].edits BY <1>1 DEF CallsMade
<1>3. CASE file = None
  <2>1. /\ call' = [call EXCEPT ![c] = [call[c] EXCEPT !.at = "done", !.result = "failed"]]
        /\ file' = file
    BY <1>3 DEF E!Apply, EditInv
  <2>2. [call[c] EXCEPT !.at = "done", !.result = "failed"] \in CallsMade BY <1>1 DEF CallsMade
  <2>3. EditInv' BY <2>1, <2>2 DEF EditInv
  <2>4. Means(c) BY <2>1 DEF Means
  <2>5. \A d \in Editors \ {c} : Means(d) BY <2>1, OthersWait
  <2> QED BY <2>3, <2>4, <2>5 DEF EditStep
<1>4. CASE file # None
  <2>1. PICK s \in Seq(Letters) : s = file BY <1>4 DEF EditInv
  <2>2. PICK t \in Seq(Plain) : t = E!normalize_to_lf(s) BY NormalIsPlain
  <2>3. E!normalize_to_lf(E!read_text(s)) = t BY <2>2, ReadIsNormal
  <2>4. PICK ending \in {<< "n" >>, << "r", "n" >>} : ending = E!detect_line_ending(E!read_text(s))
    BY DEF E!detect_line_ending
  <2>5. PICK new : new = E!apply_edits_to_normalized_content(t, edits) OBVIOUS
  <2>6. AsksFor(edits) BY DEF AsksFor
  <2>7. new.ok => new.text \in Seq(Plain) /\ new.text = E!Meant(t, edits)
    BY <2>5, <2>6, AppliedIsMeant DEF Applies
  <2> DEFINE m == [call[c] EXCEPT !.at = "done", !.found = file,
                                  !.result = IF new.ok THEN "ok" ELSE "failed"]
  <2>8. /\ call' = [call EXCEPT ![c].at = "done", ![c].found = file,
                                ![c].result = IF new.ok THEN "ok" ELSE "failed"]
        /\ file' = IF new.ok THEN E!restore_line_endings(new.text, ending) ELSE file
    BY <1>2, <1>4, <2>1, <2>3, <2>4, <2>5 DEF E!Apply
  <2>9. call' = [call EXCEPT ![c] = m] BY <2>8
  <2>10. m \in CallsMade
    <3>1. (IF new.ok THEN "ok" ELSE "failed") \in {"ok", "failed"} OBVIOUS
    <3>2. file \in Seq(Letters) \union {None} BY DEF EditInv
    <3> QED BY <1>1, <3>1, <3>2 DEF CallsMade
  <2>11. m.result = "ok" => new.ok BY <1>1 DEF CallsMade
  <2>12. m.result # "ok" => ~new.ok BY <1>1 DEF CallsMade
  <2> HIDE DEF m
  <2>13. call'[c] = m BY <2>9 DEF EditInv
  <2>14. CASE new.ok
    <3>1. PICK u \in Seq(Plain) : u = new.text /\ u = E!Meant(t, edits) BY <2>7, <2>14
    <3>2. RestoredIs(u, ending) BY RestoredIsNormal
    <3>3. file' = E!restore_line_endings(u, ending) BY <2>8, <2>14, <3>1
    <3>4. file' \in Seq(Letters) /\ E!normalize_to_lf(file') = u BY <3>2, <3>3 DEF RestoredIs
    <3>5. EditInv' BY <2>9, <2>10, <3>4 DEF EditInv
    <3>6. Means(c) BY <1>2, <2>1, <2>2, <2>12, <2>13, <2>14, <3>1, <3>4 DEF Means
    <3>7. \A d \in Editors \ {c} : Means(d) BY <2>9, OthersWait
    <3> QED BY <3>5, <3>6, <3>7 DEF EditStep
  <2>15. CASE ~new.ok
    <3>1. file' = file BY <2>8, <2>15
    <3>2. EditInv' BY <2>9, <2>10, <3>1 DEF EditInv
    <3>3. Means(c) BY <2>11, <2>13, <2>15, <3>1 DEF Means
    <3>4. \A d \in Editors \ {c} : Means(d) BY <2>9, OthersWait
    <3> QED BY <3>2, <3>3, <3>4 DEF EditStep
  <2> QED BY <2>14, <2>15
<1> QED BY <1>3, <1>4

(* So are all steps of the tools, and of others that change the file.        *)
LEMMA EditNext ==
  ASSUME EditInv, [E!Next]_(E!vars)
  PROVE  EditStep
<1>0. /\ Texts \subseteq Seq(Letters) /\ Edits \subseteq Asked
  BY PartsAssumption DEF E!EditAssumption, Asked, Letters
<1>1. ASSUME NEW c \in Editors, NEW n \in 0 .. 2, NEW edits \in [1 .. n -> Edits], E!Ask(c, edits)
      PROVE  EditStep
  <2>1. edits \in Seq(Asked)
    <3>1. edits \in [1 .. n -> Asked] /\ n \in Nat BY <1>0
    <3> QED BY <3>1
  <2> DEFINE ends == edits = << >> \/ file = None
             m == [call[c] EXCEPT !.edits = edits, !.at = IF ends THEN "done" ELSE "asked",
                                  !.result = IF ends THEN "failed" ELSE None]
  <2>2. call[c] \in CallsMade /\ call[c].at = "no" /\ file' = file BY <1>1 DEF EditInv, E!Ask
  <2>3. call' = [call EXCEPT ![c] = m] BY <1>1 DEF E!Ask
  <2>4. m \in CallsMade
    <3> HIDE DEF ends
    <3>1. (IF ends THEN "done" ELSE "asked") \in {"done", "asked"} OBVIOUS
    <3>2. (IF ends THEN "failed" ELSE None) \in {"failed", None} OBVIOUS
    <3> QED BY <2>1, <2>2, <3>1, <3>2 DEF CallsMade
  <2> HIDE DEF m
  <2>5. EditInv' BY <2>2, <2>3, <2>4 DEF EditInv
  <2>6. Means(c) BY <2>2 DEF Means
  <2>7. \A d \in Editors \ {c} : Means(d) BY <2>3, OthersWait
  <2> QED BY <2>5, <2>6, <2>7 DEF EditStep
<1>2. ASSUME NEW c \in Editors, E!Apply(c) PROVE EditStep
  BY <1>2, ApplyMeans
<1>3. ASSUME NEW c \in Editors, NEW s \in Texts, E!Write(c, s) PROVE EditStep
  <2> DEFINE m == [call[c] EXCEPT !.at = "done", !.result = "ok"]
  <2>1. call[c] \in CallsMade /\ call[c].at = "no" /\ file' = s BY <1>3 DEF EditInv, E!Write
  <2>2. call' = [call EXCEPT ![c] = m] BY <1>3 DEF E!Write
  <2>3. m \in CallsMade BY <2>1 DEF CallsMade
  <2> HIDE DEF m
  <2>4. EditInv' BY <1>0, <2>1, <2>2, <2>3 DEF EditInv
  <2>5. Means(c) BY <2>1 DEF Means
  <2>6. \A d \in Editors \ {c} : Means(d) BY <2>2, OthersWait
  <2> QED BY <2>4, <2>5, <2>6 DEF EditStep
<1>4. ASSUME NEW s \in Texts \union {None}, E!Change(s) PROVE EditStep
  <2>1. call' = call /\ file' = s BY <1>4 DEF E!Change
  <2>2. EditInv' BY <1>0, <2>1 DEF EditInv
  <2>3. \A c \in Editors : Means(c) BY <2>1 DEF Means
  <2> QED BY <2>2, <2>3 DEF EditStep
<1>5. CASE UNCHANGED E!vars
  <2>1. call' = call /\ file' = file BY <1>5 DEF E!vars
  <2>2. EditInv' BY <2>1 DEF EditInv
  <2>3. \A c \in Editors : Means(c) BY <2>1 DEF Means
  <2> QED BY <2>2, <2>3 DEF EditStep
<1> QED BY <1>1, <1>2, <1>3, <1>4, <1>5 DEF E!Next

(* EditIsMeant: a successful edit changes the file to what its replacements  *)
(* mean together, however they are ordered and whatever their lengths, and   *)
(* one that fails leaves the file alone.                                     *)
THEOREM EditIsAlwaysMeant == Spec => EditIsMeant
<1> DEFINE Meaning == \A c \in Editors : call[c].at = "asked" /\ call'[c].at = "done" =>
                        IF call'[c].result = "ok"
                        THEN E!normalize_to_lf(file') = E!Meant(E!normalize_to_lf(file), call[c].edits)
                        ELSE file' = file
<1>1. Init => EditInv
  <2> SUFFICES ASSUME Init PROVE EditInv
    OBVIOUS
  <2>1. file \in Seq(Letters)
    <3>1. file \in Texts BY DEF Init, E!Init
    <3> QED BY <3>1, PartsAssumption DEF E!EditAssumption, Letters
  <2>2. E!NoCall \in CallsMade
    <3>1. << >> \in Seq(Asked) OBVIOUS
    <3> QED BY <3>1 DEF E!NoCall, CallsMade
  <2>3. call = [c \in Editors |-> E!NoCall] BY DEF Init, E!Init
  <2> QED BY <2>1, <2>2, <2>3 DEF EditInv
<1>2. EditInv /\ [Next]_vars => EditStep
  <2> SUFFICES ASSUME EditInv, [Next]_vars PROVE EditStep
    OBVIOUS
  <2>1. [E!Next]_(E!vars) BY DEF Next, vars, editVars, E!vars
  <2> QED BY <2>1, EditNext
<1>3. EditStep => EditInv' BY DEF EditStep
<1>4. EditStep => [Meaning]_(E!vars) BY DEF EditStep, Means
<1>5. EditIsMeant <=> [][Meaning]_(E!vars) BY DEF EditIsMeant, E!EditIsMeant
<1> HIDE DEF Meaning
<1> QED BY <1>1, <1>2, <1>3, <1>4, <1>5, PTL DEF Spec
============================================================================
