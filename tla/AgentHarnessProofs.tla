-------------------------- MODULE AgentHarnessProofs --------------------------
(***************************************************************************)
(* Proofs about AgentHarness.  Every quantity that bounds the model        *)
(* (MaxBatch, MaxIssued, ...) is arbitrary here: the theorems hold for     *)
(* transcripts, batches and runs of any length.                            *)
(***************************************************************************)
EXTENDS AgentHarness, TLAPS, SequenceTheorems, FiniteSetTheorems

(* Every assistant message is preceded by the results of all earlier calls.    *)
Ordered(msgs) ==
  \A l \in DOMAIN msgs : msgs[l].role = "assistant" => AnsweredBefore(msgs, l)

(* No result comes before a call of its id: ids are not used again.            *)
ResultsFollow(msgs) ==
  \A i, k \in DOMAIN msgs :
    msgs[k].role = "toolResult" /\ CallsAt(msgs, i, msgs[k].call) => i < k

(* A transcript whose calls and results bear ids up to n; when ids are fresh,  *)
(* it is one a provider has accepted so far.                                   *)
Transcript(msgs, n) ==
  /\ msgs \in Seq(Messages)
  /\ Called(msgs) \subseteq 1 .. n
  /\ Returned(msgs) \subseteq 1 .. n
  /\ FreshCallIds => Ordered(msgs) /\ ResultsFollow(msgs)

Settled == {"start", "turnStart", "inject", "stream", "assistantEnd", "turnEnd"}
Batch == {"toolStart", "toolRun", "toolEnd"}

(* The inductive invariant: TypeOK and ToolCallsAnswered say nothing of the    *)
(* calls that a batch still owes, of the ids a pending reply may bear, or of   *)
(* where a result stands, and so are not preserved by the steps alone.         *)
IInv ==
  /\ TypeOK
  /\ Transcript(messages, issued)
  /\ Elements(reply.calls) \subseteq 1 .. issued
  /\ Elements(todo) \subseteq 1 .. issued
  /\ FreshCallIds /\ pc = "assistantEnd" =>
       Elements(reply.calls) \cap Returned(messages) = {}
  /\ pc \in Settled => Unanswered(messages) = {}
  /\ pc \in Batch => Unanswered(messages) \subseteq Elements(todo)

-----------------------------------------------------------------------------
(* What the operators on transcripts give.                                     *)

(* A call is in a transcript when one of its assistant messages makes it, and  *)
(* returned when one of its results names it.                                  *)
LEMMA CalledReturned ==
  ASSUME NEW m \in Seq(Messages), NEW c
  PROVE  /\ c \in Called(m) <=> \E i \in 1 .. Len(m) : CallsAt(m, i, c)
         /\ c \in Returned(m) <=> \E k \in 1 .. Len(m) : AnswersAt(m, k, c)
<1>1. DOMAIN m = 1 .. Len(m)
  BY LenProperties
<1>2. c \in Called(m) <=> \E i \in 1 .. Len(m) : CallsAt(m, i, c)
  BY <1>1 DEF Called, CallsAt
<1>3. c \in Returned(m) <=> \E k \in 1 .. Len(m) : AnswersAt(m, k, c)
  BY <1>1 DEF Returned, AnswersAt
<1> QED BY <1>2, <1>3

(* The three kinds of message are told apart by their role.                    *)
LEMMA Roles ==
  ASSUME NEW x \in Messages
  PROVE  /\ x.role \in {"user", "assistant", "toolResult"}
         /\ x.role = "assistant" => x \in AssistantMessages
         /\ x.role = "toolResult" => x \in ToolResults
BY DEF Messages, UserMessages, AssistantMessages, ToolResults

LEMMA ResultIsMessage ==
  ASSUME NEW c \in CallIds, NEW how \in Outcomes
  PROVE  /\ ToolResult(c, how) \in Messages
         /\ ToolResult(c, how).role = "toolResult"
         /\ ToolResult(c, how).call = c
BY DEF ToolResult, Messages, ToolResults

(* Appending one message.                                                      *)
LEMMA AppendFacts ==
  ASSUME NEW m \in Seq(Messages), NEW x \in Messages
  PROVE  /\ Append(m, x) \in Seq(Messages)
         /\ Len(m) \in Nat /\ Len(Append(m, x)) = Len(m) + 1
         /\ DOMAIN m = 1 .. Len(m) /\ DOMAIN Append(m, x) = 1 .. Len(m) + 1
         /\ \A i \in 1 .. Len(m) : Append(m, x)[i] = m[i]
         /\ Append(m, x)[Len(m) + 1] = x
         /\ x.role # "assistant" => Called(Append(m, x)) = Called(m)
         /\ x.role = "assistant" =>
              Called(Append(m, x)) = Called(m) \cup Elements(x.calls)
         /\ x.role # "toolResult" => Returned(Append(m, x)) = Returned(m)
         /\ x.role = "toolResult" => Returned(Append(m, x)) = Returned(m) \cup {x.call}
<1> DEFINE a == Append(m, x)
<1>1. /\ a \in Seq(Messages) /\ Len(m) \in Nat /\ Len(a) = Len(m) + 1
      /\ DOMAIN m = 1 .. Len(m) /\ DOMAIN a = 1 .. Len(m) + 1
      /\ \A i \in 1 .. Len(m) : a[i] = m[i]
      /\ a[Len(m) + 1] = x
  BY LenProperties
<1>2. \A c : c \in Called(a) <=>
        c \in Called(m) \cup (IF x.role = "assistant" THEN Elements(x.calls) ELSE {})
  <2> TAKE c
  <2>1. c \in Called(a) <=> \E i \in 1 .. Len(m) + 1 : CallsAt(a, i, c)
    BY <1>1, CalledReturned
  <2>2. c \in Called(m) <=> \E i \in 1 .. Len(m) : CallsAt(a, i, c)
    BY <1>1, CalledReturned DEF CallsAt
  <2>3. CallsAt(a, Len(m) + 1, c) <=> x.role = "assistant" /\ c \in Elements(x.calls)
    BY <1>1 DEF CallsAt
  <2> QED BY <1>1, <2>1, <2>2, <2>3
<1>3. \A c : c \in Returned(a) <=>
        c \in Returned(m) \cup (IF x.role = "toolResult" THEN {x.call} ELSE {})
  <2> TAKE c
  <2>1. c \in Returned(a) <=> \E i \in 1 .. Len(m) + 1 : AnswersAt(a, i, c)
    BY <1>1, CalledReturned
  <2>2. c \in Returned(m) <=> \E i \in 1 .. Len(m) : AnswersAt(a, i, c)
    BY <1>1, CalledReturned DEF AnswersAt
  <2>3. AnswersAt(a, Len(m) + 1, c) <=> x.role = "toolResult" /\ c = x.call
    BY <1>1 DEF AnswersAt
  <2> QED BY <1>1, <2>1, <2>2, <2>3
<1> QED BY <1>1, <1>2, <1>3

(* AnsweredBefore(_, l) looks at the messages in front of l only.              *)
LEMMA SamePrefix ==
  ASSUME NEW m, NEW a, NEW l \in Nat, \A i \in 1 .. l - 1 : a[i] = m[i],
         AnsweredBefore(m, l)
  PROVE  AnsweredBefore(a, l)
<1> SUFFICES ASSUME NEW i \in 1 .. l - 1, a[i].role = "assistant",
                    NEW c \in Elements(a[i].calls)
             PROVE  \E k \in i + 1 .. l - 1 : AnswersAt(a, k, c)
  BY DEF AnsweredBefore
<1>1. PICK k \in i + 1 .. l - 1 : AnswersAt(m, k, c)
  BY DEF AnsweredBefore
<1> QED BY <1>1 DEF AnswersAt

LEMMA AppendOrdered ==
  ASSUME NEW m \in Seq(Messages), NEW x \in Messages, Ordered(m),
         x.role = "assistant" => AnsweredBefore(m, Len(m) + 1)
  PROVE  Ordered(Append(m, x))
<1> DEFINE a == Append(m, x)
<1>1. /\ Len(m) \in Nat /\ DOMAIN m = 1 .. Len(m) /\ DOMAIN a = 1 .. Len(m) + 1
      /\ \A i \in 1 .. Len(m) : a[i] = m[i]
      /\ a[Len(m) + 1] = x
  BY AppendFacts
<1> HIDE DEF a
<1>2. SUFFICES ASSUME NEW l \in 1 .. Len(m) + 1, a[l].role = "assistant"
               PROVE  AnsweredBefore(a, l)
  BY <1>1 DEF Ordered, a
<1>3. l \in Nat /\ \A i \in 1 .. l - 1 : a[i] = m[i]
  BY <1>1
<1>4. CASE l = Len(m) + 1
  BY <1>1, <1>2, <1>3, <1>4, SamePrefix
<1>5. CASE l \in 1 .. Len(m)
  <2>1. AnsweredBefore(m, l)
    BY <1>1, <1>2, <1>5 DEF Ordered
  <2> QED BY <1>3, <2>1, SamePrefix
<1> QED BY <1>1, <1>4, <1>5

(***************************************************************************)
(* Each way a transcript grows or is cut keeps it a Transcript.            *)
(***************************************************************************)
LEMMA AppendUser ==
  ASSUME NEW n \in Nat, NEW m, Transcript(m, n), NEW u \in UserMessages
  PROVE  /\ Transcript(Append(m, u), n)
         /\ Called(Append(m, u)) = Called(m) /\ Returned(Append(m, u)) = Returned(m)
<1> DEFINE a == Append(m, u)
<1>1. m \in Seq(Messages) /\ u \in Messages /\ u.role = "user"
  BY DEF Transcript, Messages, UserMessages
<1>2. /\ a \in Seq(Messages) /\ Len(m) \in Nat /\ Len(a) = Len(m) + 1
      /\ \A i \in 1 .. Len(m) : a[i] = m[i]
      /\ a[Len(m) + 1].role = "user"
      /\ Called(a) = Called(m) /\ Returned(a) = Returned(m)
      /\ DOMAIN a = 1 .. Len(m) + 1 /\ DOMAIN m = 1 .. Len(m)
  BY <1>1, AppendFacts
<1>3. ASSUME Ordered(m) PROVE Ordered(a)
  BY <1>1, <1>3, AppendOrdered
<1>4. ASSUME ResultsFollow(m) PROVE ResultsFollow(a)
  BY <1>2, <1>4 DEF ResultsFollow, CallsAt
<1> QED BY <1>2, <1>3, <1>4 DEF Transcript

LEMMA AppendResult ==
  ASSUME NEW n \in Nat, NEW m, Transcript(m, n),
         NEW c \in CallIds, c \in 1 .. n, NEW how \in Outcomes
  PROVE  /\ Transcript(Append(m, ToolResult(c, how)), n)
         /\ Called(Append(m, ToolResult(c, how))) = Called(m)
         /\ Returned(Append(m, ToolResult(c, how))) = Returned(m) \cup {c}
<1> DEFINE r == ToolResult(c, how)
           a == Append(m, r)
<1>1. m \in Seq(Messages) /\ r \in Messages /\ r.role = "toolResult" /\ r.call = c
  BY ResultIsMessage DEF Transcript
<1>2. /\ a \in Seq(Messages) /\ Len(m) \in Nat /\ Len(a) = Len(m) + 1
      /\ \A i \in 1 .. Len(m) : a[i] = m[i]
      /\ a[Len(m) + 1].role = "toolResult"
      /\ Called(a) = Called(m) /\ Returned(a) = Returned(m) \cup {c}
      /\ DOMAIN a = 1 .. Len(m) + 1 /\ DOMAIN m = 1 .. Len(m)
  BY <1>1, AppendFacts
<1>3. ASSUME Ordered(m) PROVE Ordered(a)
  BY <1>1, <1>3, AppendOrdered
<1>4. ASSUME ResultsFollow(m) PROVE ResultsFollow(a)
  BY <1>2, <1>4 DEF ResultsFollow, CallsAt
<1> QED BY <1>2, <1>3, <1>4 DEF Transcript

(* In a settled transcript every call is answered where the next message goes. *)
LEMMA SettledAnswered ==
  ASSUME NEW m \in Seq(Messages), ResultsFollow(m), Unanswered(m) = {}
  PROVE  AnsweredBefore(m, Len(m) + 1)
<1>1. SUFFICES ASSUME NEW i \in 1 .. Len(m), m[i].role = "assistant",
                      NEW c \in Elements(m[i].calls)
               PROVE  \E k \in i + 1 .. Len(m) : AnswersAt(m, k, c)
  BY DEF AnsweredBefore
<1>2. c \in Called(m)
  BY <1>1, CalledReturned DEF CallsAt
<1>3. PICK k \in 1 .. Len(m) : AnswersAt(m, k, c)
  BY <1>2, CalledReturned DEF Unanswered
<1>4. i < k
  BY <1>1, <1>3 DEF ResultsFollow, CallsAt, AnswersAt
<1> QED BY <1>3, <1>4

LEMMA AppendAssistant ==
  ASSUME NEW n \in Nat, NEW m, Transcript(m, n), Unanswered(m) = {},
         NEW x \in AssistantMessages, Elements(x.calls) \subseteq 1 .. n,
         FreshCallIds => Elements(x.calls) \cap Returned(m) = {}
  PROVE  /\ Transcript(Append(m, x), n)
         /\ Unanswered(Append(m, x)) \subseteq Elements(x.calls)
<1> DEFINE a == Append(m, x)
<1>1. m \in Seq(Messages) /\ x \in Messages /\ x.role = "assistant"
  BY DEF Transcript, Messages, AssistantMessages
<1>2. /\ a \in Seq(Messages) /\ Len(m) \in Nat /\ Len(a) = Len(m) + 1
      /\ \A i \in 1 .. Len(m) : a[i] = m[i]
      /\ a[Len(m) + 1] = x
      /\ Called(a) = Called(m) \cup Elements(x.calls) /\ Returned(a) = Returned(m)
      /\ DOMAIN a = 1 .. Len(m) + 1 /\ DOMAIN m = 1 .. Len(m)
  BY <1>1, AppendFacts, Zenon
<1>3. ASSUME Ordered(m), ResultsFollow(m) PROVE Ordered(a)
  <2>1. AnsweredBefore(m, Len(m) + 1)
    BY <1>1, <1>3, SettledAnswered
  <2> QED BY <1>1, <1>3, <2>1, AppendOrdered
<1>4. ASSUME ResultsFollow(m), FreshCallIds PROVE ResultsFollow(a)
  <2>1. SUFFICES ASSUME NEW i \in 1 .. Len(m) + 1, NEW k \in 1 .. Len(m) + 1,
                        a[k].role = "toolResult", CallsAt(a, i, a[k].call)
                 PROVE  i < k
    BY <1>2 DEF ResultsFollow
  <2>2. k \in 1 .. Len(m) /\ a[k] = m[k]
    BY <1>1, <1>2, <2>1
  <2>3. a[k].call \in Returned(m)
    BY <1>1, <2>1, <2>2, CalledReturned DEF AnswersAt
  <2>4. i \in 1 .. Len(m)
    BY <1>2, <1>4, <2>1, <2>3 DEF CallsAt
  <2> QED BY <1>2, <1>4, <2>1, <2>2, <2>4 DEF ResultsFollow, CallsAt
<1> QED BY <1>2, <1>3, <1>4 DEF Transcript, Unanswered

(* What a repair appends: interrupted results, for exactly the calls that had  *)
(* none, behind everything that was there.                                     *)
LEMMA RepairFacts ==
  ASSUME NEW n \in Nat, NEW m, Transcript(m, n), NEW r \in Repaired(m)
  PROVE  /\ r \in Seq(Messages)
         /\ Len(m) \in Nat /\ Len(r) \in Nat /\ Len(m) <= Len(r)
         /\ DOMAIN m = 1 .. Len(m) /\ DOMAIN r = 1 .. Len(r)
         /\ \A i \in 1 .. Len(m) : r[i] = m[i]
         /\ \A i \in Len(m) + 1 .. Len(r) :
              r[i].role = "toolResult" /\ r[i].call \in Unanswered(m)
         /\ \A c \in Unanswered(m) : \E i \in Len(m) + 1 .. Len(r) : AnswersAt(r, i, c)
         /\ Cardinality(Unanswered(m)) \in Nat
         /\ Len(r) = Len(m) + Cardinality(Unanswered(m))
         /\ \E s \in [1 .. Cardinality(Unanswered(m)) -> Unanswered(m)] :
              /\ \A c \in Unanswered(m) : \E i \in DOMAIN s : s[i] = c
              /\ \A i \in Len(m) + 1 .. Len(r) : r[i].call = s[i - Len(m)]
<1> DEFINE N == Cardinality(Unanswered(m))
<1>1. N \in Nat
  <2>1. IsFiniteSet(1 .. n) /\ Unanswered(m) \subseteq 1 .. n
    BY FS_Interval DEF Transcript, Unanswered
  <2> QED BY <2>1, FS_Subset, FS_CardinalityType
<1>2. PICK s \in InterruptedCalls(m) : r = m \o Interrupted(s)
  BY DEF Repaired
<1>3. /\ s \in [1 .. N -> Unanswered(m)]
      /\ \A c \in Unanswered(m) : \E i \in 1 .. N : s[i] = c
  BY <1>2 DEF InterruptedCalls
<1> DEFINE t == Interrupted(s)
<1>4. ASSUME NEW i \in 1 .. N
      PROVE  /\ t[i] \in Messages /\ t[i].role = "toolResult" /\ t[i].call = s[i]
             /\ s[i] \in Unanswered(m)
  <2> HIDE DEF N
  <2>1. s[i] \in Unanswered(m)
    BY <1>3
  <2>2. s[i] \in CallIds
    BY <2>1 DEF Transcript, Unanswered, CallIds
  <2>3. t[i] = ToolResult(s[i], "interrupted")
    BY <1>3 DEF Interrupted
  <2> QED BY <2>1, <2>2, <2>3, ResultIsMessage DEF Outcomes
<1>5. t \in Seq(Messages) /\ Len(t) = N
  <2>1. DOMAIN t = 1 .. N /\ t = [i \in 1 .. N |-> t[i]]
    BY <1>3 DEF Interrupted
  <2>2. t \in [1 .. N -> Messages]
    BY <1>4, <2>1
  <2> QED BY <1>1, <2>2
<1>6. /\ m \in Seq(Messages) /\ Len(m) \in Nat /\ DOMAIN m = 1 .. Len(m)
      /\ r \in Seq(Messages) /\ Len(r) = Len(m) + N /\ DOMAIN r = 1 .. Len(r)
      /\ \A i \in 1 .. Len(m) : r[i] = m[i]
      /\ \A i \in 1 .. N : r[Len(m) + i] = t[i]
  <2>1. m \in Seq(Messages)
    BY DEF Transcript
  <2> HIDE DEF t
  <2>2. r = m \o t
    BY <1>2 DEF t
  <2>3. Len(m) \in Nat /\ DOMAIN m = 1 .. Len(m)
    BY <2>1, LenProperties
  <2>4. /\ r \in Seq(Messages) /\ Len(r) = Len(m) + N
        /\ \A i \in 1 .. Len(m) + N : r[i] = IF i <= Len(m) THEN m[i] ELSE t[i - Len(m)]
    BY <1>5, <2>1, <2>2, ConcatProperties
  <2>5. DOMAIN r = 1 .. Len(r)
    BY <2>4, LenProperties
  <2>6. \A i \in 1 .. N : r[Len(m) + i] = t[i]
    BY <1>1, <2>3, <2>4
  <2> QED BY <1>1, <2>1, <2>3, <2>4, <2>5, <2>6
<1>7. ASSUME NEW i \in Len(m) + 1 .. Len(r)
      PROVE  /\ r[i].role = "toolResult" /\ r[i].call \in Unanswered(m)
             /\ r[i].call = s[i - Len(m)]
  <2>1. i - Len(m) \in 1 .. N /\ r[i] = t[i - Len(m)]
    BY <1>1, <1>6
  <2> QED BY <1>4, <2>1
<1>8. ASSUME NEW c \in Unanswered(m)
      PROVE  \E i \in Len(m) + 1 .. Len(r) : AnswersAt(r, i, c)
  <2>1. PICK j \in 1 .. N : s[j] = c
    BY <1>3
  <2>2. AnswersAt(r, Len(m) + j, c)
    BY <1>4, <1>6, <2>1 DEF AnswersAt
  <2> QED BY <1>1, <1>6, <2>1, <2>2
<1> HIDE DEF N, t
<1>9. \E q \in [1 .. N -> Unanswered(m)] :
        /\ \A c \in Unanswered(m) : \E i \in DOMAIN q : q[i] = c
        /\ \A i \in Len(m) + 1 .. Len(r) : r[i].call = q[i - Len(m)]
  BY <1>3, <1>7
<1>10. Len(r) \in Nat /\ Len(m) <= Len(r)
  BY <1>1, <1>6
<1> QED BY <1>1, <1>6, <1>7, <1>8, <1>9, <1>10, Zenon DEF N

(* A repaired transcript is one, and nothing is unanswered in it.              *)
LEMMA RepairTranscript ==
  ASSUME NEW n \in Nat, NEW m, Transcript(m, n), NEW r \in Repaired(m)
  PROVE  Transcript(r, n) /\ Unanswered(r) = {}
<1>1. /\ m \in Seq(Messages) /\ r \in Seq(Messages)
      /\ Len(m) \in Nat /\ Len(r) \in Nat /\ Len(m) <= Len(r)
      /\ DOMAIN m = 1 .. Len(m) /\ DOMAIN r = 1 .. Len(r)
      /\ \A i \in 1 .. Len(m) : r[i] = m[i]
      /\ \A i \in Len(m) + 1 .. Len(r) :
           r[i].role = "toolResult" /\ r[i].call \in Unanswered(m)
      /\ \A c \in Unanswered(m) : \E i \in Len(m) + 1 .. Len(r) : AnswersAt(r, i, c)
  BY RepairFacts DEF Transcript
<1>2. Called(r) = Called(m)
  <2>1. \A c : c \in Called(r) <=> \E i \in 1 .. Len(r) : CallsAt(r, i, c)
    BY <1>1, CalledReturned
  <2>2. \A c : c \in Called(m) <=> \E i \in 1 .. Len(m) : CallsAt(m, i, c)
    BY <1>1, CalledReturned
  <2>3. \A c : \A i \in 1 .. Len(m) : CallsAt(r, i, c) <=> CallsAt(m, i, c)
    BY <1>1 DEF CallsAt
  <2>4. \A c : \A i \in Len(m) + 1 .. Len(r) : ~CallsAt(r, i, c)
    BY <1>1 DEF CallsAt
  <2>5. \A c : c \in Called(r) <=> c \in Called(m)
    BY <1>1, <2>1, <2>2, <2>3, <2>4
  <2> QED BY <2>5
<1>3. Returned(r) = Returned(m) \cup Unanswered(m)
  <2>1. \A c : c \in Returned(r) <=> \E i \in 1 .. Len(r) : AnswersAt(r, i, c)
    BY <1>1, CalledReturned
  <2>2. \A c : c \in Returned(m) <=> \E i \in 1 .. Len(m) : AnswersAt(m, i, c)
    BY <1>1, CalledReturned
  <2>3. \A c : \A i \in 1 .. Len(m) : AnswersAt(r, i, c) <=> AnswersAt(m, i, c)
    BY <1>1 DEF AnswersAt
  <2>4. \A c : \A i \in Len(m) + 1 .. Len(r) : AnswersAt(r, i, c) => c \in Unanswered(m)
    BY <1>1 DEF AnswersAt
  <2> QED BY <1>1, <2>1, <2>2, <2>3, <2>4
<1>4. ASSUME Ordered(m) PROVE Ordered(r)
  <2>1. SUFFICES ASSUME NEW l \in 1 .. Len(r), r[l].role = "assistant"
                 PROVE  AnsweredBefore(r, l)
    BY <1>1 DEF Ordered
  <2>2. l \in 1 .. Len(m) /\ l \in Nat /\ \A i \in 1 .. l - 1 : r[i] = m[i]
    BY <1>1, <2>1
  <2>3. AnsweredBefore(m, l)
    BY <1>1, <1>4, <2>1, <2>2 DEF Ordered
  <2> QED BY <2>2, <2>3, SamePrefix
<1>5. ASSUME ResultsFollow(m) PROVE ResultsFollow(r)
  <2>1. SUFFICES ASSUME NEW i \in 1 .. Len(r), NEW k \in 1 .. Len(r),
                        r[k].role = "toolResult", CallsAt(r, i, r[k].call)
                 PROVE  i < k
    BY <1>1 DEF ResultsFollow
  <2>2. i \in 1 .. Len(m) /\ CallsAt(m, i, r[k].call)
    BY <1>1, <2>1 DEF CallsAt
  <2>3. CASE k \in 1 .. Len(m)
    BY <1>1, <1>5, <2>1, <2>2, <2>3 DEF ResultsFollow
  <2> QED BY <1>1, <2>2, <2>3
<1> QED BY <1>1, <1>2, <1>3, <1>4, <1>5 DEF Transcript, Unanswered

(* A contiguous part of a transcript is one, and so is a part behind a user    *)
(* message: a call cut off from its result was in front of no assistant message *)
(* that is left, and a result cut off from its call answers nothing.           *)
LEMMA Slice ==
  ASSUME NEW n \in Nat, NEW m, Transcript(m, n), NEW q \in Seq(Messages), NEW d \in Nat,
         NEW f \in {1, 2},
         f = 2 /\ Len(q) >= 1 => q[1].role = "user",
         \A i \in f .. Len(q) : i + d \in 1 .. Len(m) /\ q[i] = m[i + d]
  PROVE  Transcript(q, n)
<1>1. /\ m \in Seq(Messages)
      /\ Len(m) \in Nat /\ DOMAIN m = 1 .. Len(m)
      /\ Len(q) \in Nat /\ DOMAIN q = 1 .. Len(q)
  BY LenProperties DEF Transcript
<1>2. \A i \in 1 .. Len(q) : q[i].role # "user" => i \in f .. Len(q)
  BY <1>1
<1>3. Called(q) \subseteq 1 .. n
  <2>1. SUFFICES ASSUME NEW c \in Called(q) PROVE c \in Called(m)
    BY DEF Transcript
  <2>2. PICK i \in 1 .. Len(q) : CallsAt(q, i, c)
    BY <2>1, CalledReturned
  <2>3. i + d \in 1 .. Len(m) /\ CallsAt(m, i + d, c)
    BY <1>2, <2>2 DEF CallsAt
  <2> QED BY <1>1, <2>3, CalledReturned
<1>4. Returned(q) \subseteq 1 .. n
  <2>1. SUFFICES ASSUME NEW c \in Returned(q) PROVE c \in Returned(m)
    BY DEF Transcript
  <2>2. PICK i \in 1 .. Len(q) : AnswersAt(q, i, c)
    BY <2>1, CalledReturned
  <2>3. i + d \in 1 .. Len(m) /\ AnswersAt(m, i + d, c)
    BY <1>2, <2>2 DEF AnswersAt
  <2> QED BY <1>1, <2>3, CalledReturned
<1>5. ASSUME Ordered(m) PROVE Ordered(q)
  <2>1. SUFFICES ASSUME NEW l \in 1 .. Len(q), q[l].role = "assistant",
                        NEW i \in 1 .. l - 1, q[i].role = "assistant",
                        NEW c \in Elements(q[i].calls)
                 PROVE  \E k \in i + 1 .. l - 1 : AnswersAt(q, k, c)
    BY <1>1 DEF Ordered, AnsweredBefore
  <2>2. /\ i \in f .. Len(q) /\ l \in f .. Len(q)
        /\ i + d \in 1 .. (l + d) - 1 /\ l + d \in 1 .. Len(m)
        /\ m[l + d].role = "assistant" /\ m[i + d].role = "assistant"
        /\ c \in Elements(m[i + d].calls)
    BY <1>1, <1>2, <2>1
  <2>3. PICK k \in (i + d) + 1 .. (l + d) - 1 : AnswersAt(m, k, c)
    BY <1>1, <1>5, <2>2 DEF Ordered, AnsweredBefore
  <2>4. k - d \in i + 1 .. l - 1 /\ k - d \in f .. Len(q) /\ (k - d) + d = k
    <3>1. /\ i \in Int /\ l \in Int /\ k \in Int /\ f \in Int /\ Len(q) \in Int
          /\ f <= i /\ l <= Len(q)
      BY <1>1, <2>2, <2>3
    <3>2. i + d + 1 <= k /\ k <= l + d - 1
      BY <2>3, <3>1
    <3>3. k - d \in Int /\ i + 1 <= k - d /\ k - d <= l - 1 /\ (k - d) + d = k
      BY <3>1, <3>2
    <3>4. f <= k - d /\ k - d <= Len(q)
      BY <3>1, <3>3
    <3> QED BY <3>1, <3>3, <3>4
  <2>5. AnswersAt(q, k - d, c)
    BY <2>3, <2>4 DEF AnswersAt
  <2> QED BY <2>4, <2>5
<1>6. ASSUME ResultsFollow(m) PROVE ResultsFollow(q)
  <2>1. SUFFICES ASSUME NEW i \in 1 .. Len(q), NEW k \in 1 .. Len(q),
                        q[k].role = "toolResult", CallsAt(q, i, q[k].call)
                 PROVE  i < k
    BY <1>1 DEF ResultsFollow
  <2>2. /\ i + d \in 1 .. Len(m) /\ k + d \in 1 .. Len(m)
        /\ m[k + d].role = "toolResult" /\ CallsAt(m, i + d, m[k + d].call)
    BY <1>2, <2>1 DEF CallsAt
  <2>3. i + d < k + d
    BY <1>1, <1>6, <2>2 DEF ResultsFollow
  <2> QED BY <2>3
<1> QED BY <1>3, <1>4, <1>5, <1>6 DEF Transcript

(* replace_messages: branches and compactions.                                 *)
LEMMA ReplacedTranscript ==
  ASSUME NEW n \in Nat, NEW m, Transcript(m, n),
         NEW q \in Branches(m) \cup Compactions(m)
  PROVE  Transcript(q, n)
<1>1. m \in Seq(Messages) /\ Len(m) \in Nat /\ \A i \in 1 .. Len(m) : m[i] \in Messages
  BY LenProperties, ElementOfSeq DEF Transcript
<1>2. CASE q \in Branches(m)
  <2>1. PICK k \in 0 .. Len(m) - 1 : q = SubSeq(m, 1, k)
    BY <1>2 DEF Branches
  <2>2. /\ q \in Seq(Messages) /\ Len(q) = k
        /\ \A i \in 1 .. k : q[i] = m[i]
    BY <1>1, <2>1, SubSeqProperties
  <2>3. PICK d \in Nat : d = 0
    OBVIOUS
  <2>4. PICK f \in {1, 2} : f = 1
    OBVIOUS
  <2>5. \A i \in f .. Len(q) : i + d \in 1 .. Len(m) /\ q[i] = m[i + d]
    BY <1>1, <2>1, <2>2, <2>3, <2>4
  <2>6. f = 2 /\ Len(q) >= 1 => q[1].role = "user"
    BY <2>4
  <2> QED BY <2>2, <2>5, <2>6, Slice
<1>3. CASE q \in Compactions(m)
  <2> DEFINE u == User(0, "summary")
  <2>1. PICK j \in 2 .. Len(m) : q = <<u>> \o SubSeq(m, j, Len(m))
    BY <1>3 DEF Compactions
  <2> DEFINE t == SubSeq(m, j, Len(m))
  <2>2. t \in Seq(Messages) /\ Len(t) = Len(m) - j + 1
        /\ \A i \in 1 .. Len(m) - j + 1 : t[i] = m[j + i - 1]
    BY <1>1, <2>1, SubSeqProperties
  <2>3. <<u>> \in Seq(Messages) /\ Len(<<u>>) = 1 /\ <<u>>[1] = u
        /\ u.role = "user"
    BY DEF User, Messages, UserMessages, Via
  <2> HIDE DEF t, u
  <2>4. /\ q \in Seq(Messages) /\ Len(q) = Len(t) + 1
        /\ \A i \in 1 .. Len(t) + 1 : q[i] = IF i <= 1 THEN u ELSE t[i - 1]
    BY <2>1, <2>2, <2>3, ConcatProperties DEF t
  <2>5. \A i \in 2 .. Len(q) : i + (j - 2) \in 1 .. Len(m) /\ q[i] = m[i + (j - 2)]
    BY <1>1, <2>2, <2>4
  <2>6. PICK d \in Nat : d = j - 2
    BY <1>1, <2>1
  <2>7. PICK f \in {1, 2} : f = 2
    OBVIOUS
  <2>8. \A i \in f .. Len(q) : i + d \in 1 .. Len(m) /\ q[i] = m[i + d]
    BY <2>5, <2>6, <2>7
  <2>9. f = 2 /\ Len(q) >= 1 => q[1].role = "user"
    BY <1>1, <2>2, <2>3, <2>4
  <2> QED BY <2>4, <2>8, <2>9, Slice
<1> QED BY <1>2, <1>3

LEMMA UserIsMessage ==
  ASSUME NEW id \in Nat, NEW via \in Via
  PROVE  User(id, via) \in UserMessages
BY DEF User, UserMessages

(* What a queue gives and what it keeps are sequences of user messages.        *)
LEMMA QueueTypes ==
  ASSUME NEW q \in Seq(UserMessages)
  PROVE  Drained(q) \in Seq(UserMessages) /\ Undrained(q) \in Seq(UserMessages)
<1>1. CASE q = << >>
  BY <1>1 DEF Drained, Undrained
<1>2. CASE q # << >>
  <2>1. Head(q) \in UserMessages /\ Tail(q) \in Seq(UserMessages)
    BY <1>2, HeadTailProperties
  <2>2. <<Head(q)>> \in Seq(UserMessages) /\ << >> \in Seq(UserMessages)
    BY <2>1
  <2> QED BY <2>1, <2>2 DEF Drained, Undrained
<1> QED BY <1>1, <1>2

(* The calls of a reply bear ids that were not out before, unless the adapters *)
(* number them by position.                                                    *)
LEMMA NewCallsFacts ==
  ASSUME NEW n \in Nat, issued \in Nat
  PROVE  /\ NewCalls(n) \in Seq(CallIds)
         /\ Elements(NewCalls(n)) \subseteq 1 .. issued + n
         /\ FreshCallIds => Elements(NewCalls(n)) \cap (1 .. issued) = {}
<1> DEFINE s == NewCalls(n)
<1>1. /\ s = [i \in 1 .. n |-> s[i]] /\ DOMAIN s = 1 .. n
      /\ \A i \in 1 .. n : s[i] = IF FreshCallIds THEN issued + i ELSE i
  BY DEF NewCalls
<1>2. \A i \in 1 .. n : s[i] \in CallIds /\ s[i] \in 1 .. issued + n
  BY <1>1 DEF CallIds
<1>3. s \in [1 .. n -> CallIds]
  BY <1>1, <1>2
<1>4. s \in Seq(CallIds)
  BY <1>3
<1> HIDE DEF s
<1>5. Elements(s) \subseteq 1 .. issued + n
  BY <1>1, <1>2 DEF Elements
<1>6. FreshCallIds => Elements(s) \cap (1 .. issued) = {}
  BY <1>1 DEF Elements
<1> QED BY <1>4, <1>5, <1>6 DEF s

LEMMA NoCalls == Elements(<< >>) = {}
BY DEF Elements

LEMMA HeadTailElements ==
  ASSUME NEW s \in Seq(CallIds), s # << >>
  PROVE  /\ Head(s) \in CallIds /\ Tail(s) \in Seq(CallIds)
         /\ Elements(s) = {Head(s)} \cup Elements(Tail(s))
<1>1. /\ Head(s) \in CallIds /\ Tail(s) \in Seq(CallIds)
      /\ Head(s) = s[1]
      /\ Len(s) \in Nat \ {0} /\ DOMAIN s = 1 .. Len(s)
      /\ DOMAIN Tail(s) = 1 .. Len(s) - 1
      /\ \A i \in 1 .. Len(s) - 1 : Tail(s)[i] = s[i + 1]
  BY HeadTailProperties, LenProperties, EmptySeq
<1>2. \A i \in 1 .. Len(s) : i # 1 => i - 1 \in 1 .. Len(s) - 1 /\ (i - 1) + 1 = i
  BY <1>1
<1>3. \A i \in 1 .. Len(s) - 1 : i + 1 \in 1 .. Len(s)
  BY <1>1
<1>4. ASSUME NEW c \in Elements(s), c # Head(s) PROVE c \in Elements(Tail(s))
  <2>1. PICK i \in 1 .. Len(s) : s[i] = c
    BY <1>1 DEF Elements
  <2>2. i - 1 \in DOMAIN Tail(s) /\ Tail(s)[i - 1] = c
    BY <1>1, <1>2, <1>4, <2>1
  <2> QED BY <2>2 DEF Elements
<1>5. {Head(s)} \cup Elements(Tail(s)) \subseteq Elements(s)
  BY <1>1, <1>3 DEF Elements
<1> QED BY <1>1, <1>4, <1>5

LEMMA ErrorMessageFacts ==
  /\ ErrorMessage \in AssistantMessages
  /\ Elements(ErrorMessage.calls) = {}
<1>1. ErrorMessage.calls = << >> /\ << >> \in Seq(CallIds)
  BY DEF ErrorMessage, Assistant
<1> QED BY <1>1, NoCalls DEF ErrorMessage, Assistant, AssistantMessages

LEMMA InitInvariant == Init => IInv
<1> SUFFICES ASSUME Init PROVE IInv
  OBVIOUS
<1>1. TypeOK
  <2>1. << >> \in Seq(Messages) /\ << >> \in Seq(UserMessages) /\ << >> \in Seq(CallIds)
    OBVIOUS
  <2> QED BY <2>1, ErrorMessageFacts DEF Init, TypeOK, PCs, Outcomes
<1>2. Called(<< >>) = {} /\ Returned(<< >>) = {}
  BY DEF Called, Returned
<1>3. Transcript(<< >>, 0)
  BY <1>2 DEF Transcript, Ordered, ResultsFollow
<1> QED BY <1>1, <1>2, <1>3, ErrorMessageFacts, NoCalls
        DEF Init, IInv, Settled, Batch, Unanswered

(* The turn up to the request, from a transcript in which nothing is owed.     *)
LEMMA TurnBodyFacts ==
  ASSUME NEW queue \in Seq(UserMessages), TurnBody(queue), issued \in Nat,
         Transcript(messages, issued), Unanswered(messages) = {}
  PROVE  /\ Transcript(messages', issued) /\ Unanswered(messages') = {}
         /\ pending' \in Seq(UserMessages)
         /\ pc' \in {"inject", "stopping", "stream"}
         /\ pc' # "inject" => pending' = << >>
<1>1. CASE queue # << >> /\ messages' = Append(messages, Head(queue))
           /\ pending' = Tail(queue) /\ pc' = "inject"
  <2>1. Head(queue) \in UserMessages /\ Tail(queue) \in Seq(UserMessages)
    BY <1>1, HeadTailProperties
  <2> QED BY <1>1, <2>1, AppendUser DEF Unanswered
<1>2. CASE messages' = Append(messages, ErrorMessage)
           /\ pending' = << >> /\ pc' = "stopping"
  <2>1. ErrorMessage \in AssistantMessages /\ Elements(ErrorMessage.calls) = {}
    BY ErrorMessageFacts
  <2>2. Transcript(messages', issued) /\ Unanswered(messages') = {}
    BY <1>2, <2>1, AppendAssistant
  <2> QED BY <1>2, <2>2
<1>3. CASE messages' = messages /\ pending' = << >> /\ pc' = "stream"
  BY <1>3
<1> QED BY <1>1, <1>2, <1>3 DEF TurnBody

LEMMA TurnStartFacts ==
  ASSUME IInv, LeaveStart \/ LeaveTurnStart
  PROVE  /\ Transcript(messages', issued) /\ Unanswered(messages') = {}
         /\ pending' \in Seq(UserMessages) /\ steering' \in Seq(UserMessages)
         /\ pc' \in {"inject", "stopping", "stream"}
         /\ pc' # "inject" => pending' = << >>
<1>1. /\ issued \in Nat /\ Transcript(messages, issued) /\ Unanswered(messages) = {}
      /\ steering \in Seq(UserMessages) /\ pending \in Seq(UserMessages)
  BY DEF IInv, TypeOK, Settled, LeaveStart, LeaveTurnStart
<1>2. CASE LeaveStart /\ MaxTurns < 1
  <2>1. messages' = Append(messages, ErrorMessage) /\ pc' = "stopping"
        /\ pending' = pending /\ steering' = steering
    BY <1>2, ConstantsAssumption DEF LeaveStart
  <2>2. Transcript(messages', issued) /\ Unanswered(messages') = {}
    BY <1>1, <2>1, ErrorMessageFacts, AppendAssistant
  <2>3. pending = << >>
    BY <1>2 DEF LeaveStart, IInv, TypeOK
  <2> QED BY <1>1, <2>1, <2>2, <2>3
<1>3. CASE LeaveStart /\ MaxTurns >= 1
  <2>1. TurnBody(Drained(steering)) /\ steering' = Undrained(steering)
    BY <1>3, ConstantsAssumption DEF LeaveStart
  <2>2. Drained(steering) \in Seq(UserMessages) /\ Undrained(steering) \in Seq(UserMessages)
    BY <1>1, QueueTypes
  <2> QED BY <1>1, <2>1, <2>2, TurnBodyFacts
<1>4. CASE LeaveTurnStart
  <2>1. TurnBody(pending) /\ steering' = steering
    BY <1>4 DEF LeaveTurnStart, queueVars
  <2> QED BY <1>1, <2>1, TurnBodyFacts
<1> QED BY <1>2, <1>3, <1>4, ConstantsAssumption

(***************************************************************************)
(* Every step preserves the invariant.                                     *)
(***************************************************************************)
LEMMA StepInvariant == IInv /\ [Next]_vars => IInv'
<1> SUFFICES ASSUME IInv, [Next]_vars PROVE IInv'
  OBVIOUS
<1> USE DEF IInv, queueVars, runVars
<1>a. /\ issued \in Nat /\ submitted \in Nat /\ turn \in Nat
      /\ Transcript(messages, issued)
      /\ messages \in Seq(Messages)
      /\ TypeOK
  BY DEF TypeOK, Transcript
<1>1. CASE Prompt
  <2>1. PICK r \in Repaired(messages) :
          messages' = Append(r, User(submitted + 1, "prompt"))
    BY <1>1 DEF Prompt, PromptOn
  <2>2. Transcript(r, issued) /\ Unanswered(r) = {}
    BY <1>a, <1>1, <2>1, RepairTranscript
  <2>3. User(submitted + 1, "prompt") \in UserMessages
    BY <1>a, UserIsMessage DEF Via
  <2>4. Transcript(messages', issued) /\ Unanswered(messages') = {}
    BY <1>a, <2>1, <2>2, <2>3, AppendUser DEF Unanswered
  <2>5. TypeOK'
    BY <1>1, <2>4, <1>a DEF Prompt, PromptOn, HandIn, TypeOK, PCs, Transcript, Running
  <2> QED BY <1>1, <2>4, <2>5 DEF Prompt, PromptOn, Settled, Batch
<1>2. CASE Continue
  <2>1. Transcript(messages', issued) /\ Unanswered(messages') = {}
    BY <1>a, <1>2, RepairTranscript DEF Continue, Resume
  <2>2. TypeOK'
    BY <1>2, <2>1, <1>a DEF Continue, Resume, TypeOK, PCs, Transcript, Running
  <2> QED BY <1>2, <2>1, <2>2 DEF Continue, Resume, Settled, Batch
<1>3. CASE Steer \/ FollowUp
  <2>1. /\ User(submitted + 1, "steer") \in UserMessages
        /\ User(submitted + 1, "followUp") \in UserMessages
    BY <1>a, UserIsMessage DEF Via
  <2>2. steering' \in Seq(UserMessages) /\ followUp' \in Seq(UserMessages)
    <3>1. steering \in Seq(UserMessages) /\ followUp \in Seq(UserMessages)
      BY <1>a DEF TypeOK
    <3>2. CASE Steer
      BY <2>1, <3>1, <3>2 DEF Steer
    <3>3. CASE FollowUp
      BY <2>1, <3>1, <3>3 DEF FollowUp
    <3> QED BY <1>3, <3>2, <3>3
  <2>3. TypeOK'
    BY <1>3, <2>2, <1>a DEF Steer, FollowUp, HandIn, TypeOK
  <2> QED BY <1>3, <2>3 DEF Steer, FollowUp, Settled, Batch
<1>4. CASE PopSteering \/ PopFollowUp \/ ClearQueues
  <2>1. steering' \in Seq(UserMessages) /\ followUp' \in Seq(UserMessages)
    <3>1. \A q \in Seq(UserMessages) : SubSeq(q, 1, Len(q) - 1) \in Seq(UserMessages)
      <4> TAKE q \in Seq(UserMessages)
      <4>1. Len(q) \in Nat /\ \A i \in 1 .. Len(q) - 1 : q[i] \in UserMessages
        BY ElementOfSeq, LenProperties
      <4> QED BY <4>1, SubSeqProperties
    <3>2. steering \in Seq(UserMessages) /\ followUp \in Seq(UserMessages)
      BY <1>a DEF TypeOK
    <3>3. CASE PopSteering
      BY <3>1, <3>2, <3>3 DEF PopSteering
    <3>4. CASE PopFollowUp
      BY <3>1, <3>2, <3>4 DEF PopFollowUp
    <3>5. CASE ClearQueues
      BY <3>2, <3>5 DEF ClearQueues
    <3> QED BY <1>4, <3>3, <3>4, <3>5
  <2>2. TypeOK'
    BY <1>4, <2>1, <1>a DEF PopSteering, PopFollowUp, ClearQueues, TypeOK
  <2> QED BY <1>4, <2>2 DEF PopSteering, PopFollowUp, ClearQueues, Settled, Batch
<1>5. CASE Cancel
  <2>1. TypeOK'
    BY <1>5, <1>a DEF Cancel, TypeOK, Running
  <2> QED BY <1>5, <2>1 DEF Cancel, Settled, Batch
<1>6. CASE AppendMessage
  <2>1. User(submitted + 1, "append") \in UserMessages
    BY <1>a, UserIsMessage DEF Via
  <2>2. /\ Transcript(messages', issued)
        /\ Called(messages') = Called(messages) /\ Returned(messages') = Returned(messages)
    BY <1>a, <1>6, <2>1, AppendUser DEF AppendMessage
  <2>3. TypeOK'
    BY <1>6, <2>2, <1>a DEF AppendMessage, HandIn, TypeOK, Transcript
  <2> QED BY <1>6, <2>2, <2>3 DEF AppendMessage, Settled, Batch, Unanswered
<1>7. CASE ReplaceMessages
  <2>1. Transcript(messages', issued)
    BY <1>a, <1>7, ReplacedTranscript DEF ReplaceMessages
  <2>2. TypeOK'
    BY <1>7, <2>1, <1>a DEF ReplaceMessages, TypeOK, Transcript
  <2> QED BY <1>7, <2>1, <2>2 DEF ReplaceMessages, Running, Settled, Batch
<1>8. CASE Close \/ Finish
  <2>1. Finally
    BY <1>8 DEF Close, Finish
  <2>2. Transcript(messages', issued)
    BY <1>a, <2>1, RepairTranscript DEF Finally
  <2>3. << >> \in Seq(UserMessages) /\ << >> \in Seq(CallIds)
    OBVIOUS
  <2>4. TypeOK'
    BY <2>1, <2>2, <2>3, <1>a, ErrorMessageFacts
       DEF Finally, TypeOK, Transcript, PCs, Outcomes
  <2> QED BY <2>1, <2>2, <2>4, ErrorMessageFacts, NoCalls DEF Finally, Settled, Batch
<1>9. CASE LeaveStart \/ LeaveTurnStart
  <2>1. /\ Transcript(messages', issued) /\ Unanswered(messages') = {}
        /\ pending' \in Seq(UserMessages) /\ steering' \in Seq(UserMessages)
        /\ pc' \in {"inject", "stopping", "stream"}
        /\ pc' # "inject" => pending' = << >>
    BY <1>9, TurnStartFacts
  <2>2. TypeOK'
    BY <1>9, <2>1, <1>a DEF LeaveStart, LeaveTurnStart, TypeOK, Transcript, PCs
  <2> QED BY <1>9, <2>1, <2>2 DEF LeaveStart, LeaveTurnStart, Settled, Batch
<1>10. CASE ProviderEnds
  <2>1. PICK n \in 0 .. MaxBatch, failed \in BOOLEAN :
          reply' = Assistant(NewCalls(n), failed) /\ issued' = issued + n
    BY <1>10 DEF ProviderEnds
  <2>2. n \in Nat /\ issued' \in Nat /\ 1 .. issued \subseteq 1 .. issued'
    BY <1>a, <2>1, ConstantsAssumption
  <2>3. /\ reply' \in AssistantMessages /\ reply'.calls = NewCalls(n)
        /\ Elements(reply'.calls) \subseteq 1 .. issued'
        /\ FreshCallIds => Elements(reply'.calls) \cap (1 .. issued) = {}
    BY <1>a, <2>1, <2>2, NewCallsFacts DEF Assistant, AssistantMessages
  <2>4. /\ Transcript(messages, issued')
        /\ FreshCallIds => Elements(reply'.calls) \cap Returned(messages) = {}
    BY <1>a, <2>2, <2>3 DEF Transcript
  <2>5. TypeOK'
    BY <1>10, <2>2, <2>3, <1>a DEF ProviderEnds, TypeOK, PCs
  <2> QED BY <1>10, <2>2, <2>3, <2>4, <2>5 DEF ProviderEnds, Settled, Batch
<1>11. CASE LeaveAssistantEnd
  <2>1. /\ Unanswered(messages) = {} /\ reply \in AssistantMessages
        /\ FreshCallIds => Elements(reply.calls) \cap Returned(messages) = {}
        /\ messages' = Append(messages, reply)
    BY <1>a, <1>11 DEF LeaveAssistantEnd, Settled, TypeOK
  <2>2. /\ Transcript(messages', issued)
        /\ Unanswered(messages') \subseteq Elements(reply.calls)
    BY <1>a, <2>1, AppendAssistant
  <2>3. reply.calls \in Seq(CallIds)
    BY <2>1 DEF AssistantMessages
  <2>4. /\ todo' \in Seq(CallIds) /\ Elements(todo') \subseteq 1 .. issued
        /\ pc' \in {"stopping", "turnEnd", "toolStart"}
        /\ pc' = "toolStart" => todo' # << >> /\ Unanswered(messages') \subseteq Elements(todo')
        /\ pc' = "turnEnd" => Unanswered(messages') = {}
    BY <1>a, <1>11, <2>2, <2>3, NoCalls DEF LeaveAssistantEnd, TypeOK
  <2>5. TypeOK'
    BY <1>11, <2>2, <2>4, <1>a DEF LeaveAssistantEnd, TypeOK, PCs, Transcript
  <2> QED BY <1>11, <2>2, <2>4, <2>5 DEF LeaveAssistantEnd, Settled, Batch
<1>12. CASE ToolRefused \/ ToolRuns \/ ToolReturns
  <2>1. TypeOK'
    BY <1>12, <1>a DEF ToolRefused, ToolRuns, ToolReturns, TypeOK, PCs, Outcomes
  <2> QED BY <1>12, <2>1 DEF ToolRefused, ToolRuns, ToolReturns, Settled, Batch
<1>13. CASE LeaveToolEnd
  <2>1. todo # << >> /\ todo \in Seq(CallIds) /\ outcome \in Outcomes
    BY <1>a, <1>13 DEF LeaveToolEnd, TypeOK
  <2>2. /\ Head(todo) \in CallIds /\ Tail(todo) \in Seq(CallIds)
        /\ Elements(todo) = {Head(todo)} \cup Elements(Tail(todo))
    BY <2>1, HeadTailElements
  <2>3. /\ Transcript(messages', issued)
        /\ Called(messages') = Called(messages)
        /\ Returned(messages') = Returned(messages) \cup {Head(todo)}
    BY <1>a, <1>13, <2>1, <2>2, AppendResult DEF LeaveToolEnd
  <2>4. Unanswered(messages') \subseteq Elements(Tail(todo))
    BY <1>13, <2>2, <2>3 DEF LeaveToolEnd, Batch, Unanswered
  <2>5. TypeOK'
    BY <1>13, <2>2, <2>3, <1>a DEF LeaveToolEnd, TypeOK, PCs, Transcript
  <2> QED BY <1>13, <2>2, <2>3, <2>4, <2>5, NoCalls DEF LeaveToolEnd, Settled, Batch
<1>14. CASE LeaveTurnEnd
  <2>1. /\ Drained(steering) \in Seq(UserMessages) /\ Undrained(steering) \in Seq(UserMessages)
        /\ Drained(followUp) \in Seq(UserMessages) /\ Undrained(followUp) \in Seq(UserMessages)
    BY <1>a, QueueTypes DEF TypeOK
  <2>2. /\ pending' \in Seq(UserMessages)
        /\ steering' \in Seq(UserMessages) /\ followUp' \in Seq(UserMessages)
        /\ pc' \in {"turnStart", "stopping"}
        /\ pc' = "stopping" => pending' = << >>
    BY <1>a, <1>14, <2>1 DEF LeaveTurnEnd, TypeOK
  <2>3. TypeOK'
    BY <1>14, <2>2, <1>a DEF LeaveTurnEnd, TypeOK, PCs
  <2> QED BY <1>14, <2>2, <2>3 DEF LeaveTurnEnd, Settled, Batch
<1>15. CASE UNCHANGED vars
  BY <1>15 DEF vars, TypeOK
<1> QED
  BY <1>1, <1>2, <1>3, <1>4, <1>5, <1>6, <1>7, <1>8, <1>9, <1>10, <1>11, <1>12,
     <1>13, <1>14, <1>15 DEF Next, Step, Caller

THEOREM InvariantHolds == Spec => []IInv
BY InitInvariant, StepInvariant, PTL DEF Spec

-----------------------------------------------------------------------------
(***************************************************************************)
(* What follows.                                                           *)
(***************************************************************************)

(* Every variable of the harness keeps its type, a tool phase always has a     *)
(* call to work on and only an injection in progress holds drained messages,   *)
(* whatever the queue mode, the limits and the providers' ids.                 *)
THEOREM TypeCorrect == Spec => []TypeOK
<1>1. IInv => TypeOK
  BY DEF IInv
<1> QED BY <1>1, InvariantHolds, PTL

(* With ids that are not used again, every request and every assistant message *)
(* finds all earlier tool calls answered in front of it, over any number of    *)
(* runs, cancellations, teardowns, branches and compactions.                   *)
THEOREM CallsAlwaysAnswered ==
  ASSUME FreshCallIds
  PROVE  Spec => []ToolCallsAnswered
<1>1. IInv => ToolCallsAnswered
  <2> SUFFICES ASSUME IInv PROVE ToolCallsAnswered
    OBVIOUS
  <2>1. Ordered(messages) /\ ResultsFollow(messages) /\ messages \in Seq(Messages)
    BY DEF IInv, Transcript
  <2>2. ASSUME pc = "stream" PROVE AnsweredBefore(messages, Len(messages) + 1)
    BY <2>1, <2>2, SettledAnswered DEF IInv, Settled
  <2> QED BY <2>1, <2>2 DEF Ordered, ToolCallsAnswered
<1> QED BY <1>1, InvariantHolds, PTL

(* However a cancelled run ends, the transcript it leaves has a result for     *)
(* every call.                                                                 *)
THEOREM CancelAlwaysSettles ==
  ASSUME FreshCallIds
  PROVE  Spec => CancelSettlesCalls
<1>1. IInv /\ [Next]_vars =>
        [signal /\ Running /\ ~Running' => AnsweredBefore(messages', Len(messages') + 1)]_vars
  <2> SUFFICES ASSUME IInv, Next, signal, Running, ~Running'
               PROVE  AnsweredBefore(messages', Len(messages') + 1)
    OBVIOUS
  <2>1. Finally
    <3>1. pc # "idle" /\ pc' = "idle"
      BY DEF Running
    <3>2. ~Caller
      BY <3>1 DEF Caller, Prompt, PromptOn, Continue, Resume, Steer, FollowUp, PopSteering,
         PopFollowUp, ClearQueues, Cancel, AppendMessage, ReplaceMessages, Running, runVars
    <3>3. Step => Finish
      BY <3>1 DEF Step, LeaveStart, LeaveTurnStart, TurnBody, ProviderEnds,
         LeaveAssistantEnd, ToolRefused, ToolRuns, ToolReturns, LeaveToolEnd, LeaveTurnEnd
    <3> QED BY <3>2, <3>3 DEF Next, Finish, Close
  <2>2. messages' \in Repaired(messages) /\ Transcript(messages, issued) /\ issued \in Nat
    BY <2>1 DEF Finally, IInv, TypeOK
  <2>3. Transcript(messages', issued) /\ Unanswered(messages') = {}
    BY <2>2, RepairTranscript
  <2> QED BY <2>3, SettledAnswered DEF Transcript
<1> QED BY <1>1, InvariantHolds, PTL DEF Spec, CancelSettlesCalls

(* The harness implements the protocol, whatever the providers' ids: no step   *)
(* asks while a result is owed, or answers what is not owed.                   *)
THEOREM Implementation == Spec => ImplementsProtocol
<1>1. Init => Protocol!Init
  <2>1. Unanswered(<< >>) = {}
    BY DEF Unanswered, Called
  <2> QED BY <2>1 DEF Init, Protocol!Init, Running
<1>2. IInv /\ [Next]_vars => [Protocol!Next]_(Protocol!vars)
  <2> SUFFICES ASSUME IInv, [Next]_vars PROVE [Protocol!Next]_(Protocol!vars)
    OBVIOUS
  <2> DEFINE owed == Unanswered(messages)
             asking == pc \in {"stream", "assistantEnd"}
  <2> USE DEF queueVars, runVars
  <2>1. /\ Transcript(messages, issued) /\ issued \in Nat
        /\ owed \in SUBSET CallIds
        /\ asking => owed = {}
    BY DEF IInv, TypeOK, Transcript, Settled, Unanswered, CallIds
  <2>2. owed' \in SUBSET CallIds
    <3>1. IInv'
      BY StepInvariant
    <3> QED BY <3>1 DEF IInv, TypeOK, Transcript, Unanswered, CallIds
  <2>3. CASE Prompt \/ Continue
    <3>1. PICK r \in Repaired(messages) :
            messages' = r \/ messages' = Append(r, User(submitted + 1, "prompt"))
      BY <2>3 DEF Prompt, PromptOn, Continue, Resume
    <3>2. Transcript(r, issued) /\ Unanswered(r) = {}
      BY <2>1, <3>1, RepairTranscript
    <3>3. User(submitted + 1, "prompt") \in UserMessages
      BY UserIsMessage DEF IInv, TypeOK, Via
    <3>4. owed' = {}
      BY <2>1, <3>1, <3>2, <3>3, AppendUser DEF Unanswered
    <3>5. pc = "idle" /\ pc' = "start"
      BY <2>3 DEF Prompt, PromptOn, Continue, Resume, Running
    <3> QED BY <3>4, <3>5 DEF Protocol!Next, Protocol!Start, Running
  <2>4. CASE AppendMessage
    <3>1. User(submitted + 1, "append") \in UserMessages
      BY UserIsMessage DEF IInv, TypeOK, Via
    <3>2. owed' = owed
      BY <2>1, <2>4, <3>1, AppendUser DEF AppendMessage, Unanswered
    <3> QED BY <2>4, <3>2 DEF AppendMessage, Protocol!vars, Running
  <2>5. CASE ReplaceMessages
    BY <2>2, <2>5 DEF ReplaceMessages, Protocol!Next, Protocol!Rewind, Running
  <2>6. CASE Steer \/ FollowUp \/ PopSteering \/ PopFollowUp \/ ClearQueues \/ Cancel
    BY <2>6 DEF Steer, FollowUp, PopSteering, PopFollowUp, ClearQueues, Cancel,
       Protocol!vars, Running
  <2>7. CASE Close \/ Finish
    <3>1. owed' \in {owed, {}}
      BY <2>1, <2>7, RepairTranscript DEF Close, Finish, Finally
    <3> QED BY <2>7, <3>1 DEF Close, Finish, Finally, Protocol!Next, Protocol!Stop, Running
  <2>8. CASE LeaveStart \/ LeaveTurnStart
    <3>1. owed = {} /\ pc \in {"start", "turnStart", "inject"}
      BY <2>8 DEF LeaveStart, LeaveTurnStart, IInv, Settled
    <3>2. owed' = {} /\ pc' \in {"inject", "stopping", "stream"}
      BY <2>8, TurnStartFacts
    <3> QED BY <3>1, <3>2 DEF Protocol!Next, Protocol!Ask, Protocol!vars, Running
  <2>9. CASE ProviderEnds
    BY <2>9 DEF ProviderEnds, Protocol!vars, Running
  <2>10. CASE LeaveAssistantEnd
    BY <2>2, <2>10 DEF LeaveAssistantEnd, Protocol!Next, Protocol!Reply, Running
  <2>11. CASE ToolRefused \/ ToolRuns \/ ToolReturns
    BY <2>11 DEF ToolRefused, ToolRuns, ToolReturns, Protocol!vars, Running
  <2>12. CASE LeaveToolEnd
    <3>1. todo # << >> /\ todo \in Seq(CallIds) /\ outcome \in Outcomes
          /\ Elements(todo) \subseteq 1 .. issued
      BY <2>12 DEF LeaveToolEnd, IInv, TypeOK
    <3>2. Head(todo) \in CallIds /\ Head(todo) \in 1 .. issued
      BY <3>1, HeadTailElements
    <3>3. owed' = owed \ {Head(todo)}
      BY <2>1, <2>12, <3>1, <3>2, AppendResult DEF LeaveToolEnd, Unanswered
    <3>4. pc = "toolEnd" /\ pc' \in {"turnEnd", "toolStart"}
      BY <2>12 DEF LeaveToolEnd
    <3>5. CASE Head(todo) \in owed
      BY <3>3, <3>4, <3>5 DEF Protocol!Next, Protocol!Answer, Running
    <3>6. CASE Head(todo) \notin owed
      BY <3>3, <3>4, <3>6 DEF Protocol!vars, Running
    <3> QED BY <3>5, <3>6
  <2>13. CASE LeaveTurnEnd
    BY <2>13 DEF LeaveTurnEnd, Protocol!vars, Running
  <2>14. CASE UNCHANGED vars
    BY <2>14 DEF vars, Protocol!vars, Running
  <2> QED
    BY <2>3, <2>4, <2>5, <2>6, <2>7, <2>8, <2>9, <2>10, <2>11, <2>12, <2>13, <2>14
       DEF Next, Step, Caller
<1> QED BY <1>1, <1>2, InvariantHolds, PTL DEF Spec, ImplementsProtocol, Protocol!Spec

-----------------------------------------------------------------------------
(***************************************************************************)
(* No call is answered twice.  What the steps need beyond IInv: a batch    *)
(* holds each call once, and none that has its result.                     *)
(***************************************************************************)
NoRepeat(s) == \A x, y \in DOMAIN s : x # y => s[x] # s[y]

OneResult(msgs) ==
  \A i, j \in DOMAIN msgs :
    msgs[i].role = "toolResult" /\ msgs[j].role = "toolResult" /\ i # j
      => msgs[i].call # msgs[j].call

OnceInv ==
  /\ OneResult(messages)
  /\ pc = "assistantEnd" => NoRepeat(reply.calls)
  /\ pc \in Batch => NoRepeat(todo) /\ Elements(todo) \cap Returned(messages) = {}

LEMMA AppendOneResult ==
  ASSUME NEW m \in Seq(Messages), OneResult(m), NEW x \in Messages,
         x.role = "toolResult" => x.call \notin Returned(m)
  PROVE  OneResult(Append(m, x))
<1> DEFINE a == Append(m, x)
<1>1. /\ Len(m) \in Nat /\ DOMAIN m = 1 .. Len(m) /\ DOMAIN a = 1 .. Len(m) + 1
      /\ \A i \in 1 .. Len(m) : a[i] = m[i]
      /\ a[Len(m) + 1] = x
  BY AppendFacts
<1> HIDE DEF a
<1>2. \A i \in 1 .. Len(m) : m[i].role = "toolResult" => m[i].call \in Returned(m)
  BY CalledReturned DEF AnswersAt
<1>3. SUFFICES ASSUME NEW i \in 1 .. Len(m) + 1, NEW j \in 1 .. Len(m) + 1, i # j,
                      a[i].role = "toolResult", a[j].role = "toolResult"
               PROVE  a[i].call # a[j].call
  BY <1>1 DEF OneResult, a
<1>4. CASE i \in 1 .. Len(m) /\ j \in 1 .. Len(m)
  BY <1>1, <1>3, <1>4 DEF OneResult
<1>5. CASE i = Len(m) + 1
  BY <1>1, <1>2, <1>3, <1>5
<1>6. CASE j = Len(m) + 1
  BY <1>1, <1>2, <1>3, <1>6
<1> QED BY <1>1, <1>4, <1>5, <1>6

(* A repair answers each call it answers once: its enumeration of the          *)
(* unanswered calls is onto, and no longer than they are many.                 *)
LEMMA RepairOneResult ==
  ASSUME NEW n \in Nat, NEW m, Transcript(m, n), OneResult(m), NEW r \in Repaired(m)
  PROVE  OneResult(r)
<1> DEFINE U == Unanswered(m)
           N == Cardinality(U)
<1>1. /\ m \in Seq(Messages) /\ Len(m) \in Nat
      /\ DOMAIN m = 1 .. Len(m) /\ DOMAIN r = 1 .. Len(r)
      /\ \A i \in 1 .. Len(m) : r[i] = m[i]
      /\ \A i \in Len(m) + 1 .. Len(r) : r[i].call \in U
      /\ N \in Nat /\ Len(r) = Len(m) + N
  BY RepairFacts DEF Transcript
<1>2. PICK s \in [1 .. N -> U] :
        /\ \A c \in U : \E i \in DOMAIN s : s[i] = c
        /\ \A i \in Len(m) + 1 .. Len(r) : r[i].call = s[i - Len(m)]
  BY RepairFacts
<1>3. \A i, j \in 1 .. N : i # j => s[i] # s[j]
  <2>1. s \in Surjection(1 .. N, U)
    BY <1>2 DEF Surjection
  <2>2. IsFiniteSet(1 .. N) /\ Cardinality(1 .. N) = N
    BY <1>1, FS_Interval
  <2>3. s \in Injection(1 .. N, U)
    BY <2>1, <2>2, FS_SurjSameCardinalityImpliesInj
  <2> QED BY <2>3 DEF Injection, IsInjective
<1>4. SUFFICES ASSUME NEW i \in 1 .. Len(r), NEW j \in 1 .. Len(r), i # j,
                      r[i].role = "toolResult", r[j].role = "toolResult"
               PROVE  r[i].call # r[j].call
  BY <1>1 DEF OneResult
<1>5. \A k \in 1 .. Len(m) : m[k].role = "toolResult" => m[k].call \in Returned(m)
  BY <1>1, CalledReturned DEF AnswersAt
<1>6. \A c \in U : c \notin Returned(m)
  BY DEF Unanswered
<1> HIDE DEF U, N
<1>7. CASE i <= Len(m) /\ j <= Len(m)
  BY <1>1, <1>4, <1>7 DEF OneResult
<1>8. CASE i <= Len(m) /\ j > Len(m)
  BY <1>1, <1>4, <1>5, <1>6, <1>8
<1>9. CASE i > Len(m) /\ j <= Len(m)
  BY <1>1, <1>4, <1>5, <1>6, <1>9
<1>10. CASE i > Len(m) /\ j > Len(m)
  <2>1. /\ i - Len(m) \in 1 .. N /\ j - Len(m) \in 1 .. N /\ i - Len(m) # j - Len(m)
        /\ r[i].call = s[i - Len(m)] /\ r[j].call = s[j - Len(m)]
    BY <1>1, <1>2, <1>4, <1>10
  <2> QED BY <1>3, <2>1
<1> QED BY <1>1, <1>7, <1>8, <1>9, <1>10

LEMMA SliceOneResult ==
  ASSUME NEW m \in Seq(Messages), OneResult(m),
         NEW q \in Branches(m) \cup Compactions(m)
  PROVE  OneResult(q)
<1>1. Len(m) \in Nat /\ DOMAIN m = 1 .. Len(m) /\ \A i \in 1 .. Len(m) : m[i] \in Messages
  BY LenProperties, ElementOfSeq
<1>2. CASE q \in Branches(m)
  <2>1. PICK k \in 0 .. Len(m) - 1 : q = SubSeq(m, 1, k)
    BY <1>2 DEF Branches
  <2>2. /\ q \in Seq(Messages) /\ Len(q) = k /\ DOMAIN q = 1 .. k
        /\ \A i \in 1 .. k : q[i] = m[i]
    BY <1>1, <2>1, SubSeqProperties, LenProperties
  <2> QED BY <1>1, <2>1, <2>2 DEF OneResult
<1>3. CASE q \in Compactions(m)
  <2> DEFINE u == User(0, "summary")
  <2>1. PICK j \in 2 .. Len(m) : q = <<u>> \o SubSeq(m, j, Len(m))
    BY <1>3 DEF Compactions
  <2> DEFINE t == SubSeq(m, j, Len(m))
  <2>2. t \in Seq(Messages) /\ Len(t) = Len(m) - j + 1
        /\ \A i \in 1 .. Len(m) - j + 1 : t[i] = m[j + i - 1]
    BY <1>1, <2>1, SubSeqProperties
  <2>3. <<u>> \in Seq(Messages) /\ Len(<<u>>) = 1 /\ <<u>>[1] = u
        /\ u.role = "user"
    BY DEF User, Messages, UserMessages, Via
  <2> HIDE DEF t, u
  <2>4. /\ q \in Seq(Messages) /\ Len(q) = Len(t) + 1 /\ DOMAIN q = 1 .. Len(q)
        /\ \A i \in 1 .. Len(t) + 1 : q[i] = IF i <= 1 THEN u ELSE t[i - 1]
    BY <2>1, <2>2, <2>3, ConcatProperties, LenProperties DEF t
  <2>5. \A i \in 2 .. Len(q) : i + (j - 2) \in 1 .. Len(m) /\ q[i] = m[i + (j - 2)]
    <3> TAKE i \in 2 .. Len(q)
    <3>1. i - 1 \in 1 .. Len(m) - j + 1 /\ j + (i - 1) - 1 = i + (j - 2) /\ ~(i <= 1)
      BY <1>1, <2>2, <2>4
    <3>2. q[i] = t[i - 1]
      BY <2>2, <2>4, <3>1
    <3>3. t[i - 1] = m[j + (i - 1) - 1]
      BY <2>2, <3>1
    <3> QED BY <1>1, <2>1, <3>1, <3>2, <3>3
  <2>6. \A i \in 1 .. Len(q) : q[i].role = "toolResult" => i \in 2 .. Len(q)
    BY <2>2, <2>3, <2>4
  <2>7. SUFFICES ASSUME NEW i \in 2 .. Len(q), NEW k \in 2 .. Len(q), i # k,
                        q[i].role = "toolResult", q[k].role = "toolResult"
                 PROVE  q[i].call # q[k].call
    BY <2>4, <2>6 DEF OneResult
  <2>8. i + (j - 2) # k + (j - 2)
    BY <2>4, <2>7
  <2>9. /\ i + (j - 2) \in DOMAIN m /\ k + (j - 2) \in DOMAIN m
        /\ m[i + (j - 2)].role = "toolResult" /\ m[k + (j - 2)].role = "toolResult"
        /\ q[i].call = m[i + (j - 2)].call /\ q[k].call = m[k + (j - 2)].call
    BY <1>1, <2>5, <2>7
  <2>10. m[i + (j - 2)].call # m[k + (j - 2)].call
    BY <2>8, <2>9 DEF OneResult
  <2> QED BY <2>9, <2>10
<1> QED BY <1>2, <1>3

LEMMA OnceInvariant ==
  ASSUME FreshCallIds, IInv, OnceInv, [Next]_vars
  PROVE  OnceInv'
<1> USE DEF OnceInv, queueVars, runVars
<1>a. /\ issued \in Nat /\ submitted \in Nat
      /\ Transcript(messages, issued) /\ messages \in Seq(Messages)
      /\ OneResult(messages)
  BY DEF IInv, TypeOK, Transcript
<1>b. ASSUME NEW id \in Nat, NEW via \in Via
      PROVE  User(id, via) \in Messages /\ User(id, via).role = "user"
  BY UserIsMessage DEF User, Messages
<1>1. CASE Prompt
  <2>1. PICK r \in Repaired(messages) :
          messages' = Append(r, User(submitted + 1, "prompt"))
    BY <1>1 DEF Prompt, PromptOn
  <2>2. r \in Seq(Messages) /\ OneResult(r)
    BY <1>a, <2>1, RepairFacts, RepairOneResult
  <2>3. OneResult(messages')
    BY <1>a, <1>b, <2>1, <2>2, AppendOneResult DEF Via
  <2> QED BY <1>1, <2>3 DEF Prompt, PromptOn, Batch
<1>2. CASE Continue
  BY <1>a, <1>2, RepairOneResult DEF Continue, Resume, Batch
<1>3. CASE Steer \/ FollowUp \/ PopSteering \/ PopFollowUp \/ ClearQueues \/ Cancel
  BY <1>3 DEF Steer, FollowUp, PopSteering, PopFollowUp, ClearQueues, Cancel, Batch
<1>4. CASE AppendMessage
  <2>1. User(submitted + 1, "append") \in UserMessages
    BY <1>a, UserIsMessage DEF Via
  <2>2. OneResult(messages') /\ Returned(messages') = Returned(messages)
    BY <1>a, <1>b, <1>4, <2>1, AppendOneResult, AppendUser DEF AppendMessage, Via
  <2> QED BY <1>4, <2>2 DEF AppendMessage, Batch
<1>5. CASE ReplaceMessages
  BY <1>a, <1>5, SliceOneResult DEF ReplaceMessages, Running, Batch
<1>6. CASE Close \/ Finish
  BY <1>a, <1>6, RepairOneResult DEF Close, Finish, Finally, Batch
<1>7. CASE LeaveStart \/ LeaveTurnStart
  <2>1. \/ messages' = messages
        \/ messages' = Append(messages, ErrorMessage)
        \/ \E u \in UserMessages : messages' = Append(messages, u)
    <3>1. CASE LeaveTurnStart
      <4>1. pending # << >> => Head(pending) \in UserMessages
        BY HeadTailProperties DEF IInv, TypeOK
      <4> QED BY <3>1, <4>1 DEF LeaveTurnStart, TurnBody
    <3>2. CASE LeaveStart
      <4>1. Drained(steering) \in Seq(UserMessages)
        BY QueueTypes DEF IInv, TypeOK
      <4>2. Drained(steering) # << >> => Head(Drained(steering)) \in UserMessages
        BY <4>1, HeadTailProperties
      <4> QED BY <3>2, <4>2 DEF LeaveStart, TurnBody
    <3> QED BY <1>7, <3>1, <3>2
  <2>2. ErrorMessage \in Messages /\ ErrorMessage.role = "assistant"
    BY ErrorMessageFacts DEF ErrorMessage, Assistant, Messages
  <2>3. \A u \in UserMessages : u \in Messages /\ u.role = "user"
    BY DEF Messages, UserMessages
  <2>4. OneResult(messages')
    BY <1>a, <2>1, <2>2, <2>3, AppendOneResult
  <2>5. pc' \in {"inject", "stopping", "stream"}
    BY <1>7, TurnStartFacts
  <2> QED BY <2>4, <2>5 DEF Batch
<1>8. CASE ProviderEnds
  <2>1. PICK n \in 0 .. MaxBatch, failed \in BOOLEAN : reply' = Assistant(NewCalls(n), failed)
    BY <1>8 DEF ProviderEnds
  <2>2. NoRepeat(reply'.calls)
    BY <1>a, <2>1 DEF Assistant, NewCalls, NoRepeat
  <2> QED BY <1>8, <2>2 DEF ProviderEnds, Batch
<1>9. CASE LeaveAssistantEnd
  <2>1. reply \in Messages /\ reply.role = "assistant"
    BY DEF IInv, TypeOK, Messages, AssistantMessages
  <2>2. OneResult(messages') /\ Returned(messages') = Returned(messages)
    BY <1>a, <1>9, <2>1, AppendOneResult, AppendFacts DEF LeaveAssistantEnd
  <2>3. pc' \in Batch => todo' = reply.calls
    BY <1>9 DEF LeaveAssistantEnd, Batch
  <2>4. pc' # "assistantEnd"
    BY <1>9 DEF LeaveAssistantEnd
  <2> QED BY <1>9, <2>2, <2>3, <2>4 DEF LeaveAssistantEnd, IInv
<1>10. CASE ToolRefused \/ ToolRuns \/ ToolReturns
  BY <1>10 DEF ToolRefused, ToolRuns, ToolReturns, Batch
<1>11. CASE LeaveToolEnd
  <2>1. /\ todo # << >> /\ todo \in Seq(CallIds) /\ outcome \in Outcomes
        /\ NoRepeat(todo) /\ Elements(todo) \cap Returned(messages) = {}
        /\ messages' = Append(messages, ToolResult(Head(todo), outcome))
        /\ todo' = Tail(todo)
    BY <1>11 DEF LeaveToolEnd, IInv, TypeOK, Batch
  <2>2. /\ Head(todo) \in CallIds /\ Elements(todo) = {Head(todo)} \cup Elements(Tail(todo))
    BY <2>1, HeadTailElements
  <2>3. /\ OneResult(messages')
        /\ Returned(messages') = Returned(messages) \cup {Head(todo)}
    BY <1>a, <2>1, <2>2, ResultIsMessage, AppendOneResult, AppendFacts
  <2>4. NoRepeat(Tail(todo)) /\ Head(todo) \notin Elements(Tail(todo))
    <3>1. /\ Head(todo) = todo[1] /\ DOMAIN todo = 1 .. Len(todo) /\ Len(todo) \in Nat \ {0}
          /\ DOMAIN Tail(todo) = 1 .. Len(todo) - 1
          /\ \A i \in 1 .. Len(todo) - 1 : Tail(todo)[i] = todo[i + 1]
      BY <2>1, HeadTailProperties, LenProperties, EmptySeq
    <3>2. \A i \in 1 .. Len(todo) - 1 : i + 1 \in 1 .. Len(todo) /\ i + 1 # 1
      BY <3>1
    <3>3. NoRepeat(Tail(todo))
      BY <2>1, <3>1, <3>2 DEF NoRepeat
    <3>4. Head(todo) \notin Elements(Tail(todo))
      BY <2>1, <3>1, <3>2 DEF NoRepeat, Elements
    <3> QED BY <3>3, <3>4
  <2>5. Elements(todo') \cap Returned(messages') = {}
    BY <2>1, <2>2, <2>3, <2>4
  <2> QED BY <1>11, <2>1, <2>3, <2>4, <2>5 DEF LeaveToolEnd
<1>12. CASE LeaveTurnEnd
  BY <1>12 DEF LeaveTurnEnd, Batch
<1>13. CASE UNCHANGED vars
  BY <1>13 DEF vars
<1> QED
  BY <1>1, <1>2, <1>3, <1>4, <1>5, <1>6, <1>7, <1>8, <1>9, <1>10, <1>11, <1>12, <1>13
     DEF Next, Step, Caller

(* With ids that are not used again, the loop, its refusals and the repairs    *)
(* never answer one call twice.                                                *)
THEOREM ResultsAreUnique ==
  ASSUME FreshCallIds
  PROVE  Spec => []OneResultPerCall
<1>1. Init => OnceInv
  BY DEF Init, OnceInv, OneResult, Batch
<1>2. IInv /\ OnceInv /\ [Next]_vars => OnceInv'
  BY OnceInvariant
<1>3. OnceInv => OneResultPerCall
  BY DEF OnceInv, OneResult, OneResultPerCall
<1> QED BY <1>1, <1>2, <1>3, InvariantHolds, PTL DEF Spec

-----------------------------------------------------------------------------
(***************************************************************************)
(* Messages are injected in the order of their queue.  Ids say when a      *)
(* message was handed in: what stands in the transcript came before what   *)
(* is drained, that before what is queued, and all of it before the next.  *)
(***************************************************************************)
Ids(s, v) == {s[i].id : i \in {j \in DOMAIN s : IsVia(s[j], v)}}

Earlier(A, B) == \A a \in A, b \in B : a < b

Only(queue, v) == \A i \in DOMAIN queue : queue[i].via = v

(* m, p and q are one line of the messages handed in via v, all among the      *)
(* first n.                                                                    *)
Line(m, p, q, v, n) ==
  /\ InOrder(m, v) /\ InOrder(p, v) /\ InOrder(q, v)
  /\ Earlier(Ids(m, v), Ids(p, v))
  /\ Earlier(Ids(m, v), Ids(q, v))
  /\ Earlier(Ids(p, v), Ids(q, v))
  /\ Ids(m, v) \cup Ids(p, v) \cup Ids(q, v) \subseteq 0 .. n

OrderInv ==
  /\ Only(steering, "steer") /\ Only(followUp, "followUp")
  /\ Line(messages, pending, steering, "steer", submitted)
  /\ Line(messages, pending, followUp, "followUp", submitted)

(* User messages are messages with an id and a way they came.                  *)
LEMMA UserFacts ==
  /\ Seq(UserMessages) \subseteq Seq(Messages)
  /\ \A u \in UserMessages : u \in Messages /\ u.role = "user" /\ u.id \in Nat /\ u.via \in Via
<1>1. UserMessages \subseteq Messages
  BY DEF Messages
<1>2. \A u \in UserMessages : u.role = "user" /\ u.id \in Nat /\ u.via \in Via
  BY DEF UserMessages
<1>3. \A s \in Seq(UserMessages) : s \in Seq(Messages)
  BY <1>1
<1> QED BY <1>1, <1>2, <1>3

LEMMA IdsOf ==
  ASSUME NEW s \in Seq(Messages), NEW v
  PROVE  /\ Ids(s, v) \subseteq Nat
         /\ \A i \in 1 .. Len(s) : IsVia(s[i], v) => s[i].id \in Ids(s, v)
         /\ \A x \in Ids(s, v) : \E i \in 1 .. Len(s) : IsVia(s[i], v) /\ x = s[i].id
<1>1. DOMAIN s = 1 .. Len(s) /\ \A i \in 1 .. Len(s) : s[i] \in Messages
  BY LenProperties, ElementOfSeq
<1>2. \A x \in Messages : x.role = "user" => x.id \in Nat
  BY DEF Messages, UserMessages, AssistantMessages, ToolResults
<1> QED BY <1>1, <1>2 DEF Ids, IsVia

(* A part of a sequence, shifted or not, keeps its order and brings no id.     *)
LEMMA PartInOrder ==
  ASSUME NEW s \in Seq(Messages), NEW t \in Seq(Messages), NEW v, NEW d \in Int,
         InOrder(s, v),
         \A i \in 1 .. Len(t) : IsVia(t[i], v) => i + d \in 1 .. Len(s) /\ t[i] = s[i + d]
  PROVE  InOrder(t, v) /\ Ids(t, v) \subseteq Ids(s, v)
<1>1. /\ DOMAIN s = 1 .. Len(s) /\ DOMAIN t = 1 .. Len(t) /\ Len(t) \in Nat /\ Len(s) \in Nat
  BY LenProperties
<1>2. InOrder(t, v)
  <2> SUFFICES ASSUME NEW i \in 1 .. Len(t), NEW j \in 1 .. Len(t), i < j,
                      IsVia(t[i], v), IsVia(t[j], v)
               PROVE  t[i].id < t[j].id
    BY <1>1 DEF InOrder
  <2>1. /\ i + d \in 1 .. Len(s) /\ t[i] = s[i + d]
        /\ j + d \in 1 .. Len(s) /\ t[j] = s[j + d]
        /\ i + d < j + d
    OBVIOUS
  <2> QED BY <1>1, <2>1 DEF InOrder
<1>3. Ids(t, v) \subseteq Ids(s, v)
  <2> SUFFICES ASSUME NEW x \in Ids(t, v) PROVE x \in Ids(s, v)
    OBVIOUS
  <2>1. PICK i \in 1 .. Len(t) : IsVia(t[i], v) /\ x = t[i].id
    BY IdsOf
  <2>2. i + d \in 1 .. Len(s) /\ IsVia(s[i + d], v) /\ x = s[i + d].id
    BY <2>1
  <2> QED BY <2>2, IdsOf
<1> QED BY <1>2, <1>3

(* A message behind a sequence: one that came later, or one that is not in     *)
(* this line.                                                                  *)
LEMMA AppendInOrder ==
  ASSUME NEW s \in Seq(Messages), NEW x \in Messages, NEW v, InOrder(s, v),
         IsVia(x, v) => Earlier(Ids(s, v), {x.id})
  PROVE  /\ InOrder(Append(s, x), v)
         /\ Ids(Append(s, x), v) \subseteq
              Ids(s, v) \cup (IF IsVia(x, v) THEN {x.id} ELSE {})
<1> DEFINE a == Append(s, x)
<1>1. /\ a \in Seq(Messages) /\ Len(s) \in Nat /\ Len(a) = Len(s) + 1
      /\ DOMAIN s = 1 .. Len(s) /\ DOMAIN a = 1 .. Len(s) + 1
      /\ \A i \in 1 .. Len(s) : a[i] = s[i]
      /\ a[Len(s) + 1] = x
  BY AppendFacts
<1> HIDE DEF a
<1>2. InOrder(a, v)
  <2> SUFFICES ASSUME NEW i \in 1 .. Len(s) + 1, NEW j \in 1 .. Len(s) + 1, i < j,
                      IsVia(a[i], v), IsVia(a[j], v)
               PROVE  a[i].id < a[j].id
    BY <1>1 DEF InOrder
  <2>1. i \in 1 .. Len(s)
    BY <1>1
  <2>2. CASE j \in 1 .. Len(s)
    BY <1>1, <2>1, <2>2 DEF InOrder
  <2>3. CASE j = Len(s) + 1
    <3>1. s[i].id \in Ids(s, v) /\ a[i] = s[i] /\ a[j] = x
      BY <1>1, <2>1, <2>3, IdsOf
    <3> QED BY <3>1 DEF Earlier
  <2> QED BY <1>1, <2>2, <2>3
<1>3. Ids(a, v) \subseteq Ids(s, v) \cup (IF IsVia(x, v) THEN {x.id} ELSE {})
  <2> SUFFICES ASSUME NEW y \in Ids(a, v), y \notin Ids(s, v)
               PROVE  IsVia(x, v) /\ y = x.id
    OBVIOUS
  <2>1. PICK i \in 1 .. Len(a) : IsVia(a[i], v) /\ y = a[i].id
    BY <1>1, IdsOf
  <2>2. i \notin 1 .. Len(s)
    BY <1>1, <2>1, IdsOf
  <2>3. i = Len(s) + 1
    BY <1>1, <2>2
  <2> QED BY <1>1, <2>1, <2>3
<1> QED BY <1>2, <1>3 DEF a

(* The head of a sequence came before its tail.                                *)
LEMMA HeadInOrder ==
  ASSUME NEW s \in Seq(Messages), s # << >>, NEW v, InOrder(s, v)
  PROVE  /\ Head(s) \in Messages /\ Tail(s) \in Seq(Messages)
         /\ InOrder(Tail(s), v) /\ Ids(Tail(s), v) \subseteq Ids(s, v)
         /\ IsVia(Head(s), v) =>
              Head(s).id \in Ids(s, v) /\ Earlier({Head(s).id}, Ids(Tail(s), v))
<1> DEFINE t == Tail(s)
<1>1. /\ Head(s) \in Messages /\ t \in Seq(Messages) /\ Head(s) = s[1]
      /\ Len(s) \in Nat \ {0} /\ Len(t) = Len(s) - 1
      /\ DOMAIN s = 1 .. Len(s) /\ DOMAIN t = 1 .. Len(s) - 1
      /\ \A i \in 1 .. Len(s) - 1 : t[i] = s[i + 1]
  BY HeadTailProperties, LenProperties, EmptySeq
<1> HIDE DEF t
<1>2. \A i \in 1 .. Len(t) : i + 1 \in 1 .. Len(s) /\ t[i] = s[i + 1]
  BY <1>1
<1>3. InOrder(t, v) /\ Ids(t, v) \subseteq Ids(s, v)
  <2>1. \E d \in Int : \A i \in 1 .. Len(t) : i + d \in 1 .. Len(s) /\ t[i] = s[i + d]
    <3> WITNESS 1 \in Int
    <3> QED BY <1>2
  <2> QED BY <1>1, <2>1, PartInOrder
<1>4. ASSUME IsVia(Head(s), v)
      PROVE  Head(s).id \in Ids(s, v) /\ Earlier({Head(s).id}, Ids(t, v))
  <2>1. 1 \in 1 .. Len(s) /\ IsVia(s[1], v)
    BY <1>1, <1>4
  <2>2. \A i \in 1 .. Len(t) : IsVia(t[i], v) => s[1].id < t[i].id
    BY <1>1, <1>2, <2>1 DEF InOrder
  <2>3. \A x \in Ids(t, v) : s[1].id < x
    BY <1>1, <2>2, IdsOf
  <2> QED BY <1>1, <2>1, <2>3, IdsOf DEF Earlier
<1> QED BY <1>1, <1>3, <1>4 DEF t

(* Draining cuts a queue in two.                                               *)
LEMMA DrainInOrder ==
  ASSUME NEW s \in Seq(UserMessages), NEW v, InOrder(s, v)
  PROVE  /\ InOrder(Drained(s), v) /\ Ids(Drained(s), v) \subseteq Ids(s, v)
         /\ InOrder(Undrained(s), v) /\ Ids(Undrained(s), v) \subseteq Ids(s, v)
         /\ Earlier(Ids(Drained(s), v), Ids(Undrained(s), v))
<1>1. InOrder(<< >>, v) /\ Ids(<< >>, v) = {}
  BY DEF InOrder, Ids
<1>2. s \in Seq(Messages)
  BY UserFacts
<1>3. CASE QueueMode = "all" \/ s = << >>
  BY <1>1, <1>3 DEF Drained, Undrained, Earlier
<1>4. CASE ~(QueueMode = "all" \/ s = << >>)
  <2>1. Drained(s) = <<Head(s)>> /\ Undrained(s) = Tail(s)
    BY <1>4 DEF Drained, Undrained
  <2>2. InOrder(<<Head(s)>>, v)
    BY DEF InOrder
  <2>3. Ids(<<Head(s)>>, v) \subseteq IF IsVia(Head(s), v) THEN {Head(s).id} ELSE {}
    BY DEF Ids
  <2> QED BY <1>2, <1>4, <2>1, <2>2, <2>3, HeadInOrder DEF Earlier
<1> QED BY <1>3, <1>4

(* A queue holds its own messages only, and so does what is cut from it.       *)
LEMMA OnlyFacts ==
  ASSUME NEW s \in Seq(UserMessages), NEW w, Only(s, w)
  PROVE  /\ Only(Drained(s), w) /\ Only(Undrained(s), w)
         /\ Only(SubSeq(s, 1, Len(s) - 1), w)
         /\ \A v : v # w => InOrder(s, v) /\ Ids(s, v) = {}
<1>1. Only(<< >>, w)
  BY DEF Only
<1>2. \A v : v # w => InOrder(s, v) /\ Ids(s, v) = {}
  BY DEF Only, IsVia, InOrder, Ids
<1>3. Only(SubSeq(s, 1, Len(s) - 1), w)
  <2>1. CASE s = << >>
    <3>1. SubSeq(s, 1, Len(s) - 1) = << >>
      BY <2>1, EmptySeq, SubSeqProperties
    <3> QED BY <1>1, <3>1
  <2>2. CASE s # << >>
    <3> DEFINE t == SubSeq(s, 1, Len(s) - 1)
    <3>1. Len(s) \in Nat \ {0} /\ DOMAIN s = 1 .. Len(s)
      BY <2>2, LenProperties, EmptySeq
    <3>2. DOMAIN t = 1 .. Len(s) - 1 /\ \A i \in 1 .. Len(s) - 1 : t[i] = s[i]
      BY <3>1, SubSeqProperties, LenProperties
    <3> QED BY <3>1, <3>2 DEF Only
  <2> QED BY <2>1, <2>2
<1>4. CASE QueueMode = "all" \/ s = << >>
  BY <1>1, <1>2, <1>3, <1>4 DEF Drained, Undrained
<1>5. CASE ~(QueueMode = "all" \/ s = << >>)
  <2>1. Drained(s) = <<Head(s)>> /\ Undrained(s) = Tail(s)
    BY <1>5 DEF Drained, Undrained
  <2>2. /\ Head(s) = s[1] /\ Len(s) \in Nat \ {0} /\ DOMAIN s = 1 .. Len(s)
        /\ DOMAIN Tail(s) = 1 .. Len(s) - 1
        /\ \A i \in 1 .. Len(s) - 1 : Tail(s)[i] = s[i + 1]
    BY <1>5, HeadTailProperties, LenProperties, EmptySeq
  <2>3. Only(<<Head(s)>>, w) /\ Only(Tail(s), w)
    BY <2>2 DEF Only
  <2> QED BY <1>2, <1>3, <2>1, <2>3
<1> QED BY <1>4, <1>5

(* What is left of a line is one.                                              *)
LEMMA LineLeft ==
  ASSUME NEW m, NEW p, NEW q, NEW v, NEW n \in Nat, NEW k \in Nat, n <= k,
         Line(m, p, q, v, n),
         NEW m1, NEW p1, NEW q1,
         InOrder(m1, v), Ids(m1, v) \subseteq Ids(m, v),
         InOrder(p1, v), Ids(p1, v) \subseteq Ids(p, v),
         InOrder(q1, v), Ids(q1, v) \subseteq Ids(q, v)
  PROVE  Line(m1, p1, q1, v, k)
BY DEF Line, Earlier

(* A message that is not in the line may be put behind the transcript.         *)
LEMMA LineAppend ==
  ASSUME NEW m \in Seq(Messages), NEW p, NEW q, NEW v, NEW n \in Nat, NEW k \in Nat, n <= k,
         Line(m, p, q, v, n), NEW x \in Messages, ~IsVia(x, v)
  PROVE  Line(Append(m, x), p, q, v, k)
<1>1. InOrder(Append(m, x), v) /\ Ids(Append(m, x), v) \subseteq Ids(m, v)
  BY AppendInOrder DEF Line
<1> QED BY <1>1 DEF Line, Earlier

(* The next drained message moves to the transcript.                           *)
LEMMA LineInjected ==
  ASSUME NEW m \in Seq(Messages), NEW p \in Seq(Messages), p # << >>, NEW q, NEW v,
         NEW n \in Nat, Line(m, p, q, v, n)
  PROVE  Line(Append(m, Head(p)), Tail(p), q, v, n)
<1> DEFINE x == Head(p)
           a == Append(m, x)
           t == Tail(p)
<1>1. /\ x \in Messages /\ InOrder(t, v) /\ Ids(t, v) \subseteq Ids(p, v)
      /\ IsVia(x, v) => x.id \in Ids(p, v) /\ Earlier({x.id}, Ids(t, v))
  BY HeadInOrder DEF Line
<1> HIDE DEF x, t
<1>2. IsVia(x, v) => Earlier(Ids(m, v), {x.id})
  BY <1>1 DEF Line, Earlier
<1>3. InOrder(a, v) /\ Ids(a, v) \subseteq Ids(m, v) \cup (IF IsVia(x, v) THEN {x.id} ELSE {})
  BY <1>1, <1>2, AppendInOrder DEF Line
<1> QED BY <1>1, <1>3 DEF Line, Earlier, x, t

(* A drained part of the queue waits in front of the rest of it.               *)
LEMMA LineDrained ==
  ASSUME NEW m, NEW s \in Seq(UserMessages), NEW v, NEW n \in Nat,
         Line(m, << >>, s, v, n)
  PROVE  Line(m, Drained(s), Undrained(s), v, n)
BY DrainInOrder DEF Line, Earlier

(* A message handed in goes behind its queue.                                  *)
LEMMA LineQueued ==
  ASSUME NEW m \in Seq(Messages), NEW p \in Seq(Messages), NEW q \in Seq(Messages),
         NEW v, NEW n \in Nat, Line(m, p, q, v, n),
         NEW x \in Messages, x.id = n + 1
  PROVE  Line(m, p, Append(q, x), v, n + 1)
<1>1. Earlier(Ids(m, v), {x.id}) /\ Earlier(Ids(p, v), {x.id}) /\ Earlier(Ids(q, v), {x.id})
  BY DEF Line, Earlier
<1>2. /\ InOrder(Append(q, x), v)
      /\ Ids(Append(q, x), v) \subseteq Ids(q, v) \cup {x.id}
  BY <1>1, AppendInOrder DEF Line
<1> QED BY <1>1, <1>2 DEF Line, Earlier

(* A prefix: a queue without its last message, a transcript branched off.      *)
LEMMA PrefixInOrder ==
  ASSUME NEW s \in Seq(Messages), NEW k \in 0 .. Len(s), NEW v, InOrder(s, v)
  PROVE  InOrder(SubSeq(s, 1, k), v) /\ Ids(SubSeq(s, 1, k), v) \subseteq Ids(s, v)
<1> DEFINE t == SubSeq(s, 1, k)
<1>1. Len(s) \in Nat /\ k \in 0 .. Len(s) /\ \A i \in 1 .. Len(s) : s[i] \in Messages
  BY LenProperties, ElementOfSeq
<1>2. t \in Seq(Messages) /\ Len(t) = k /\ \A i \in 1 .. k : t[i] = s[i]
  BY <1>1, SubSeqProperties
<1>3. \E d \in Int : \A i \in 1 .. Len(t) : i + d \in 1 .. Len(s) /\ t[i] = s[i + d]
  <2> WITNESS 0 \in Int
  <2> QED BY <1>1, <1>2
<1> QED BY <1>2, <1>3, PartInOrder

(* What a repair, a branch or a compaction leaves of the transcript.           *)
LEMMA RepairInOrder ==
  ASSUME NEW n \in Nat, NEW m, Transcript(m, n), NEW r \in Repaired(m), NEW v,
         InOrder(m, v)
  PROVE  r \in Seq(Messages) /\ InOrder(r, v) /\ Ids(r, v) \subseteq Ids(m, v)
<1>1. /\ m \in Seq(Messages) /\ r \in Seq(Messages)
      /\ Len(m) \in Nat /\ Len(r) \in Nat
      /\ \A i \in 1 .. Len(m) : r[i] = m[i]
      /\ \A i \in Len(m) + 1 .. Len(r) : r[i].role = "toolResult"
  BY RepairFacts DEF Transcript
<1>2. \E d \in Int : \A i \in 1 .. Len(r) :
        IsVia(r[i], v) => i + d \in 1 .. Len(m) /\ r[i] = m[i + d]
  <2> WITNESS 0 \in Int
  <2> QED BY <1>1 DEF IsVia
<1> QED BY <1>1, <1>2, PartInOrder

LEMMA ReplaceInOrder ==
  ASSUME NEW m \in Seq(Messages), NEW q \in Branches(m) \cup Compactions(m),
         NEW v \in {"steer", "followUp"}, InOrder(m, v)
  PROVE  InOrder(q, v) /\ Ids(q, v) \subseteq Ids(m, v)
<1>1. Len(m) \in Nat /\ DOMAIN m = 1 .. Len(m)
  BY LenProperties
<1>2. CASE q \in Branches(m)
  <2>1. PICK k \in 0 .. Len(m) - 1 : q = SubSeq(m, 1, k)
    BY <1>2 DEF Branches
  <2> QED BY <1>1, <2>1, PrefixInOrder
<1>3. CASE q \in Compactions(m)
  <2> DEFINE u == User(0, "summary")
  <2>1. PICK j \in 2 .. Len(m) : q = <<u>> \o SubSeq(m, j, Len(m))
    BY <1>3 DEF Compactions
  <2> DEFINE t == SubSeq(m, j, Len(m))
  <2>2. t \in Seq(Messages) /\ Len(t) = Len(m) - j + 1
        /\ \A i \in 1 .. Len(m) - j + 1 : t[i] = m[j + i - 1]
    BY <1>1, <2>1, SubSeqProperties
  <2>3. <<u>> \in Seq(Messages) /\ Len(<<u>>) = 1 /\ <<u>>[1] = u /\ ~IsVia(u, v)
    BY DEF User, Messages, UserMessages, Via, IsVia
  <2> HIDE DEF t, u
  <2>4. /\ q \in Seq(Messages) /\ Len(q) = Len(t) + 1
        /\ \A i \in 1 .. Len(t) + 1 : q[i] = IF i <= 1 THEN u ELSE t[i - 1]
    BY <2>1, <2>2, <2>3, ConcatProperties DEF t
  <2>5. \E d \in Int : \A i \in 1 .. Len(q) :
          IsVia(q[i], v) => i + d \in 1 .. Len(m) /\ q[i] = m[i + d]
    <3>1. j - 2 \in Int
      OBVIOUS
    <3> WITNESS j - 2 \in Int
    <3>2. SUFFICES ASSUME NEW i \in 1 .. Len(q), IsVia(q[i], v)
                   PROVE  i + (j - 2) \in 1 .. Len(m) /\ q[i] = m[i + (j - 2)]
      OBVIOUS
    <3>3. i # 1
      BY <2>2, <2>3, <2>4, <3>2
    <3>4. i - 1 \in 1 .. Len(m) - j + 1 /\ j + (i - 1) - 1 = i + (j - 2)
      BY <1>1, <2>2, <2>4, <3>3
    <3>5. q[i] = t[i - 1]
      BY <2>2, <2>4, <3>3, <3>4
    <3>6. t[i - 1] = m[j + (i - 1) - 1]
      BY <2>2, <3>4
    <3> QED BY <1>1, <3>4, <3>5, <3>6
  <2> QED BY <2>4, <2>5, PartInOrder
<1> QED BY <1>2, <1>3

LEMMA OrderInvariant ==
  ASSUME IInv, OrderInv, [Next]_vars
  PROVE  OrderInv'
<1> USE DEF OrderInv, queueVars, runVars
<1>a. /\ submitted \in Nat /\ issued \in Nat /\ Transcript(messages, issued)
      /\ messages \in Seq(Messages) /\ pending \in Seq(UserMessages)
      /\ steering \in Seq(UserMessages) /\ followUp \in Seq(UserMessages)
      /\ pending \in Seq(Messages) /\ steering \in Seq(Messages) /\ followUp \in Seq(Messages)
      /\ InOrder(messages, "steer") /\ InOrder(messages, "followUp")
      /\ InOrder(pending, "steer") /\ InOrder(pending, "followUp")
      /\ InOrder(steering, "steer") /\ InOrder(followUp, "followUp")
  BY UserFacts DEF IInv, TypeOK, Line
<1>b. ASSUME NEW via \in Via
      PROVE  LET x == User(submitted + 1, via)
             IN  x \in Messages /\ x.id = submitted + 1 /\ x.via = via
                 /\ \A v : IsVia(x, v) <=> v = via
  BY <1>a, UserIsMessage, UserFacts DEF User, IsVia
<1>c. \A v : InOrder(<< >>, v) /\ Ids(<< >>, v) = {} /\ Only(<< >>, v)
  BY DEF InOrder, Ids, Only
<1>1. CASE Prompt
  <2>1. PICK r \in Repaired(messages) :
          messages' = Append(r, User(submitted + 1, "prompt"))
    BY <1>1 DEF Prompt, PromptOn
  <2>2. r \in Seq(Messages) /\ Line(r, pending, steering, "steer", submitted)
                            /\ Line(r, pending, followUp, "followUp", submitted)
    BY <1>a, <2>1, RepairInOrder, LineLeft
  <2>3. /\ submitted' = submitted + 1
        /\ User(submitted + 1, "prompt") \in Messages
        /\ ~IsVia(User(submitted + 1, "prompt"), "steer")
        /\ ~IsVia(User(submitted + 1, "prompt"), "followUp")
    BY <1>b, <1>1 DEF Prompt, PromptOn, HandIn, Via
  <2>4. /\ Line(messages', pending, steering, "steer", submitted')
        /\ Line(messages', pending, followUp, "followUp", submitted')
    BY <1>a, <2>1, <2>2, <2>3, LineAppend
  <2> QED BY <1>1, <2>4 DEF Prompt, PromptOn
<1>2. CASE Continue
  BY <1>a, <1>2, RepairInOrder, LineLeft DEF Continue, Resume
<1>3. CASE Steer
  <2>1. Line(messages, pending, steering', "steer", submitted')
    BY <1>a, <1>b, <1>3, LineQueued DEF Steer, HandIn, Via
  <2>2. Line(messages, pending, followUp, "followUp", submitted')
    BY <1>a, <1>3, LineLeft DEF Steer, HandIn
  <2>3. Only(steering', "steer")
    BY <1>a, <1>b, <1>3, AppendFacts DEF Steer, Only, Via
  <2> QED BY <1>3, <2>1, <2>2, <2>3 DEF Steer
<1>4. CASE FollowUp
  <2>1. Line(messages, pending, followUp', "followUp", submitted')
    BY <1>a, <1>b, <1>4, LineQueued DEF FollowUp, HandIn, Via
  <2>2. Line(messages, pending, steering, "steer", submitted')
    BY <1>a, <1>4, LineLeft DEF FollowUp, HandIn
  <2>3. Only(followUp', "followUp")
    BY <1>a, <1>b, <1>4, AppendFacts DEF FollowUp, Only, Via
  <2> QED BY <1>4, <2>1, <2>2, <2>3 DEF FollowUp
<1>5. CASE PopSteering \/ PopFollowUp
  <2>1. CASE PopSteering
    <3>1. Only(steering', "steer")
      BY <1>a, <2>1, OnlyFacts DEF PopSteering
    <3>2. Line(messages, pending, steering', "steer", submitted)
      <4>1. Len(steering) - 1 \in 0 .. Len(steering)
        BY <1>a, <2>1, EmptySeq, LenProperties DEF PopSteering
      <4>2. /\ InOrder(steering', "steer")
            /\ Ids(steering', "steer") \subseteq Ids(steering, "steer")
        BY <1>a, <2>1, <4>1, PrefixInOrder DEF PopSteering
      <4> QED BY <1>a, <4>2, LineLeft
    <3> QED BY <2>1, <3>1, <3>2 DEF PopSteering
  <2>2. CASE PopFollowUp
    <3>1. Only(followUp', "followUp")
      BY <1>a, <2>2, OnlyFacts DEF PopFollowUp
    <3>2. Line(messages, pending, followUp', "followUp", submitted)
      <4>1. Len(followUp) - 1 \in 0 .. Len(followUp)
        BY <1>a, <2>2, EmptySeq, LenProperties DEF PopFollowUp
      <4>2. /\ InOrder(followUp', "followUp")
            /\ Ids(followUp', "followUp") \subseteq Ids(followUp, "followUp")
        BY <1>a, <2>2, <4>1, PrefixInOrder DEF PopFollowUp
      <4> QED BY <1>a, <4>2, LineLeft
    <3> QED BY <2>2, <3>1, <3>2 DEF PopFollowUp
  <2> QED BY <1>5, <2>1, <2>2
<1>6. CASE ClearQueues
  BY <1>a, <1>c, <1>6, LineLeft DEF ClearQueues
<1>7. CASE AppendMessage
  BY <1>a, <1>b, <1>7, LineAppend DEF AppendMessage, HandIn, Via
<1>8. CASE ReplaceMessages
  BY <1>a, <1>8, ReplaceInOrder, LineLeft DEF ReplaceMessages
<1>9. CASE Close \/ Finish
  <2>1. /\ pending' = << >> /\ UNCHANGED <<queueVars, submitted>>
        /\ messages' = messages \/ messages' \in Repaired(messages)
    BY <1>9 DEF Close, Finish, Finally
  <2> QED BY <1>a, <1>c, <2>1, RepairInOrder, LineLeft, SMTT(30)
<1>10. CASE LeaveStart \/ LeaveTurnStart
  <2>1. ErrorMessage \in Messages /\ \A v : ~IsVia(ErrorMessage, v)
    BY ErrorMessageFacts DEF ErrorMessage, Assistant, Messages, IsVia
  <2>2. ASSUME NEW q \in Seq(Messages), NEW s, NEW v, TurnBody(q),
               Line(messages, q, s, v, submitted)
        PROVE  Line(messages', pending', s, v, submitted)
    <3>1. CASE q # << >>
      BY <1>a, <2>2, <3>1, LineInjected DEF TurnBody
    <3>2. CASE q = << >>
      <4>1. /\ pending' = q
            /\ messages' = messages \/ messages' = Append(messages, ErrorMessage)
        BY <2>2, <3>2 DEF TurnBody
      <4>2. Line(Append(messages, ErrorMessage), q, s, v, submitted)
        BY <1>a, <2>1, <2>2, LineAppend
      <4> QED BY <2>2, <4>1, <4>2
    <3> QED BY <3>1, <3>2
  <2>3. CASE LeaveTurnStart
    BY <1>a, <2>2, <2>3 DEF LeaveTurnStart
  <2>4. CASE LeaveStart
    <3>1. pending = << >> /\ UNCHANGED <<followUp, submitted>>
      BY <2>4 DEF LeaveStart, IInv, TypeOK
    <3>2. CASE UNCHANGED <<steering, pending>> /\ messages' = Append(messages, ErrorMessage)
      BY <1>a, <2>1, <3>1, <3>2, LineAppend
    <3>3. CASE steering' = Undrained(steering) /\ TurnBody(Drained(steering))
      <4>1. Drained(steering) \in Seq(Messages)
        BY <1>a, QueueTypes, UserFacts
      <4>2. Line(messages, Drained(steering), Undrained(steering), "steer", submitted)
        BY <1>a, <3>1, LineDrained
      <4>3. Line(messages, Drained(steering), followUp, "followUp", submitted)
        <5>1. /\ InOrder(Drained(steering), "followUp")
              /\ Ids(Drained(steering), "followUp") = {}
          <6>1. /\ Drained(steering) \in Seq(UserMessages)
                /\ Only(Drained(steering), "steer") /\ "followUp" # "steer"
            BY <1>a, QueueTypes, OnlyFacts
          <6> QED BY <6>1, OnlyFacts
        <5> QED BY <1>a, <3>1, <5>1, LineLeft
      <4>4. Only(Undrained(steering), "steer")
        BY <1>a, OnlyFacts
      <4> QED BY <2>2, <3>1, <3>3, <4>1, <4>2, <4>3, <4>4
    <3> QED BY <2>4, <3>2, <3>3 DEF LeaveStart
  <2> QED BY <1>10, <2>3, <2>4
<1>11. CASE ProviderEnds \/ ToolRefused \/ ToolRuns \/ ToolReturns \/ Cancel
  BY <1>11 DEF ProviderEnds, ToolRefused, ToolRuns, ToolReturns, Cancel
<1>12. CASE LeaveAssistantEnd
  <2>1. reply \in Messages /\ \A v : ~IsVia(reply, v)
    BY DEF IInv, TypeOK, Messages, AssistantMessages, IsVia
  <2> QED BY <1>a, <1>12, <2>1, LineAppend DEF LeaveAssistantEnd
<1>13. CASE LeaveToolEnd
  <2>1. todo # << >> /\ todo \in Seq(CallIds) /\ outcome \in Outcomes
    BY <1>13 DEF LeaveToolEnd, IInv, TypeOK
  <2>2. /\ ToolResult(Head(todo), outcome) \in Messages
        /\ \A v : ~IsVia(ToolResult(Head(todo), outcome), v)
    BY <2>1, HeadTailElements, ResultIsMessage DEF IsVia
  <2> QED BY <1>a, <1>13, <2>2, LineAppend DEF LeaveToolEnd
<1>14. CASE LeaveTurnEnd
  <2>1. pending = << >> /\ UNCHANGED <<messages, submitted>>
    BY <1>14 DEF LeaveTurnEnd, IInv, TypeOK
  <2>2. /\ steering' = Undrained(steering)
        /\ \/ pending' = Drained(steering) /\ followUp' = followUp
           \/ /\ Drained(steering) = << >>
              /\ pending' = Drained(followUp) /\ followUp' = Undrained(followUp)
    BY <1>14 DEF LeaveTurnEnd
  <2>3. /\ Only(Undrained(steering), "steer") /\ Only(Undrained(followUp), "followUp")
        /\ Only(Drained(steering), "steer") /\ Only(Drained(followUp), "followUp")
        /\ Drained(steering) \in Seq(UserMessages) /\ Drained(followUp) \in Seq(UserMessages)
    BY <1>a, OnlyFacts, QueueTypes
  <2>4. /\ Line(messages, Drained(steering), Undrained(steering), "steer", submitted)
        /\ Line(messages, Drained(followUp), Undrained(followUp), "followUp", submitted)
    BY <1>a, <2>1, LineDrained
  <2>5. Line(messages, Drained(steering), followUp, "followUp", submitted)
    BY <1>a, <1>c, <2>1, <2>3, OnlyFacts, LineLeft
  <2>6. Line(messages, Drained(followUp), Undrained(steering), "steer", submitted)
    BY <1>a, <1>c, <2>1, <2>3, OnlyFacts, DrainInOrder, LineLeft
  <2> QED BY <2>1, <2>2, <2>3, <2>4, <2>5, <2>6
<1>15. CASE UNCHANGED vars
  BY <1>15 DEF vars
<1> QED
  BY <1>1, <1>2, <1>3, <1>4, <1>5, <1>6, <1>7, <1>8, <1>9, <1>10, <1>11, <1>12, <1>13,
     <1>14, <1>15 DEF Next, Step, Caller

(* A line read from end to end is in order.                                    *)
LEMMA LineInOrder ==
  ASSUME NEW m \in Seq(Messages), NEW p \in Seq(Messages), NEW q \in Seq(Messages),
         NEW v, NEW n \in Nat, Line(m, p, q, v, n)
  PROVE  InOrder(m \o p \o q, v)
<1>1. ASSUME NEW s \in Seq(Messages), NEW t \in Seq(Messages),
             InOrder(s, v), InOrder(t, v), Earlier(Ids(s, v), Ids(t, v))
      PROVE  /\ s \o t \in Seq(Messages) /\ InOrder(s \o t, v)
             /\ Ids(s \o t, v) \subseteq Ids(s, v) \cup Ids(t, v)
  <2> DEFINE c == s \o t
  <2>1. /\ Len(s) \in Nat /\ Len(t) \in Nat
        /\ DOMAIN s = 1 .. Len(s) /\ DOMAIN t = 1 .. Len(t)
        /\ c \in Seq(Messages) /\ Len(c) = Len(s) + Len(t) /\ DOMAIN c = 1 .. Len(s) + Len(t)
        /\ \A i \in 1 .. Len(s) + Len(t) : c[i] = IF i <= Len(s) THEN s[i] ELSE t[i - Len(s)]
    BY ConcatProperties, LenProperties
  <2> HIDE DEF c
  <2>2. \A i \in 1 .. Len(s) + Len(t) :
          \/ i \in 1 .. Len(s) /\ c[i] = s[i]
          \/ /\ i > Len(s) /\ i - Len(s) \in 1 .. Len(t) /\ c[i] = t[i - Len(s)]
    BY <2>1
  <2>3. \A i \in 1 .. Len(s) : IsVia(s[i], v) => s[i].id \in Ids(s, v)
    BY IdsOf
  <2>4. \A i \in 1 .. Len(t) : IsVia(t[i], v) => t[i].id \in Ids(t, v)
    BY IdsOf
  <2>5. InOrder(c, v)
    <3> SUFFICES ASSUME NEW i \in 1 .. Len(s) + Len(t), NEW j \in 1 .. Len(s) + Len(t),
                        i < j, IsVia(c[i], v), IsVia(c[j], v)
                 PROVE  c[i].id < c[j].id
      BY <2>1 DEF InOrder
    <3>1. CASE j \in 1 .. Len(s) /\ c[j] = s[j]
      <4>1. i \in 1 .. Len(s) /\ c[i] = s[i]
        BY <2>1, <2>2, <3>1
      <4> QED BY <1>1, <2>1, <3>1, <4>1 DEF InOrder
    <3>2. CASE j > Len(s) /\ j - Len(s) \in 1 .. Len(t) /\ c[j] = t[j - Len(s)]
      <4>1. CASE i \in 1 .. Len(s) /\ c[i] = s[i]
        BY <1>1, <2>3, <2>4, <3>2, <4>1 DEF Earlier
      <4>2. CASE i > Len(s) /\ i - Len(s) \in 1 .. Len(t) /\ c[i] = t[i - Len(s)]
        <5>1. i - Len(s) < j - Len(s)
          BY <2>1
        <5> QED BY <1>1, <2>1, <3>2, <4>2, <5>1 DEF InOrder
      <4> QED BY <2>2, <4>1, <4>2
    <3> QED BY <2>2, <3>1, <3>2
  <2>6. Ids(c, v) \subseteq Ids(s, v) \cup Ids(t, v)
    <3> SUFFICES ASSUME NEW x \in Ids(c, v) PROVE x \in Ids(s, v) \cup Ids(t, v)
      OBVIOUS
    <3>1. PICK i \in 1 .. Len(c) : IsVia(c[i], v) /\ x = c[i].id
      BY <2>1, IdsOf
    <3> QED BY <2>1, <2>2, <2>3, <2>4, <3>1
  <2> QED BY <2>1, <2>5, <2>6 DEF c
<1>2. /\ m \o p \in Seq(Messages) /\ InOrder(m \o p, v)
      /\ Ids(m \o p, v) \subseteq Ids(m, v) \cup Ids(p, v)
  BY <1>1 DEF Line
<1>3. Earlier(Ids(m \o p, v), Ids(q, v))
  BY <1>2 DEF Line, Earlier
<1>4. InOrder((m \o p) \o q, v)
  BY <1>1, <1>2, <1>3 DEF Line
<1> QED BY <1>4

(* Per queue, messages reach the transcript in the order in which they were    *)
(* queued, and none twice: over any number of runs, cancellations, teardowns,  *)
(* withdrawals, branches and compactions, in both queue modes.                 *)
THEOREM QueuesKeepOrder == Spec => []QueueOrderKept
<1>1. Init => OrderInv
  BY DEF Init, OrderInv, Only, Line, InOrder, Ids, Earlier
<1>2. IInv /\ OrderInv /\ [Next]_vars => OrderInv'
  BY OrderInvariant
<1>3. IInv /\ OrderInv => QueueOrderKept
  <2> SUFFICES ASSUME IInv, OrderInv PROVE QueueOrderKept
    OBVIOUS
  <2>1. /\ messages \in Seq(Messages) /\ pending \in Seq(Messages) /\ submitted \in Nat
        /\ steering \in Seq(Messages) /\ followUp \in Seq(Messages)
    BY UserFacts DEF IInv, TypeOK
  <2> QED BY <2>1, LineInOrder DEF OrderInv, QueueOrderKept
<1> QED BY <1>1, <1>2, <1>3, InvariantHolds, PTL DEF Spec

(* A run that no failure ends stops with both queues empty, whatever else is   *)
(* going on: it is the same step that finds them so.                           *)
THEOREM StopsWithNothingQueued == Spec => NoStopWhileQueued
<1>1. [Next]_vars =>
        (pc = "turnEnd" /\ pc' = "stopping" => steering' = << >> /\ followUp' = << >>)
  <2> SUFFICES ASSUME [Next]_vars, pc = "turnEnd", pc' = "stopping"
               PROVE  steering' = << >> /\ followUp' = << >>
    OBVIOUS
  <2> USE DEF runVars, queueVars
  <2>1. CASE LeaveTurnEnd
    <3>1. /\ Drained(steering) = << >> /\ Drained(followUp) = << >>
          /\ steering' = Undrained(steering) /\ followUp' = Undrained(followUp)
      BY <2>1 DEF LeaveTurnEnd
    <3>2. ASSUME NEW s, Drained(s) = << >> PROVE Undrained(s) = << >>
      BY <3>2 DEF Drained, Undrained
    <3> QED BY <3>1, <3>2
  <2>2. CASE Step /\ ~LeaveTurnEnd
    BY <2>2 DEF Step, LeaveStart, LeaveTurnStart, ProviderEnds, LeaveAssistantEnd,
                ToolRefused, ToolRuns, ToolReturns, LeaveToolEnd, Finish
  <2>3. CASE Close
    BY <2>3 DEF Close, Finally
  <2>4. CASE Caller
    BY <2>4 DEF Caller, Prompt, PromptOn, Continue, Resume, Running, Steer, FollowUp,
                PopSteering, PopFollowUp, ClearQueues, Cancel, AppendMessage, ReplaceMessages
  <2>5. CASE UNCHANGED vars
    BY <2>5 DEF vars
  <2> QED BY <2>1, <2>2, <2>3, <2>4, <2>5 DEF Next
<1>2. [Next]_vars =>
        [pc = "turnEnd" /\ pc' = "stopping" => steering' = << >> /\ followUp' = << >>]_vars
  BY <1>1
<1> QED BY <1>2, PTL DEF Spec, NoStopWhileQueued
=============================================================================
