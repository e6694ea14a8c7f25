--------------------------- MODULE UserFilesProofs ---------------------------
(* Proofs about the files of a user, for any number of processes, tasks,     *)
(* providers, releases and flows.  The proofs about the trust store and the  *)
(* credentials stand in modules of their own, of which this one takes an     *)
(* instance each; the other five parts are proved here.                      *)
EXTENDS UserFiles, TLAPS

TP == INSTANCE TrustStoreProofs
CP == INSTANCE CredentialsProofs WITH Proc <- {TheProcess}

-----------------------------------------------------------------------------
(***************************************************************************)
(* The parts proved elsewhere.  Each lemma only says that the instance the *)
(* proof is about takes the steps of the one that is composed here.        *)
(***************************************************************************)

(* TrustStore: the same first states and steps.                              *)
LEMMA SameTrust == (T!Init => TP!Init) /\ (T!Next => TP!Next)
BY DEF T!Path, TP!Path, T!Verdict, TP!Verdict, T!Decisions, TP!Decisions, T!Empty,
       TP!Empty, T!Change, TP!Change, T!Set, TP!Set, T!TrustParent, TP!TrustParent,
       T!Remove, TP!Remove, T!Apply, TP!Apply, T!files, TP!files, T!ReadOf,
       TP!ReadOf, T!Readable, TP!Readable, T!Nothing, TP!Nothing, T!Failed,
       TP!Failed, T!Done, TP!Done, T!Seen, TP!Seen, T!Init, TP!Init, T!Goto,
       TP!Goto, T!Return, TP!Return, T!Call, TP!Call, T!Lock, TP!Lock, T!Read,
       TP!Read, T!ReadToUpdate, TP!ReadToUpdate, T!SetEntries, TP!SetEntries,
       T!Replace, TP!Replace, T!WriteJournal, TP!WriteJournal, T!WriteData,
       TP!WriteData, T!Commit, TP!Commit, T!RestoreData, TP!RestoreData,
       T!DropJournal, TP!DropJournal, T!Die, TP!Die, T!PowerFails, TP!PowerFails,
       T!Step, TP!Step, T!Next, TP!Next

(* TrustLedger: the same promise.                                            *)
LEMMA SameLedger ==
  /\ TP!Ledger!Init => T!Ledger!Init
  /\ [TP!Ledger!Next]_(TP!Ledger!vars) => [T!Ledger!Next]_(T!Ledger!vars)
BY DEF T!Ledger!vars, TP!Ledger!vars, T!Ledger!Nothing, TP!Ledger!Nothing,
       T!Ledger!Failed, TP!Ledger!Failed, T!Ledger!Done, TP!Ledger!Done,
       T!Ledger!Seen, TP!Ledger!Seen, T!Ledger!Init, TP!Ledger!Init, T!Ledger!Tell,
       TP!Ledger!Tell, T!Ledger!Ask, TP!Ledger!Ask, T!Ledger!Read, TP!Ledger!Read,
       T!Ledger!Update, TP!Ledger!Update, T!Ledger!Refuse, TP!Ledger!Refuse,
       T!Ledger!Close, TP!Ledger!Close, T!Ledger!Restart, TP!Ledger!Restart,
       T!Ledger!Next, TP!Ledger!Next,
       T!Path, TP!Path, T!Verdict, TP!Verdict, T!Decisions, TP!Decisions, T!Change,
       TP!Change, T!Set, TP!Set, T!TrustParent, TP!TrustParent, T!Remove, TP!Remove,
       T!Apply, TP!Apply, T!Readable, TP!Readable, T!Nothing, TP!Nothing, T!Failed,
       TP!Failed, T!Done, TP!Done, T!Seen, TP!Seen, T!Updating, TP!Updating

(* Credentials: the same first states and steps.                             *)
LEMMA SameCredentials == (C!Init => CP!Init) /\ (C!Next => CP!Next)
BY DEF C!Token, CP!Token, C!store, CP!store, C!server, CP!server, C!Fresh, CP!Fresh,
       C!Idle, CP!Idle, C!Init, CP!Init, C!Runs, CP!Runs, C!Goto, CP!Goto,
       C!Release, CP!Release, C!Ask, CP!Ask, C!Current, CP!Current, C!Acquire,
       CP!Acquire, C!Answered, CP!Answered, C!Fails, CP!Fails, C!Cancel, CP!Cancel,
       C!Save, CP!Save, C!Begin, CP!Begin, C!Login, CP!Login, C!Logout, CP!Logout,
       C!SetOther, CP!SetOther, C!Expire, CP!Expire, C!AskAgain, CP!AskAgain,
       C!Progress, CP!Progress, C!Next, CP!Next

(* The trust store keeps its promise whatever write or process fails: a      *)
(* reader is given the decisions of the last update that was said to         *)
(* succeed, or an error.                                                     *)
THEOREM LedgerIsKept == Spec => ImplementsLedger
<1>1. Init => TP!Init
  BY SameTrust DEF Init
<1>2. [Next]_vars => [TP!Next]_(TP!vars)
  BY SameTrust DEF Next, vars, trustVars, TP!vars
<1>3. TP!StoreAssumption
  BY PartsAssumption DEF T!StoreAssumption, T!Decisions, T!Path, T!Verdict, T!Journals,
     TP!StoreAssumption, TP!Decisions, TP!Path, TP!Verdict, TP!Journals
<1>4. TP!Spec => TP!ImplementsLedger
  BY <1>3, TP!StoreImplementsLedger
<1> QED
  BY <1>1, <1>2, <1>4, SameLedger, PTL
     DEF Spec, TP!Spec, ImplementsLedger, T!ImplementsLedger, TP!ImplementsLedger,
         T!Ledger!Spec, TP!Ledger!Spec

(* The tasks of a process spend a refresh token once, and the credential in   *)
(* the store is the last one issued, unless a save failed.                   *)
THEOREM AlwaysSpentOnce == Spec => []SpentOnce
<1>1. Init => CP!Init
  BY SameCredentials DEF Init
<1>2. [Next]_vars => [CP!Next]_(CP!vars)
  BY SameCredentials
     DEF Next, vars, credVars, C!store, C!server, C!vars, CP!vars, CP!store, CP!server
<1>3. CP!CredentialsAssumption /\ CP!OneProcess
  BY PartsAssumption DEF C!CredentialsAssumption, CP!CredentialsAssumption, CP!OneProcess,
     C!Credential, CP!Credential, C!Entries, CP!Entries, C!Token, CP!Token
<1>4. CP!Spec => []CP!SpentOnce
  BY <1>3, CP!AlwaysSpentOnce
<1>5. CP!SpentOnce => SpentOnce
  BY DEF SpentOnce, CP!SpentOnce, C!SpentOnce, C!Token, CP!Token
<1> QED BY <1>1, <1>2, <1>4, <1>5, PTL DEF Spec, CP!Spec

-----------------------------------------------------------------------------
(***************************************************************************)
(* SessionIndex: a transcript is reserved once.                            *)
(***************************************************************************)

(* What a process does and what there is on the disk.                        *)
IndexPlaces == {"reserve", "read", "open", "write", "failed", "unlink"}

IndexTask == [op : {"reserve", "index", "touch"}, dir : Dir, id : Id,
              seen : SUBSET (Id \union {Torn}), undo : BOOLEAN, at : IndexPlaces]

IndexTypes ==
  /\ indexTask \in [Proc -> IndexTask \union {I!Idle}]
  /\ index \in [Dir -> SUBSET (Id \union {Torn})]
  /\ owner \in [Proc -> SUBSET (Dir \X Id)]

(* The transcript a process has made and was not yet told of.                *)
Claim(p) == IF /\ indexTask[p] \in IndexTask
               /\ indexTask[p].at # "reserve" /\ indexTask[p].op = "reserve"
            THEN {I!Transcript(p)} ELSE {}

(* A claim is of a transcript that exists, that no orphan, no owner and no   *)
(* other claim has; and only a reservation is rolled back.                   *)
Claims ==
  /\ Orphans \subseteq transcript
  /\ \A p \in Proc : Claim(p) \subseteq transcript \ Orphans
  /\ \A p, q \in Proc : Claim(p) \intersect owner[q] = {}
  /\ \A p, q \in Proc : p # q => Claim(p) \intersect Claim(q) = {}

Undoing ==
  \A p \in Proc : indexTask[p] \in IndexTask /\ (indexTask[p].undo \/ indexTask[p].at = "unlink")
                    => indexTask[p].op = "reserve" /\ indexTask[p].at # "reserve"

IndexInv == IndexTypes /\ Claims /\ Undoing /\ I!ReservedOnce

(* An idle process has no task.                                              *)
LEMMA NotIdle == I!Idle \notin IndexTask
BY DEF I!Idle, IndexTask

(* A step of a process that makes no claim, and takes nothing away.          *)
LEMMA IndexKeeps ==
  ASSUME IndexInv, NEW p \in Proc, NEW t \in IndexTask \union {I!Idle},
         indexTask' = [indexTask EXCEPT ![p] = t], index' \in [Dir -> SUBSET (Id \union {Torn})],
         Claim(p)' \subseteq Claim(p),
         t \in IndexTask /\ (t.undo \/ t.at = "unlink") => t.op = "reserve" /\ t.at # "reserve",
         owner' \in [Proc -> SUBSET (Dir \X Id)],
         \A q \in Proc : owner'[q] = owner[q] \/ (q = p /\ owner'[q] = owner[q] \union Claim(p)),
         owner' = owner \/ Claim(p)' = {},
         \/ transcript' = transcript
         \/ transcript' = transcript \ Claim(p) /\ owner' = owner /\ Claim(p)' = {}
  PROVE  IndexInv'
<1> USE DEF IndexInv
<1>1. \A q \in Proc : indexTask'[q] = IF q = p THEN t ELSE indexTask[q]
  BY DEF IndexTypes
<1>2. \A q \in Proc : Claim(q)' \subseteq Claim(q)
  BY <1>1 DEF Claim, I!Transcript
<1>3. IndexTypes' /\ Undoing'
  BY <1>1 DEF IndexTypes, Undoing
<1>4. Claims'
  <2>1. Orphans \subseteq transcript'
    BY DEF Claims
  <2>2. \A q \in Proc : Claim(q)' \subseteq transcript' \ Orphans
    <3>1. \A q \in Proc : Claim(q)' \intersect Claim(p) = {} \/ q = p
      BY <1>2 DEF Claims
    <3> QED BY <1>2, <3>1 DEF Claims
  <2>3. \A q, r \in Proc : Claim(q)' \intersect owner'[r] = {}
    <3> TAKE q, r \in Proc
    <3>1. CASE owner'[r] = owner[r]
      BY <1>2, <3>1 DEF Claims
    <3>2. CASE owner'[r] # owner[r]
      <4>1. owner'[r] = owner[r] \union Claim(p) /\ Claim(p)' = {}
        BY <3>2
      <4>2. CASE q = p
        BY <4>1, <4>2
      <4>3. CASE q # p
        BY <1>2, <4>1, <4>3 DEF Claims
      <4> QED BY <4>2, <4>3
    <3> QED BY <3>1, <3>2
  <2>4. \A q, r \in Proc : q # r => Claim(q)' \intersect Claim(r)' = {}
    BY <1>2 DEF Claims
  <2> QED BY <2>1, <2>2, <2>3, <2>4 DEF Claims
<1>5. I!ReservedOnce'
  <2>1. \A q, r \in Proc : q # r => owner'[q] \intersect owner'[r] = {}
    <3> TAKE q, r \in Proc
    <3>1. owner[q] \intersect Claim(p) = {} /\ owner[r] \intersect Claim(p) = {}
      BY DEF Claims
    <3>2. owner'[q] \subseteq owner[q] \union (IF q = p THEN Claim(p) ELSE {})
      OBVIOUS
    <3>3. owner'[r] \subseteq owner[r] \union (IF r = p THEN Claim(p) ELSE {})
      OBVIOUS
    <3>4. q # r => owner[q] \intersect owner[r] = {}
      BY DEF I!ReservedOnce
    <3> QED BY <3>1, <3>2, <3>3, <3>4
  <2>2. \A q \in Proc : owner'[q] \subseteq transcript' \ Orphans
    BY DEF Claims, I!ReservedOnce
  <2> QED BY <2>1, <2>2 DEF I!ReservedOnce
<1> QED BY <1>3, <1>4, <1>5

(* Every file operation of a worker, its failure and its death keep the      *)
(* invariant.                                                                *)
LEMMA IndexNext ==
  ASSUME I!IndexAssumption, IndexInv, [I!Next]_(I!vars)
  PROVE  IndexInv'
<1> USE DEF IndexInv
<1> DEFINE Indices == [Dir -> SUBSET (Id \union {Torn})]
<1>0. /\ index \in Indices /\ owner \in [Proc -> SUBSET (Dir \X Id)]
      /\ I!Idle \in IndexTask \union {I!Idle} /\ I!Idle \notin IndexTask
  BY NotIdle DEF IndexTypes
\* a process that is in an operation, and where it goes next
<1>1. ASSUME NEW p \in Proc, ~I!At(p, "idle")
      PROVE  indexTask[p] \in IndexTask
  BY <1>1 DEF IndexTypes, I!At, I!Idle
<1>2. ASSUME NEW p \in Proc, indexTask[p] \in IndexTask, NEW t,
             indexTask' = [indexTask EXCEPT ![p] = t]
      PROVE  indexTask'[p] = t
  BY <1>2 DEF IndexTypes
<1>3. ASSUME NEW p \in Proc, indexTask[p] \in IndexTask, I!End(p), index' \in Indices,
             UNCHANGED <<transcript, owner>>
      PROVE  IndexInv'
  <2>1. Claim(p)' = {}
    BY <1>0, <1>2, <1>3 DEF I!End, Claim
  <2> QED BY <1>0, <1>3, <2>1, IndexKeeps DEF I!End
<1>4. ASSUME NEW p \in Proc, indexTask[p] \in IndexTask, NEW t \in IndexTask,
             indexTask' = [indexTask EXCEPT ![p] = t], t.op = indexTask[p].op, t.dir = indexTask[p].dir, t.id = indexTask[p].id,
             indexTask[p].at # "reserve", t.at # "reserve",
             t.undo \/ t.at = "unlink" => t.op = "reserve",
             index' \in Indices, UNCHANGED <<transcript, owner>>
      PROVE  IndexInv'
  <2>1. indexTask'[p] = t
    BY <1>2, <1>4
  <2>2. Claim(p)' \subseteq Claim(p)
    BY <1>4, <2>1 DEF Claim, I!Transcript
  <2>3. owner' = owner /\ transcript' = transcript /\ t \in IndexTask \union {I!Idle}
           /\ owner' \in [Proc -> SUBSET (Dir \X Id)]
    BY <1>0, <1>4
  <2>4. t \in IndexTask /\ (t.undo \/ t.at = "unlink") => t.op = "reserve" /\ t.at # "reserve"
    BY <1>4
  <2>5. /\ owner' = owner \/ Claim(p)' = {}
        /\ \/ transcript' = transcript
           \/ transcript' = transcript \ Claim(p) /\ owner' = owner /\ Claim(p)' = {}
        /\ \A q \in Proc : owner'[q] = owner[q] \/ (q = p /\ owner'[q] = owner[q] \union Claim(p))
    BY <2>3
  <2> QED BY <1>4, <2>2, <2>3, <2>4, <2>5, IndexKeeps
<1>5. ASSUME NEW p \in Proc, indexTask[p] \in IndexTask, NEW l \in IndexPlaces, I!Goto(p, l)
      PROVE  indexTask' = [indexTask EXCEPT ![p] = [indexTask[p] EXCEPT !.at = l]]
                /\ [indexTask[p] EXCEPT !.at = l] \in IndexTask
  BY <1>5 DEF I!Goto, IndexTask
<1>6. ASSUME NEW p \in Proc, indexTask[p] \in IndexTask, NEW l \in IndexPlaces \ {"reserve"},
             I!Goto(p, l),
             indexTask[p].at # "reserve", l = "unlink" => indexTask[p].op = "reserve",
             index' \in Indices, UNCHANGED <<transcript, owner>>
      PROVE  IndexInv'
  <2> DEFINE t == [indexTask[p] EXCEPT !.at = l]
  <2>1. indexTask' = [indexTask EXCEPT ![p] = t] /\ t \in IndexTask
    BY <1>5, <1>6
  <2>2. t.op = indexTask[p].op /\ t.dir = indexTask[p].dir /\ t.id = indexTask[p].id /\ t.at = l
           /\ t.undo = indexTask[p].undo
    BY <1>6 DEF IndexTask
  <2>3. t.undo => t.op = "reserve"
    BY <1>6, <2>2 DEF Undoing
  <2> HIDE DEF t
  <2> QED BY <1>4, <1>6, <2>1, <2>2, <2>3
<1>7. ASSUME NEW p \in Proc, I!Call(p) PROVE IndexInv'
  <2>1. PICK op \in {"reserve", "index", "touch"}, d \in Dir, i \in Id :
          indexTask' = [indexTask EXCEPT ![p] =
                     [op |-> op, dir |-> d, id |-> i, seen |-> {}, undo |-> FALSE,
                      at |-> IF op = "reserve" THEN "reserve" ELSE "read"]]
    BY <1>7 DEF I!Call
  <2> DEFINE t == [op |-> op, dir |-> d, id |-> i, seen |-> {}, undo |-> FALSE,
                   at |-> IF op = "reserve" THEN "reserve" ELSE "read"]
  <2>2. t \in IndexTask /\ ~t.undo /\ t.at # "unlink" /\ (t.at = "reserve" \/ t.op # "reserve")
    BY DEF IndexTask, IndexPlaces
  <2>3. indexTask'[p] = t
    BY <2>1 DEF IndexTypes
  <2> HIDE DEF t
  <2>4. Claim(p)' = {}
    BY <2>2, <2>3 DEF Claim
  <2>5. indexTask' = [indexTask EXCEPT ![p] = t]
    BY <2>1 DEF t
  <2> QED BY <1>0, <1>7, <2>2, <2>4, <2>5, IndexKeeps DEF I!Call
<1>8. ASSUME NEW p \in Proc, I!Reserve(p) PROVE IndexInv'
  <2>1. indexTask[p] \in IndexTask /\ indexTask[p].at = "reserve"
    BY <1>1, <1>8 DEF I!Reserve, I!At
  <2>2. CASE I!Transcript(p) \in transcript
    BY <1>0, <1>3, <1>8, <2>1, <2>2 DEF I!Reserve
  <2>3. CASE I!Transcript(p) \notin transcript
    <3> DEFINE t == [indexTask[p] EXCEPT !.at = "read"]
    <3>1. I!Goto(p, "read") /\ transcript' = transcript \union {I!Transcript(p)}
             /\ UNCHANGED <<index, owner>> /\ "read" \in IndexPlaces
      BY <1>8, <2>3 DEF I!Reserve, IndexPlaces
    <3>2. indexTask' = [indexTask EXCEPT ![p] = t] /\ t \in IndexTask
      BY <1>5, <2>1, <3>1
    <3>3. t.dir = indexTask[p].dir /\ t.id = indexTask[p].id /\ t.at = "read"
             /\ t.undo = indexTask[p].undo
      BY <2>1 DEF IndexTask
    <3>4. \A q \in Proc : indexTask'[q] = IF q = p THEN t ELSE indexTask[q]
      BY <3>2 DEF IndexTypes
    <3>5. ~t.undo
      BY <2>1, <3>3 DEF Undoing
    <3> HIDE DEF t
    <3>6. IndexTypes' /\ Undoing'
      BY <3>1, <3>2, <3>3, <3>4, <3>5 DEF IndexTypes, Undoing
    <3>7. \A q \in Proc : Claim(q)' \subseteq Claim(q) \union (IF q = p THEN {I!Transcript(p)}
                                                              ELSE {})
      BY <3>3, <3>4 DEF Claim, I!Transcript
    <3>8. Claims'
      <4>1. \A q \in Proc : I!Transcript(p) \notin Claim(q) /\ I!Transcript(p) \notin owner[q]
        BY <2>3 DEF Claims, I!ReservedOnce
      <4>2. I!Transcript(p) \notin Orphans
        BY <2>3 DEF Claims
      <4>3. Orphans \subseteq transcript'
        BY <3>1 DEF Claims
      <4>4. \A q \in Proc : Claim(q)' \subseteq transcript' \ Orphans
        BY <3>1, <3>7, <4>2 DEF Claims
      <4>5. \A q, r \in Proc : Claim(q)' \intersect owner'[r] = {}
        BY <3>1, <3>7, <4>1 DEF Claims
      <4>6. \A q, r \in Proc : q # r => Claim(q)' \intersect Claim(r)' = {}
        <5> TAKE q, r \in Proc
        <5>1. q # r => Claim(q) \intersect Claim(r) = {}
          BY DEF Claims
        <5>2. Claim(q)' \subseteq Claim(q) \union (IF q = p THEN {I!Transcript(p)} ELSE {})
          BY <3>7
        <5>3. Claim(r)' \subseteq Claim(r) \union (IF r = p THEN {I!Transcript(p)} ELSE {})
          BY <3>7
        <5> QED BY <4>1, <5>1, <5>2, <5>3
      <4> QED BY <4>3, <4>4, <4>5, <4>6 DEF Claims
    <3>9. I!ReservedOnce'
      BY <3>1 DEF I!ReservedOnce
    <3> QED BY <3>6, <3>8, <3>9
  <2> QED BY <2>2, <2>3
<1>9. ASSUME NEW p \in Proc, I!ReadIndex(p) PROVE IndexInv'
  <2>1. indexTask[p] \in IndexTask /\ indexTask[p].at = "read"
    BY <1>1, <1>9 DEF I!ReadIndex, I!At
  <2>2. CASE I!Goto(p, "failed")
    BY <1>0, <1>6, <1>9, <2>1, <2>2 DEF I!ReadIndex, IndexPlaces
  <2>3. CASE indexTask' = [indexTask EXCEPT ![p].at = "open", ![p].seen = index[indexTask[p].dir]]
    <3> DEFINE t == [indexTask[p] EXCEPT !.at = "open", !.seen = index[indexTask[p].dir]]
    <3>1. indexTask' = [indexTask EXCEPT ![p] = t]
      BY <2>3 DEF IndexTypes
    <3>2. index[indexTask[p].dir] \in SUBSET (Id \union {Torn})
      BY <1>0, <2>1 DEF IndexTask
    <3>3. t \in IndexTask /\ t.op = indexTask[p].op
             /\ t.dir = indexTask[p].dir /\ t.id = indexTask[p].id
             /\ t.at = "open" /\ t.undo = indexTask[p].undo
      BY <2>1, <3>2 DEF IndexTask, IndexPlaces
    <3>4. t.undo => t.op = "reserve"
      BY <2>1, <3>3 DEF Undoing
    <3> HIDE DEF t
    <3> QED BY <1>0, <1>4, <1>9, <2>1, <3>1, <3>3, <3>4 DEF I!ReadIndex
  <2> QED BY <1>9, <2>2, <2>3 DEF I!ReadIndex
<1>10. ASSUME NEW p \in Proc, I!OpenIndex(p) PROVE IndexInv'
  <2>1. indexTask[p] \in IndexTask /\ indexTask[p].at = "open"
    BY <1>1, <1>10 DEF I!OpenIndex, I!At
  <2>2. index' \in Indices
    BY <1>0, <1>10 DEF I!OpenIndex
  <2>3. PICK l \in {"write", "failed"} : I!Goto(p, l)
    BY <1>10 DEF I!OpenIndex
  <2>4. l \in IndexPlaces \ {"reserve"} /\ l # "unlink"
    BY DEF IndexPlaces
  <2> QED BY <1>6, <1>10, <2>1, <2>2, <2>3, <2>4 DEF I!OpenIndex
<1>11. ASSUME NEW p \in Proc, indexTask[p] \in IndexTask, NEW c \in I!Partly(p),
              index' = [index EXCEPT ![indexTask[p].dir] = c]
       PROVE  index' \in Indices
  <2>1. c \in SUBSET (Id \union {Torn})
    BY <1>11 DEF I!Partly, I!Written, IndexTask
  <2> QED BY <1>0, <1>11, <2>1
<1>12. ASSUME NEW p \in Proc, I!WriteIndex(p) PROVE IndexInv'
  <2>1. indexTask[p] \in IndexTask /\ indexTask[p].at = "write"
    BY <1>1, <1>12 DEF I!WriteIndex, I!At
  <2>2. index' \in Indices
    <3>1. I!Written(p) \in I!Partly(p)
      BY DEF I!Partly
    <3> QED BY <1>11, <1>12, <2>1, <3>1 DEF I!WriteIndex
  <2>3. CASE I!Goto(p, "failed") /\ UNCHANGED owner
    BY <1>6, <1>12, <2>1, <2>2, <2>3 DEF I!WriteIndex, IndexPlaces
  <2>4. CASE indexTask[p].undo /\ I!Goto(p, "unlink") /\ UNCHANGED owner
    <3>1. indexTask[p].op = "reserve"
      BY <2>1, <2>4 DEF Undoing
    <3> QED BY <1>6, <1>12, <2>1, <2>2, <2>4, <3>1 DEF I!WriteIndex, IndexPlaces
  <2>5. CASE I!End(p) /\ indexTask[p].op # "reserve" /\ UNCHANGED owner
    BY <1>3, <1>12, <2>1, <2>2, <2>5 DEF I!WriteIndex
  <2>6. CASE I!End(p) /\ indexTask[p].op = "reserve"
             /\ owner' = [owner EXCEPT ![p] = @ \union {I!Transcript(p)}]
    <3>1. Claim(p) = {I!Transcript(p)} /\ I!Transcript(p) \in Dir \X Id
      BY <2>1, <2>6 DEF Claim, I!Transcript, IndexTask
    <3>2. Claim(p)' = {}
      BY <1>0, <1>2, <2>1, <2>6 DEF I!End, Claim
    <3>3. owner' \in [Proc -> SUBSET (Dir \X Id)]
      BY <1>0, <2>6, <3>1
    <3>4. \A q \in Proc : owner'[q] = owner[q] \/ (q = p /\ owner'[q] = owner[q] \union Claim(p))
      BY <1>0, <2>6, <3>1
    <3>5. transcript' = transcript /\ indexTask' = [indexTask EXCEPT ![p] = I!Idle]
      BY <1>12, <2>6 DEF I!WriteIndex, I!End
    <3>6. /\ Claim(p)' \subseteq Claim(p)
          /\ \/ transcript' = transcript
             \/ transcript' = transcript \ Claim(p) /\ owner' = owner /\ Claim(p)' = {}
      BY <3>2, <3>5
    <3>7. I!Idle \in IndexTask \union {I!Idle}
             /\ (I!Idle \in IndexTask /\ (I!Idle.undo \/ I!Idle.at = "unlink")
                   => I!Idle.op = "reserve" /\ I!Idle.at # "reserve")
      BY <1>0
    <3> QED BY <2>2, <3>2, <3>3, <3>4, <3>5, <3>6, <3>7, IndexKeeps
  <2> QED BY <1>12, <2>3, <2>4, <2>5, <2>6 DEF I!WriteIndex
<1>13. ASSUME NEW p \in Proc, I!Fail(p) PROVE IndexInv'
  <2>1. indexTask[p] \in IndexTask /\ indexTask[p].at = "failed"
    BY <1>1, <1>13 DEF I!Fail, I!At
  <2>2. CASE indexTask[p].op # "reserve"
    BY <1>0, <1>3, <1>13, <2>1, <2>2 DEF I!Fail
  <2>3. CASE indexTask[p].op = "reserve" /\ indexTask[p].undo
    BY <1>0, <1>6, <1>13, <2>1, <2>3 DEF I!Fail, IndexPlaces
  <2>4. CASE indexTask[p].op = "reserve" /\ ~indexTask[p].undo
    <3> DEFINE t == [indexTask[p] EXCEPT !.at = "read", !.undo = TRUE]
    <3>1. indexTask' = [indexTask EXCEPT ![p] = t]
      BY <1>13, <2>4 DEF I!Fail, IndexTypes
    <3>2. t \in IndexTask /\ t.op = indexTask[p].op
             /\ t.dir = indexTask[p].dir /\ t.id = indexTask[p].id
             /\ t.at = "read"
      BY <2>1 DEF IndexTask, IndexPlaces
    <3> HIDE DEF t
    <3> QED BY <1>0, <1>4, <1>13, <2>1, <2>4, <3>1, <3>2 DEF I!Fail
  <2> QED BY <2>2, <2>3, <2>4
<1>14. ASSUME NEW p \in Proc, I!Unlink(p) PROVE IndexInv'
  <2>1. indexTask[p] \in IndexTask /\ indexTask[p].at = "unlink" /\ indexTask[p].op = "reserve"
    BY <1>1, <1>14 DEF I!Unlink, I!At, Undoing
  <2>2. Claim(p) = {I!Transcript(p)}
    BY <2>1 DEF Claim
  <2>3. Claim(p)' = {}
    BY <1>0, <1>2, <1>14, <2>1 DEF I!Unlink, I!End, Claim
  <2> QED BY <1>0, <1>14, <2>2, <2>3, IndexKeeps DEF I!Unlink, I!End
<1>15. ASSUME NEW p \in Proc, I!Die(p) PROVE IndexInv'
  <2>1. indexTask[p] \in IndexTask
    BY <1>1, <1>15 DEF I!Die
  <2>2. index' \in Indices
    BY <1>0, <1>11, <1>15, <2>1 DEF I!Die
  <2> QED BY <1>3, <1>15, <2>1, <2>2 DEF I!Die
<1>16. CASE UNCHANGED I!vars
  BY <1>16 DEF I!vars, IndexTypes, Claims, Claim, I!Transcript, Undoing, I!ReservedOnce
<1> QED
  BY <1>7, <1>8, <1>9, <1>10, <1>12, <1>13, <1>14, <1>15, <1>16 DEF I!Next

(* A transcript is reserved once, whichever processes open, index and touch   *)
(* sessions, whatever write fails and whichever of them dies.                *)
THEOREM AlwaysReservedOnce == Spec => []ReservedOnce
<1>1. Init => IndexInv
  BY PartsAssumption, NotIdle
     DEF Init, I!IndexAssumption, I!Init, IndexInv, IndexTypes, Claims, Claim, Undoing,
         I!ReservedOnce
<1>2. IndexInv /\ [Next]_vars => IndexInv'
  <2>1. [Next]_vars => [I!Next]_(I!vars)
    BY DEF Next, vars, indexVars, I!vars
  <2> QED BY <2>1, IndexNext, PartsAssumption
<1>3. IndexInv => ReservedOnce
  BY DEF IndexInv, ReservedOnce
<1> QED BY <1>1, <1>2, <1>3, PTL DEF Spec

-----------------------------------------------------------------------------
(***************************************************************************)
(* OAuthLogin: a login is its own.                                         *)
(***************************************************************************)

FlowPlaces == {"over", "waits", "prompts", "exchanges", "polling"}

(* The server's future is this flow's, what the threads hand over is so as   *)
(* long as somebody may take it, a flow without a browser has no server, and *)
(* the code that is exchanged is not another flow's.                         *)
BrowserPart ==
  /\ at \in FlowPlaces
  /\ future \in {O!Open, O!Closed, [is |-> "set", code |-> flow]}
  /\ future = O!Open => posted \subseteq {flow}
  /\ at \in {"over", "polling"} => ~server /\ future = O!Closed
  /\ at = "exchanges" => used.state \in {None, flow}

(* A poll is due an interval after the last one, or when the code expires.   *)
DevicePart ==
  /\ clock \in Nat
  /\ device \in [deadline : Nat, interval : Nat, polled : Nat, due : Nat, early : BOOLEAN]
  /\ ~device.early
  /\ at = "polling" =>
       device.due = IF device.polled + device.interval <= device.deadline
                    THEN device.polled + device.interval ELSE device.deadline

FlowInv == BrowserPart /\ DevicePart

(* Every step, of the flow and of the threads, keeps the browser part.       *)
LEMMA BrowserNext ==
  ASSUME O!LoginAssumption, BrowserPart, [O!Next]_(O!vars)
  PROVE  BrowserPart'
<1> USE DEF BrowserPart, FlowPlaces, O!browser, O!timing
<1>0. O!Open # O!Closed /\ \A f : [is |-> "set", code |-> f] \notin {O!Open, O!Closed}
  BY DEF O!Open, O!Closed
<1>1. CASE O!StartBrowser
  BY <1>0, <1>1 DEF O!StartBrowser
<1>2. ASSUME NEW f \in O!Flow, O!Callback(f) PROVE BrowserPart'
  BY <1>2 DEF O!Callback
<1>3. CASE O!Deliver
  <2>1. PICK f \in posted :
          future' = IF future = O!Open THEN [is |-> "set", code |-> f] ELSE future
    BY <1>3 DEF O!Deliver
  <2>2. UNCHANGED <<flow, at, server, used>>
    BY <1>3 DEF O!Deliver
  <2>3. future = O!Open => f = flow
    OBVIOUS
  <2>4. at \in {"over", "polling"} => future' = O!Closed
    BY <1>0, <2>1
  <2>5. future' # O!Open /\ future' \in {O!Open, O!Closed, [is |-> "set", code |-> flow]}
    BY <1>0, <2>1, <2>3
  <2> QED BY <2>2, <2>4, <2>5
<1>4. ASSUME NEW v \in O!Input, O!Submit(v) PROVE BrowserPart'
  BY <1>4 DEF O!Submit
<1>5. ASSUME NEW o, O!Take(typed, o), at \in {"waits", "prompts"}, UNCHANGED <<flow, posted>>
      PROVE  BrowserPart'
  <2>1. CASE O!Leave("over")
    BY <1>0, <1>5, <2>1 DEF O!Leave
  <2>2. CASE ~O!Leave("over") /\ at' = "prompts"
    BY <1>5, <2>2 DEF O!Take
  <2>3. CASE ~O!Leave("over") /\ at' # "prompts"
    BY <1>5, <2>3 DEF O!Take, O!Accepted
  <2> QED BY <2>1, <2>2, <2>3
<1>6. CASE O!FirstAnswer
  <2>1. CASE O!Take(typed, "prompts")
    BY <1>5, <1>6, <2>1 DEF O!FirstAnswer
  <2>2. CASE at' = "exchanges" /\ used' = [code |-> future.code, state |-> flow]
             /\ UNCHANGED <<server, future>>
    BY <1>6, <2>2 DEF O!FirstAnswer
  <2> QED BY <1>6, <2>1, <2>2 DEF O!FirstAnswer
<1>7. CASE O!PromptAnswered
  BY <1>5, <1>7 DEF O!PromptAnswered
<1>8. CASE O!Exchanged \/ O!Abandon
  BY <1>0, <1>8 DEF O!Exchanged, O!Abandon, O!Leave
<1>9. ASSUME NEW deadline \in 1 .. MaxTime, NEW interval \in 1 .. 2, O!StartDevice(deadline, interval)
      PROVE  BrowserPart'
  BY <1>0, <1>9 DEF O!StartDevice
<1>10. ASSUME NEW interval \in 1 .. 3, O!Poll(interval) PROVE BrowserPart'
  BY <1>10 DEF O!Poll
<1>11. CASE O!DeviceEnds \/ O!Tick
  BY <1>11 DEF O!DeviceEnds, O!Tick
<1>12. CASE UNCHANGED O!vars
  BY <1>12 DEF O!vars
<1> QED
  BY <1>1, <1>2, <1>3, <1>4, <1>6, <1>7, <1>8, <1>9, <1>10, <1>11, <1>12 DEF O!Next

(* Every step keeps the polls of a device code apart.                        *)
LEMMA DeviceNext ==
  ASSUME O!LoginAssumption, DevicePart, [O!Next]_(O!vars)
  PROVE  DevicePart'
<1> USE DEF DevicePart, O!timing
<1>1. CASE UNCHANGED O!timing /\ at' # "polling"
  BY <1>1
<1>2. CASE UNCHANGED O!timing /\ at' = at
  BY <1>2
<1>3. ASSUME NEW deadline \in 1 .. MaxTime, NEW interval \in 1 .. 2, O!StartDevice(deadline, interval)
      PROVE  DevicePart'
  BY <1>3 DEF O!StartDevice, O!LoginAssumption
<1>4. ASSUME NEW interval \in 1 .. 3, O!Poll(interval) PROVE DevicePart'
  <2>1. device.due <= clock /\ clock < device.deadline /\ at = "polling" /\ clock' = clock /\ at' = at
    BY <1>4 DEF O!Poll
  <2>2. clock - device.polled >= device.interval
    BY <2>1
  <2>3. O!Soonest(interval) \in Nat
    BY DEF O!Soonest
  <2>4. (clock - device.polled < device.interval) = FALSE
    BY <2>2
  <2>5. device' = [device EXCEPT !.interval = interval, !.polled = clock, !.early = FALSE,
                                 !.due = O!Soonest(interval)]
    BY <1>4, <2>4, Zenon DEF O!Poll
  <2>6. /\ device'.interval = interval /\ device'.polled = clock
        /\ device'.deadline = device.deadline /\ device'.due = O!Soonest(interval)
    BY <2>5
  <2>7. device'.early = FALSE
    BY <2>5
  <2>8. device' \in [deadline : Nat, interval : Nat, polled : Nat, due : Nat, early : BOOLEAN]
    <3>1. interval \in Nat /\ clock \in Nat /\ FALSE \in BOOLEAN
      OBVIOUS
    <3> HIDE DEF DevicePart
    <3>2. device \in [deadline : Nat, interval : Nat, polled : Nat, due : Nat, early : BOOLEAN]
      BY DEF DevicePart
    <3> QED BY <2>3, <2>5, <3>1, <3>2
  <2> QED BY <2>1, <2>6, <2>7, <2>8 DEF O!Soonest
<1>5. CASE O!Tick
  BY <1>5 DEF O!Tick
<1>6. CASE O!StartBrowser \/ O!FirstAnswer \/ O!PromptAnswered \/ O!Exchanged \/ O!Abandon
           \/ O!DeviceEnds
  <2>1. UNCHANGED O!timing /\ at' # "polling"
    BY <1>6 DEF O!StartBrowser, O!FirstAnswer, O!PromptAnswered, O!Exchanged, O!Abandon,
                O!DeviceEnds, O!Take, O!Leave
  <2> QED BY <1>1, <2>1
<1>7. CASE O!Deliver \/ (\E f \in O!Flow : O!Callback(f)) \/ (\E v \in O!Input : O!Submit(v))
           \/ UNCHANGED O!vars
  BY <1>2, <1>7 DEF O!Deliver, O!Callback, O!Submit, O!vars
<1> QED BY <1>3, <1>4, <1>5, <1>6, <1>7 DEF O!Next

(* No code, no port and no waiter of a login reaches the next one, and no    *)
(* poll comes sooner than the server asked for.                              *)
THEOREM LoginAlwaysItsOwn == Spec => []LoginIsItsOwn
<1>1. Init => FlowInv
  <2>1. Init => BrowserPart
    BY DEF Init, O!Init, BrowserPart, FlowPlaces, O!Open, O!Closed
  <2>2. Init => DevicePart
    BY DEF Init, O!Init, DevicePart, O!NoDevice
  <2> QED BY <2>1, <2>2 DEF FlowInv
<1>2. FlowInv /\ [Next]_vars => FlowInv'
  <2>1. [Next]_vars => [O!Next]_(O!vars)
    BY DEF Next, vars, flowVars, O!vars, O!browser, O!timing
  <2> QED BY <2>1, PartsAssumption, BrowserNext, DeviceNext DEF FlowInv
<1>3. FlowInv => LoginIsItsOwn
  BY DEF FlowInv, BrowserPart, DevicePart, LoginIsItsOwn, O!LoginIsItsOwn,
         O!CodeOfThisFlow, O!ServerCloses, O!PollsArePaced, O!IsSet, O!Open, O!Closed
<1> QED BY <1>1, <1>2, <1>3, PTL DEF Spec

-----------------------------------------------------------------------------
(***************************************************************************)
(* ProviderFiles: no definition is lost.                                   *)
(***************************************************************************)
FilesSteps == {"idle", "keep_old", "read_catalog", "write_catalog", "keep_last", "write_file"}

FilesTypes ==
  /\ defined \subseteq F!Definitions /\ settings \in F!File
  /\ doing \in [Proc -> FilesSteps]
  /\ adds \in [Proc -> Added \union {None}]
  /\ held \in [Proc -> SUBSET F!Definitions]
  /\ seen \in [Proc -> SUBSET F!Definitions]
  /\ \A p \in Proc : doing[p] = "idle" => adds[p] = None

(* Where the user's providers are while nothing overlaps.  A migration holds *)
(* all of them; a setup holds its own only, but it is alone and what it read *)
(* of the catalog is still there; and before either replaces the settings,   *)
(* the catalog has what the old file may lose.                               *)
Safekept ==
  /\ settings.form # "old" => owned \subseteq defined
  /\ \A p, q \in Proc : adds[p] # None /\ doing[q] # "idle" => q = p
  /\ \A p \in Proc : adds[p] # None => adds[p] \in held[p]
  /\ \A p \in Proc : doing[p] # "idle" /\ adds[p] = None => owned \subseteq held[p]
  /\ \A p \in Proc : doing[p] = "write_catalog" => owned \subseteq seen[p] \union held[p]
  /\ \A p \in Proc : doing[p] \in {"keep_last", "write_file"} =>
       owned \subseteq defined /\ (adds[p] # None => adds[p] \in defined)

FilesInv ==
  /\ FilesTypes
  /\ settings.form = "old" => owned \subseteq settings.names /\ \A p \in Proc : adds[p] = None
  /\ overlapped \/ Safekept

(* Every step of a process, and its death, keeps the providers safe.         *)
LEMMA FilesNext ==
  ASSUME F!FilesAssumption, FilesInv, [F!Next]_(F!vars)
  PROVE  FilesInv'
<1> USE DEF FilesInv, FilesTypes, FilesSteps, F!private, F!Goto
<1>0. \A c \in Added : c # None /\ c \in F!Definitions
  BY DEF F!FilesAssumption, F!Definitions
<1>1. ASSUME NEW p \in Proc, F!Load(p) PROVE FilesInv'
  <2>1. held'[p] = settings.names /\ settings.form = "old" /\ UNCHANGED <<settings, defined, owned>>
    BY <1>1 DEF F!Load, F!Loaded
  <2>2. overlapped' \/ Safekept'
    BY <1>1, <2>1 DEF F!Load, Safekept
  <2>3. settings.names \in SUBSET F!Definitions
    BY DEF F!File
  <2> QED BY <1>1, <2>1, <2>2, <2>3 DEF F!Load
<1>2. ASSUME NEW p \in Proc, NEW c \in Added, F!Upsert(p, c) PROVE FilesInv'
  <2>1. F!Loaded \union {c} \subseteq F!Definitions
    BY <1>0, <1>2 DEF F!Loaded, F!Upsert
  <2>2. overlapped' \/ Safekept'
    <3>1. SUFFICES ASSUME ~overlapped' PROVE Safekept'
      OBVIOUS
    <3>2. \A q \in Proc : doing[q] = "idle"
      BY <1>2, <3>1 DEF F!Upsert, F!Busy
    <3>3. ~overlapped
      BY <1>2, <3>1 DEF F!Upsert
    <3> QED BY <1>0, <1>2, <3>2, <3>3 DEF F!Upsert, Safekept
  <2> QED BY <1>0, <1>2, <2>1, <2>2 DEF F!Upsert
<1>3. ASSUME NEW p \in Proc, F!KeepOld(p) PROVE FilesInv'
  BY <1>3 DEF F!KeepOld, Safekept
<1>4. ASSUME NEW p \in Proc, F!ReadCatalog(p) PROVE FilesInv'
  BY <1>4 DEF F!ReadCatalog, Safekept
<1>5. ASSUME NEW p \in Proc, F!WriteCatalog(p) PROVE FilesInv'
  BY <1>5 DEF F!WriteCatalog, Safekept
<1>6. ASSUME NEW p \in Proc, F!KeepLast(p) PROVE FilesInv'
  BY <1>6 DEF F!KeepLast, Safekept
<1>7. ASSUME NEW p \in Proc, F!WriteFile(p) PROVE FilesInv'
  <2>1. settings' = [form |-> "new", names |-> held[p]] /\ settings' \in F!File
    BY <1>7 DEF F!WriteFile, F!File
  <2>2. FilesTypes'
    BY <1>0, <1>7, <2>1 DEF F!WriteFile
  <2>3. overlapped' \/ Safekept'
    BY <1>7, <2>1, <2>2 DEF F!WriteFile, Safekept
  <2> QED BY <1>7, <2>1, <2>2, <2>3 DEF F!WriteFile
<1>8. ASSUME NEW p \in Proc, F!Stop(p) PROVE FilesInv'
  BY <1>8 DEF F!Stop, Safekept
<1>9. CASE UNCHANGED F!vars
  BY <1>9 DEF F!vars, Safekept
<1> QED
  BY <1>1, <1>2, <1>3, <1>4, <1>5, <1>6, <1>7, <1>8, <1>9 DEF F!Next

(* No definition of a provider is lost, wherever a process is killed and      *)
(* however migrations overlap, for any number of processes and providers.     *)
THEOREM DefinitionsAlwaysSurvive == Spec => []DefinitionsSurvive
<1>1. F!FilesAssumption
  BY PartsAssumption
<1>2. Init => FilesInv
  BY DEF Init, F!Init, F!Absent, F!File, F!Definitions, FilesInv, FilesTypes, FilesSteps, Safekept
<1>3. FilesInv /\ [Next]_vars => FilesInv'
  <2>1. [Next]_vars => [F!Next]_(F!vars)
    BY DEF Next, vars, filesVars, F!vars, F!private
  <2> QED BY <1>1, <2>1, FilesNext
<1>4. FilesInv => DefinitionsSurvive
  BY DEF FilesInv, Safekept, DefinitionsSurvive, F!DefinitionsSurvive
<1> QED BY <1>2, <1>3, <1>4, PTL DEF Spec

-----------------------------------------------------------------------------
(***************************************************************************)
(* CatalogOverlay: the choices of the user survive.                        *)
(***************************************************************************)
Unwritten == [url |-> None, removed |-> {}]

(* A default the entry has is one of its models; the saved default is the    *)
(* choice; and what is saved of a definition nobody changed is the release's. *)
OverlayInv ==
  /\ bundled \in Releases
  /\ entry = [url |-> entry.url, models |-> entry.models, default |-> entry.default,
              levels |-> entry.levels, headers |-> entry.headers, removed |-> entry.removed]
  /\ entry.models \subseteq Model /\ entry.headers \in [Names -> B!HeaderValue]
  /\ prefs \in B!Preferences \union {None}
  /\ entry.default # None => entry.default \in entry.models
  /\ chosen # None => prefs # None /\ prefs.default = chosen
  /\ ~styled /\ wrote = Unwritten =>
       /\ entry = B!NoEntry
       /\ prefs # None => \A n \in Names : prefs.headers[n] = bundled.headers[n]

(* What the release and the entry come to, and that its default is good.     *)
LEMMA EffectiveFacts ==
  ASSUME B!ReleasesAssumption, OverlayInv
  PROVE  /\ B!Effective.models =
              (entry.models \union bundled.models) \ (entry.removed \union bundled.removed)
         /\ B!Effective.url = B!Or(entry.url, bundled.url)
         /\ B!Effective.levels = B!Or(entry.levels, bundled.levels)
         /\ B!Effective.headers = B!Over(bundled.headers, entry.headers)
         /\ B!Effective.models \subseteq Model
         /\ B!Effective.headers \in [Names -> B!HeaderValue]
         /\ B!CatalogStaysValid
<1>1. /\ B!Merged.models = entry.models \union bundled.models
      /\ B!Merged.removed = entry.removed \union bundled.removed
      /\ B!Merged.default = B!Or(entry.default, bundled.default)
      /\ B!Merged.levels = B!Or(entry.levels, bundled.levels)
      /\ B!Merged.url = B!Or(entry.url, bundled.url)
      /\ B!Merged.headers = B!Over(bundled.headers, entry.headers)
  BY DEF B!Merged
<1> DEFINE D == B!Or(entry.default, bundled.default)
           gone == entry.removed \union bundled.removed
           left == (entry.models \union bundled.models) \ gone
<1>2. /\ B!Effective.models = left
      /\ B!Effective.url = B!Merged.url /\ B!Effective.levels = B!Merged.levels
      /\ B!Effective.headers = B!Merged.headers
      /\ B!Effective.default = IF D \notin gone THEN D
                               ELSE IF bundled.default \notin gone THEN bundled.default
                               ELSE IF left = {} THEN None ELSE CHOOSE m \in left : TRUE
  BY DEF B!Effective, B!Tombstoned, B!Merged
<1>3. bundled.default \in bundled.models /\ bundled.models \subseteq Model
  BY DEF OverlayInv, B!ReleasesAssumption
<1>4. D \in entry.models \union bundled.models
  BY <1>3 DEF OverlayInv, B!Or
<1>5. left # {} => (CHOOSE m \in left : TRUE) \in left
  OBVIOUS
<1>6. B!CatalogStaysValid
  BY <1>2, <1>3, <1>4, <1>5 DEF B!CatalogStaysValid, B!CatalogValid
<1>7. B!Over(bundled.headers, entry.headers) \in [Names -> B!HeaderValue]
  BY DEF OverlayInv, B!Over, B!Or, B!HeaderValue
<1>8. left \subseteq Model
  BY <1>3 DEF OverlayInv
<1> QED BY <1>1, <1>2, <1>6, <1>7, <1>8

(* A save of what was loaded, with or without a change, keeps the choices.   *)
LEMMA SaveKeeps ==
  ASSUME B!ReleasesAssumption, OverlayInv, B!Loads, UNCHANGED <<bundled, wrote, styled>>,
         NEW p, B!Save(p),
         p.models \subseteq Model, B!Effective.models \subseteq p.models,
         p.default \in Model, p.thinking \in [Model -> Level \union {None}],
         p.headers = B!Provider(B!Effective).headers, p.levels = B!Effective.levels,
         entry = B!NoEntry => p.url = B!Effective.url /\ p.models = B!Effective.models,
         chosen' # None => p.default = chosen'
  PROVE  OverlayInv'
<1> DEFINE E == B!Effective
<1>1. /\ E.headers \in [Names -> B!HeaderValue] /\ E.default \in E.models
  BY EffectiveFacts DEF B!Loads, B!CatalogValid
<1>2. E.headers = B!Over(bundled.headers, entry.headers)
  BY EffectiveFacts
<1> HIDE DEF E
<1>3. p.headers = IF prefs = None THEN E.headers ELSE B!Over(E.headers, prefs.headers)
  BY DEF B!Provider, E
<1>4. p.headers \in [Names -> B!HeaderValue]
  <2>1. prefs # None => prefs.headers \in [Names -> B!HeaderValue]
    BY DEF OverlayInv, B!Preferences
  <2> QED BY <1>1, <1>3, <2>1 DEF B!Over, B!Or
<1>5. prefs' = [default |-> p.default, headers |-> p.headers, thinking |-> p.thinking]
  BY DEF B!Save
<1>6. prefs' \in B!Preferences /\ prefs' # None
  BY <1>4, <1>5 DEF B!Preferences, B!ReleasesAssumption
<1>7. chosen' # None => prefs'.default = chosen'
  BY <1>5
<1>8. /\ entry' = [url |-> entry'.url, models |-> entry'.models, default |-> entry'.default,
                   levels |-> entry'.levels, headers |-> entry'.headers,
                   removed |-> entry'.removed]
      /\ entry'.models \subseteq Model /\ entry'.headers \in [Names -> B!HeaderValue]
      /\ entry'.default # None => entry'.default \in entry'.models
  <2>1. CASE entry' = entry
    BY <2>1 DEF OverlayInv
  <2>2. CASE entry' = B!Snapshot(p)
    <3>1. entry' = [url |-> p.url, models |-> p.models, levels |-> p.levels,
                    headers |-> p.headers, default |-> E.default, removed |-> {}]
      BY <1>1, <2>2 DEF B!Snapshot, E
    <3> QED BY <1>1, <1>4, <3>1 DEF E
  <2> QED BY <2>1, <2>2 DEF B!Save
<1>9. ASSUME ~styled, wrote = Unwritten
      PROVE  entry' = B!NoEntry /\ \A n \in Names : prefs'.headers[n] = bundled.headers[n]
  <2>1. entry = B!NoEntry /\ (prefs # None => \A n \in Names : prefs.headers[n] = bundled.headers[n])
    BY <1>9 DEF OverlayInv
  <2>2. entry.headers = [n \in Names |-> None]
    BY <2>1 DEF B!NoEntry, B!NoHeaders
  <2>3. E.headers = [n \in Names |-> bundled.headers[n]]
    BY <1>2, <2>2 DEF B!Over, B!Or
  <2>4. p.headers = [n \in Names |-> bundled.headers[n]]
    BY <1>3, <2>1, <2>3 DEF B!Over, B!Or
  <2>5. ~B!Differs(p)
    BY <2>1, <2>3, <2>4 DEF B!Differs, E
  <2> QED BY <1>5, <2>1, <2>4, <2>5 DEF B!Save
<1> QED BY <1>6, <1>7, <1>8, <1>9 DEF OverlayInv

(* Choices, logins, releases and the user's own edits keep the invariant.    *)
LEMMA OverlayNext ==
  ASSUME B!ReleasesAssumption, OverlayInv, [B!Next]_(B!vars)
  PROVE  OverlayInv'
<1> DEFINE E == B!Effective
           P == B!Provider(E)
<1>a. /\ bundled.models \subseteq Model /\ bundled.url = B!Or(None, bundled.url)
      /\ None \notin Model /\ None \notin B!Preferences
  BY DEF OverlayInv, B!ReleasesAssumption, B!Or
<1>b. ASSUME B!Loads
      PROVE  /\ P.models = E.models /\ P.url = E.url /\ P.levels = E.levels
             /\ E.models \subseteq Model
             /\ P.default \in E.models
             /\ P.default = IF prefs # None /\ prefs.default \in E.models
                            THEN prefs.default ELSE E.default
             /\ P.thinking \in [Model -> Level \union {None}]
  <2>1. E.models \subseteq Model /\ E.default \in E.models
    BY <1>b, EffectiveFacts DEF B!Loads, B!CatalogValid
  <2>2. \A m \in Model : prefs # None => prefs.thinking[m] \in Level \union {None}
    BY DEF OverlayInv, B!Preferences
  <2> HIDE DEF E
  <2>3. B!Thinking(E) \in [Model -> Level \union {None}]
    BY <2>2 DEF B!Thinking
  <2> QED BY <2>1, <2>3 DEF B!Provider
<1>c. P = [models |-> P.models, url |-> P.url, levels |-> P.levels, default |-> P.default,
           headers |-> P.headers, thinking |-> P.thinking]
  BY DEF B!Provider
<1> HIDE DEF P, E
<1>1. ASSUME NEW m \in Model, B!SetDefault(m) PROVE OverlayInv'
  <2> DEFINE q == [P EXCEPT !.default = m]
  <2>1. /\ q.models = P.models /\ q.url = P.url /\ q.levels = P.levels /\ q.default = m
        /\ q.headers = P.headers /\ q.thinking = P.thinking
    BY <1>c
  <2>2. B!Loads /\ B!Save(q) /\ chosen' = m /\ UNCHANGED <<bundled, wrote, styled>>
    BY <1>1 DEF B!SetDefault, P, E
  <2> HIDE DEF q
  <2> QED BY <1>b, <2>1, <2>2, SaveKeeps DEF P, E
<1>d. ASSUME B!Loads PROVE B!Kept # None => P.default = B!Kept
  BY <1>a, <1>b, <1>d DEF B!Kept, OverlayInv, E
<1>2. ASSUME NEW m \in Model, NEW l \in Level, B!SetThinking(m, l) PROVE OverlayInv'
  <2> DEFINE q == [P EXCEPT !.thinking[m] = l]
  <2>1. B!Loads /\ B!Save(q) /\ chosen' = B!Kept /\ UNCHANGED <<bundled, wrote, styled>>
    BY <1>2 DEF B!SetThinking, P, E
  <2>2. /\ q.models = P.models /\ q.url = P.url /\ q.levels = P.levels /\ q.default = P.default
        /\ q.headers = P.headers /\ q.thinking = [P.thinking EXCEPT ![m] = l]
    BY <1>c
  <2>3. q.thinking \in [Model -> Level \union {None}]
    BY <1>b, <2>1, <2>2
  <2> HIDE DEF q
  <2> QED BY <1>b, <1>d, <2>1, <2>2, <2>3, SaveKeeps DEF P, E
<1>3. CASE B!Login
  <2> DEFINE q == B!Upserted(P)
  <2>1. B!Loads /\ B!Save(q) /\ chosen' = B!Kept /\ UNCHANGED <<bundled, wrote, styled>>
    BY <1>3 DEF B!Login, P, E
  <2>2. /\ q.models = P.models \union (bundled.models \ bundled.removed) /\ q.url = bundled.url
        /\ q.levels = P.levels /\ q.default = P.default
        /\ q.headers = P.headers /\ q.thinking = P.thinking
    BY <1>c DEF B!Upserted
  <2>3. entry = B!NoEntry => q.url = E.url /\ q.models = E.models
    <3>1. SUFFICES ASSUME entry = B!NoEntry PROVE q.url = E.url /\ q.models = E.models
      OBVIOUS
    <3>2. entry.url = None /\ entry.models = {} /\ entry.removed = {}
      BY <3>1 DEF B!NoEntry
    <3>3. E.url = bundled.url /\ E.models = bundled.models \ bundled.removed
      BY <1>a, <3>2, EffectiveFacts DEF E
    <3> QED BY <1>b, <2>1, <2>2, <3>3
  <2> HIDE DEF q
  <2> QED BY <1>a, <1>b, <1>d, <2>1, <2>2, <2>3, SaveKeeps DEF P, E
<1>4. ASSUME NEW r \in Releases, B!Upgrade(r) PROVE OverlayInv'
  BY <1>4 DEF B!Upgrade, OverlayInv, B!Preferences
<1>5. ASSUME NEW u, NEW gone, B!EditEntry(u, gone) PROVE OverlayInv'
  <2>1. wrote' # Unwritten
    BY <1>5 DEF B!EditEntry, Unwritten
  <2>2. /\ entry'.models = entry.models /\ entry'.default = entry.default
        /\ entry'.headers = entry.headers
        /\ entry' = [url |-> entry'.url, models |-> entry'.models, default |-> entry'.default,
                     levels |-> entry'.levels, headers |-> entry'.headers,
                     removed |-> entry'.removed]
    BY <1>5 DEF B!EditEntry, OverlayInv
  <2> QED BY <1>5, <2>1, <2>2 DEF B!EditEntry, OverlayInv
<1>6. ASSUME NEW value \in {None, "set"}, B!EditHeader(value) PROVE OverlayInv'
  <2>1. prefs # None /\ prefs \in B!Preferences /\ styled'
    BY <1>6 DEF B!EditHeader, OverlayInv
  <2>2. prefs' = [prefs EXCEPT !.headers["own"] = value]
    BY <1>6 DEF B!EditHeader
  <2>3. value \in B!HeaderValue
    BY DEF B!HeaderValue
  <2>4. prefs' \in B!Preferences /\ prefs'.default = prefs.default
    BY <2>1, <2>2, <2>3 DEF B!Preferences
  <2>5. prefs' # None
    BY <1>a, <2>4
  <2> QED BY <1>6, <2>1, <2>4, <2>5 DEF B!EditHeader, OverlayInv
<1>7. CASE UNCHANGED B!vars
  BY <1>7 DEF B!vars, OverlayInv, B!Preferences
<1> QED BY <1>1, <1>2, <1>3, <1>4, <1>5, <1>6, <1>7 DEF B!Next

(* Releases, the user's edits and Tau's own saves, in any order, leave a      *)
(* catalog that is valid, the choice of the user in effect, and what nobody   *)
(* changed to the release; for any releases whose definitions are valid.      *)
THEOREM ChoicesAlwaysSurvive == Spec => []ChoicesSurvive
<1>1. B!ReleasesAssumption
  BY PartsAssumption
<1>2. Init => OverlayInv
  <2> SUFFICES ASSUME B!Init PROVE OverlayInv
    BY DEF Init
  <2> QED BY DEF B!Init, OverlayInv, B!NoEntry, B!NoHeaders, B!HeaderValue, Unwritten
<1>3. OverlayInv /\ [Next]_vars => OverlayInv'
  <2>1. [Next]_vars => [B!Next]_(B!vars)
    BY DEF Next, vars, overlayVars, B!vars
  <2> QED BY <1>1, <2>1, OverlayNext
<1>4. OverlayInv => ChoicesSurvive
  <2> SUFFICES ASSUME OverlayInv PROVE B!ChoicesSurvive
    BY DEF ChoicesSurvive
  <2>1. B!CatalogStaysValid /\ B!Effective.models \subseteq Model
    BY <1>1, EffectiveFacts
  <2>2. B!ChoiceIsKept
    <3>1. SUFFICES ASSUME chosen \in B!Effective.models
                   PROVE  B!Provider(B!Effective).default = chosen
      BY DEF B!ChoiceIsKept
    <3>2. prefs # None /\ prefs.default = chosen
      BY <1>1, <2>1, <3>1 DEF OverlayInv, B!ReleasesAssumption
    <3> QED BY <3>1, <3>2 DEF B!Provider
  <2>3. B!DefinitionsStayBundled
    BY DEF OverlayInv, Unwritten, B!DefinitionsStayBundled
  <2> QED BY <2>1, <2>2, <2>3 DEF B!ChoicesSurvive
<1> QED BY <1>2, <1>3, <1>4, PTL DEF Spec

-----------------------------------------------------------------------------
(***************************************************************************)
(* ProviderLogin: logins hold.                                             *)
(***************************************************************************)

(* The key screens are of a built-in provider, and a custom provider's key   *)
(* was stored after its definition.                                          *)
KeyScreens ==
  /\ stored \in [L!Provider -> Secret \union {None}]
  /\ screen.at \in {"key", "oauth"} => screen.of \in Builtin
  /\ \A p \in Custom : stored[p] # None => p \in catalog

LoginInv == KeyScreens /\ L!KeyInUseIsStored /\ L!StartFindsLogin

(* A login with its writes: whatever of them was done, the keys are reachable *)
(* and the client in use, if none failed, has the stored one.                *)
LEMMA ConnectHolds ==
  ASSUME L!LoginAssumption, LoginInv, NEW p \in L!Provider, NEW key \in Secret,
         NEW cat, catalog \subseteq cat, p \in Custom => p \in cat, NEW done \in 0 .. 2,
         L!Connect(p, key, cat, done)
  PROVE  LoginInv'
<1> DEFINE st == IF done > 0 THEN [stored EXCEPT ![p] = key] ELSE stored
           known == L!Known(st, cat, saved) \union {p}
           connects == done = 2 /\ L!Reloads(st)
<1>1. /\ stored' = st /\ catalog' = cat
      /\ current' = (IF connects THEN p ELSE current)
      /\ client' = (IF connects THEN L!Client(p, st) ELSE client)
      /\ told' = (IF connects THEN "saved" ELSE "not saved")
      /\ failed' = ((failed /\ ~connects) \/ done < 2)
      /\ screen' = L!Top
  BY Zenon DEF L!Connect
<1>2. st \in [L!Provider -> Secret \union {None}] /\ \A q \in L!Provider : q # p => st[q] = stored[q]
  BY DEF LoginInv, KeyScreens
<1>3. KeyScreens'
  <2> HIDE DEF st, connects
  <2>1. \A q \in Custom : q \in L!Provider BY DEF L!Provider
  <2>2. stored' \in [L!Provider -> Secret \union {None}] BY <1>1, <1>2
  <2>3. ~(screen'.at \in {"key", "oauth"}) BY <1>1 DEF L!Top
  <2>4. ASSUME NEW q \in Custom, stored'[q] # None PROVE q \in catalog'
    BY <1>1, <1>2, <2>1, <2>4 DEF LoginInv, KeyScreens
  <2> QED BY <2>2, <2>3, <2>4 DEF KeyScreens
<1>4. L!KeyInUseIsStored'
  <2> HIDE DEF st
  <2>1. CASE connects
    BY <1>1, <2>1 DEF L!KeyInUseIsStored, L!Client, L!Key
  <2>2. CASE ~connects
    <3>1. SUFFICES ASSUME ~failed', client' # None, stored'[current'] # None
                   PROVE  FALSE
      BY DEF L!KeyInUseIsStored
    <3>2. ~failed /\ ~(done < 2) BY <1>1, <2>2, <3>1, Zenon
    <3>3. done = 2 BY <3>2
    <3>4. ~L!Reloads(st) BY <2>2, <3>3
    <3>5. st[current] = None BY <3>4 DEF L!Reloads, L!Builds, L!Usable, L!Key
    <3> QED BY <1>1, <2>2, <3>1, <3>5
  <2> QED BY <2>1, <2>2
<1>5. L!StartFindsLogin'
  BY <1>1 DEF L!StartFindsLogin
<1> QED BY <1>3, <1>4, <1>5 DEF LoginInv

(* A screen that is shown changes nothing else.                              *)
LEMMA ShowHolds ==
  ASSUME LoginInv, NEW place, NEW of, L!Show(place, of),
         place \in {"key", "oauth"} => of \in Builtin
  PROVE  LoginInv'
<1> USE DEF L!Show, L!files, L!session, LoginInv
<1>1. KeyScreens' BY DEF KeyScreens
<1>2. L!KeyInUseIsStored' BY DEF L!KeyInUseIsStored, L!Client, L!Key
<1>3. L!StartFindsLogin' BY DEF L!StartFindsLogin, L!Known, L!Usable, L!Key
<1> QED BY <1>1, <1>2, <1>3

(* A start has a client unless no provider it knows has a key: the provider   *)
(* it selects is one with a key where there is one.                          *)
LEMMA StartHolds ==
  ASSUME L!LoginAssumption, LoginInv, NEW resumed \in BOOLEAN, L!Start(resumed)
  PROVE  LoginInv'
<1>1. PICK p \in L!Provider :
         /\ L!Selected(p, resumed) /\ current' = p
         /\ client' = IF L!Builds(p, stored) THEN L!Client(p, stored) ELSE None
  BY DEF L!Start
<1>2. /\ screen' = L!Top /\ told' = (IF resumed THEN "resumed" ELSE "started")
      /\ UNCHANGED <<stored, catalog, saved, default>>
  BY DEF L!Start, L!files
<1>3. L!Client(p, stored) # None
  BY DEF L!Client, L!Key, L!LoginAssumption, LoginInv, KeyScreens
<1>4. KeyScreens'
  BY <1>2 DEF LoginInv, KeyScreens, L!Top
<1>5. L!KeyInUseIsStored'
  BY <1>1, <1>2 DEF L!KeyInUseIsStored, L!Client, L!Key
<1>6. L!StartFindsLogin'
  <2>1. SUFFICES ASSUME ~resumed, client' = None,
                        NEW q \in L!Known(stored, catalog, saved), L!Usable(q, stored)
                 PROVE  FALSE
    BY <1>2 DEF L!StartFindsLogin, L!Known, L!Usable, L!Key
  <2>2. ~L!Usable(p, stored)
    BY <1>1, <1>3, <2>1 DEF L!Builds
  <2>3. L!Usable(p, stored)
    BY <1>1, <2>1 DEF L!Selected
  <2> QED BY <2>2, <2>3
<1> QED BY <1>4, <1>5, <1>6 DEF LoginInv

(* A logout builds the client again from the keys that are left, or keeps the *)
(* one of a key that is gone.                                                *)
LEMMA LogoutHolds ==
  ASSUME L!LoginAssumption, LoginInv, NEW p \in Builtin, L!Logout(p)
  PROVE  LoginInv'
<1>1. screen' = L!Top /\ told' \in {"none stored", "not removed", "removed"}
  BY DEF L!Logout
<1>2. L!StartFindsLogin' BY <1>1 DEF L!StartFindsLogin
<1>3. CASE UNCHANGED <<stored, catalog, current, client>> /\ failed' \in {failed, TRUE}
  <2>1. KeyScreens' BY <1>1, <1>3 DEF LoginInv, KeyScreens, L!Top
  <2>2. L!KeyInUseIsStored'
    BY <1>3 DEF LoginInv, L!KeyInUseIsStored, L!Client, L!Key
  <2> QED BY <1>2, <2>1, <2>2 DEF LoginInv
<1>4. CASE /\ stored' = [stored EXCEPT ![p] = None] /\ UNCHANGED <<catalog, current, failed>>
           /\ client' = (IF L!Reloads(stored') THEN L!Rebuilt(stored') ELSE client)
  <2>1. KeyScreens'
    BY <1>1, <1>4 DEF LoginInv, KeyScreens, L!Top, L!Provider
  <2>2. L!KeyInUseIsStored'
    BY <1>4 DEF LoginInv, L!KeyInUseIsStored, L!Reloads, L!Builds, L!Usable, L!Rebuilt,
                L!Client, L!Key
  <2> QED BY <1>2, <2>1, <2>2 DEF LoginInv
<1> QED BY <1>3, <1>4 DEF L!Logout, L!files, L!session

(* Every screen, write, start and choice of a model keeps the invariant.     *)
LEMMA LoginNext ==
  ASSUME L!LoginAssumption, LoginInv, [L!Next]_(L!vars)
  PROVE  LoginInv'
<1>1. ASSUME NEW p \in Builtin, L!PickProvider(p) \/ L!LoginCommand(p) PROVE LoginInv'
  BY <1>1, ShowHolds DEF L!PickProvider, L!LoginCommand, L!OpenLogin
<1>2. CASE L!OpenMethods \/ L!PickMethod \/ L!CustomCommand \/ L!Back \/ L!Close \/ L!OpenLogout
  BY <1>2, ShowHolds DEF L!OpenMethods, L!PickMethod, L!CustomCommand, L!Back, L!Close,
                         L!OpenLogout
<1>3. ASSUME NEW key \in Secret, NEW done \in 0 .. 2, L!SubmitKey(key, done) \/ L!OAuthDone(key, done)
      PROVE  LoginInv'
  <2>1. screen.of \in Builtin /\ L!Connect(screen.of, key, catalog, done)
    BY <1>3 DEF L!SubmitKey, L!OAuthDone, LoginInv, KeyScreens
  <2>2. screen.of \in L!Provider /\ ~(screen.of \in Custom)
    BY <2>1 DEF L!Provider, L!LoginAssumption
  <2> QED BY <1>3, <2>1, <2>2, ConnectHolds
<1>4. ASSUME NEW p \in Custom, NEW key \in Secret, NEW done \in 0 .. 2, L!SubmitCustom(p, key, done)
      PROVE  LoginInv'
  <2>1. p \in L!Provider /\ L!Connect(p, key, catalog \union {p}, done)
    BY <1>4 DEF L!SubmitCustom, L!Provider
  <2> QED BY <1>4, <2>1, ConnectHolds
<1>5. ASSUME NEW p \in Custom, L!CustomFails(p) PROVE LoginInv'
  BY <1>5 DEF L!CustomFails, L!files, L!session, L!Top, LoginInv, KeyScreens,
              L!KeyInUseIsStored, L!StartFindsLogin
<1>6. ASSUME NEW p \in L!Provider, L!ModelCommand(p) PROVE LoginInv'
  <2>1. screen = L!Top /\ UNCHANGED <<stored, catalog, screen>> BY <1>6 DEF L!ModelCommand
  <2>2. KeyScreens' BY <2>1 DEF LoginInv, KeyScreens
  <2>3. told' # "started" BY <1>6 DEF L!ModelCommand
  <2>4. L!KeyInUseIsStored'
    BY <1>6 DEF L!ModelCommand, L!session, LoginInv, L!KeyInUseIsStored, L!Client, L!Key
  <2> QED BY <2>2, <2>3, <2>4 DEF LoginInv, L!StartFindsLogin
<1>7. CASE UNCHANGED L!vars
  BY <1>7 DEF L!vars, L!files, L!session, LoginInv, KeyScreens, L!KeyInUseIsStored,
              L!StartFindsLogin, L!Client, L!Key, L!Known, L!Usable
<1> QED BY <1>1, <1>2, <1>3, <1>4, <1>5, <1>6, <1>7, StartHolds, LogoutHolds DEF L!Next

(* A key that was stored is of a provider Tau knows, the client in use has   *)
(* the stored key unless a write failed, and a start passes no key over, for *)
(* every set of providers and whatever write of a login fails.               *)
THEOREM LoginsAlwaysHold == Spec => []LoginsHold
<1>1. Init => LoginInv
  BY PartsAssumption
     DEF Init, L!Init, L!Top, L!Provider, LoginInv, KeyScreens, L!KeyInUseIsStored,
         L!StartFindsLogin, L!Client, L!Key, L!Known, L!Usable, L!Builds, L!LoginAssumption
<1>2. LoginInv /\ [Next]_vars => LoginInv'
  <2> SUFFICES ASSUME LoginInv, [Next]_vars PROVE LoginInv'
    OBVIOUS
  <2>1. [L!Next]_(L!vars) BY DEF Next, vars, loginVars, L!vars, L!files, L!session
  <2> QED BY <2>1, LoginNext, PartsAssumption
<1>3. LoginInv => LoginsHold
  <2> SUFFICES ASSUME LoginInv, NEW p \in L!Provider, stored[p] # None
               PROVE  p \in L!Known(stored, catalog, saved)
    BY DEF LoginInv, LoginsHold, L!LoginsHold, L!StoredKeyIsReachable
  <2> QED BY DEF LoginInv, KeyScreens, L!Provider, L!Known, L!Usable, L!Key
<1> QED BY <1>1, <1>2, <1>3, PTL DEF Spec
=============================================================================
