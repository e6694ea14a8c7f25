-------------------------- MODULE TrustStoreProofs --------------------------
(* Proof that TrustStore implements TrustLedger, for any set of processes.   *)
EXTENDS TrustStore, TLAPS

Undoable == {"data", "commit", "recover", "undone"}
Active   == {"journal"} \union Undoable
Inside   == {"reading", "opening"} \union Active
Labels   == {"idle", "read", "update"} \union Inside
Contents == {None, Malformed} \union Decisions

Types ==
  /\ data \in Contents
  /\ journal \in {None} \union Journals
  /\ disk \in [data : SUBSET Contents, journal : SUBSET ({None} \union Journals)]
  /\ holder \in Proc \union {NoProc}
  /\ pc \in [Proc -> Labels]
  /\ change \in [Proc -> Change \union {None}]
  /\ ledger \in Decisions

(* The lock: exactly the process inside has it, and an update knows what it  *)
(* is.                                                                       *)
Locked ==
  /\ \A p \in Proc : pc[p] \in Inside <=> holder = p
  /\ \A p \in Proc : pc[p] \in {"update", "opening", "journal", "data", "commit"}
                       => change[p] \in Change

(* What a power failure may leave of the two entries is refused or is the    *)
(* ledger.                                                                   *)
DiskIsSafe ==
  /\ data \in disk.data /\ journal \in disk.journal
  /\ None \in disk.journal =>
       \A d \in disk.data : d = Malformed \/ ReadOf(d) = ledger

(* How far the update in progress has come.                                  *)
AtJournal == journal = None /\ data # Malformed
AtData    == /\ journal # None /\ disk.journal = {journal}
             /\ data # Malformed /\ data = journal.prior /\ ReadOf(data) = ledger
AtCommit(u) == /\ journal # None /\ disk = [data |-> {data}, journal |-> {journal}]
               /\ data = Apply(u, ledger) /\ ReadOf(journal.prior) = ledger
AtRecover == journal # None => ReadOf(journal.prior) = ledger
AtUndone  == /\ journal # None /\ disk = [data |-> {data}, journal |-> {journal}]
             /\ ReadOf(data) = ledger

Progress ==
  \A p \in Proc :
    /\ pc[p] = "journal" => AtJournal
    /\ pc[p] = "data"    => AtData
    /\ pc[p] = "commit"  => AtCommit(change[p])
    /\ pc[p] = "recover" => AtRecover
    /\ pc[p] = "undone"  => AtUndone

IInv == Types /\ Locked /\ DiskIsSafe /\ Progress
-----------------------------------------------------------------------------
(* The contents that are made of decisions are decisions.                    *)
LEMMA ApplyType ==
  ASSUME StoreAssumption, NEW u \in Change, NEW d \in Decisions
  PROVE  Apply(u, d) \in Decisions
<1>1. u.path \in Path /\ u.verdict \in Verdict \union {"unset"}
  BY DEF Change, Path, Verdict
<1>2. CASE u.op = "set"
  BY <1>1, <1>2 DEF Apply, Set, Decisions
<1>3. CASE u.op = "trust_parent"
  <2>1. Parent \in Path /\ "unset" \in Verdict \union {"unset"}
    BY DEF Path
  <2>2. TrustParent(u, d) \in Decisions
    BY <1>1, <2>1 DEF TrustParent, Decisions
  <2> QED BY <1>3, <2>2 DEF Apply
<1>4. CASE u.op = "remove"
  BY <1>1, <1>4 DEF Apply, Remove, Decisions
<1> QED BY <1>2, <1>3, <1>4 DEF Change

(* What a process reads from an entry is decisions.                          *)
LEMMA ReadType ==
  ASSUME StoreAssumption, NEW f \in {None} \union Decisions
  PROVE  ReadOf(f) \in Decisions
BY DEF ReadOf, Empty, Decisions

(* The store starts with the lock free and the disk safe.                    *)
LEMMA InitIInv ==
  ASSUME StoreAssumption
  PROVE  Init => IInv
<1> SUFFICES ASSUME Init PROVE IInv
  OBVIOUS
<1>1. Types
  <2>1. data # Malformed => ReadOf(data) \in Decisions
    BY ReadType DEF Init
  <2>2. Empty \in Decisions
    BY DEF Empty, Decisions
  <2> QED BY <2>1, <2>2 DEF Init, Types, Contents, Labels
<1>2. Locked
  BY DEF Init, Locked, Inside, Active, Undoable, StoreAssumption
<1>3. DiskIsSafe
  BY DEF Init, DiskIsSafe
<1>4. Progress
  BY DEF Init, Progress
<1> QED BY <1>1, <1>2, <1>3, <1>4 DEF IInv

-----------------------------------------------------------------------------
(* A step by which a process leaves the lock, or was never inside it, and    *)
(* that leaves a store a power failure cannot spoil, keeps the invariant.    *)
LEMMA Leaves ==
  ASSUME StoreAssumption, IInv, NEW p \in Proc,
         pc' = [pc EXCEPT ![p] = "idle"],
         holder' = IF holder = p THEN NoProc ELSE holder,
         change' \in [Proc -> Change \union {None}],
         \A q \in Proc \ {p} : change'[q] = change[q],
         data' \in Contents, journal' \in {None} \union Journals,
         disk' \in [data : SUBSET Contents, journal : SUBSET ({None} \union Journals)],
         ledger' \in Decisions,
         pc[p] \notin Inside => UNCHANGED <<ledger, files>>,
         DiskIsSafe'
  PROVE  IInv'
<1> USE DEF IInv
<1>1. \A q \in Proc : pc'[q] = IF q = p THEN "idle" ELSE pc[q]
  BY DEF Types
<1>2. Types'
  BY DEF Types, Labels, StoreAssumption
<1>3. Locked'
  <2>1. "idle" \notin Inside
    BY DEF Inside, Active, Undoable
  <2>2. \A q \in Proc : pc'[q] \in Inside <=> holder' = q
    BY <1>1, <2>1 DEF Locked, StoreAssumption
  <2> QED BY <1>1, <2>2 DEF Locked
<1>4. Progress'
  <2>1. CASE pc[p] \in Inside
    <3>1. \A q \in Proc : pc'[q] \notin Inside
      BY <1>1, <2>1 DEF Locked, Inside, Active, Undoable
    <3> QED BY <3>1 DEF Progress, Inside, Active, Undoable
  <2>2. CASE pc[p] \notin Inside
    <3>1. UNCHANGED <<ledger, data, journal, disk>>
      BY <2>2 DEF files
    <3>2. \A q \in Proc : pc'[q] = "commit" => q # p
      BY <1>1
    <3> QED BY <1>1, <3>1, <3>2
            DEF Progress, AtJournal, AtData, AtCommit, AtRecover, AtUndone
  <2> QED BY <2>1, <2>2
<1> QED BY <1>2, <1>3, <1>4

(* A step of the process inside, to a place where it stays inside.           *)
LEMMA Advances ==
  ASSUME StoreAssumption, IInv, NEW p \in Proc, NEW l \in Inside,
         pc' = [pc EXCEPT ![p] = l],
         holder' = p, holder \in {p, NoProc},
         UNCHANGED <<change, ledger>>,
         pc[p] \in {"opening", "journal", "data", "commit", "update"}
           \/ l \notin {"opening", "journal", "data", "commit"},
         data' \in Contents, journal' \in {None} \union Journals,
         disk' \in [data : SUBSET Contents, journal : SUBSET ({None} \union Journals)],
         DiskIsSafe',
         l = "journal" => AtJournal',
         l = "data"    => AtData',
         l = "commit"  => AtCommit(change[p])',
         l = "recover" => AtRecover',
         l = "undone"  => AtUndone'
  PROVE  IInv'
<1> USE DEF IInv
<1>1. \A q \in Proc : pc'[q] = IF q = p THEN l ELSE pc[q]
  BY DEF Types
<1>2. \A q \in Proc \ {p} : pc[q] \notin Inside
  BY DEF Locked, StoreAssumption
<1>3. Types'
  BY DEF Types, Labels
<1>4. Locked'
  <2>1. \A q \in Proc : pc'[q] \in Inside <=> holder' = q
    BY <1>1, <1>2 DEF Locked
  <2>2. l # "update"
    BY DEF Inside, Active, Undoable
  <2> QED BY <1>1, <2>1, <2>2 DEF Locked
<1>5. Progress'
  <2>1. \A q \in Proc \ {p} : pc'[q] \notin Inside
    BY <1>1, <1>2
  <2> QED BY <1>1, <2>1 DEF Progress, Inside, Active, Undoable
<1> QED BY <1>3, <1>4, <1>5

(* What a change of the entries leaves on the disk.                          *)
LEMMA EntriesSafe ==
  ASSUME IInv, NEW d \in Contents, NEW j \in {None} \union Journals,
         NEW synced \in BOOLEAN, SetEntries(d, j, synced), UNCHANGED ledger,
         j = None \/ (~synced /\ None \in disk.journal) =>
           /\ d = Malformed \/ ReadOf(d) = ledger
           /\ synced \/ \A e \in disk.data : e = Malformed \/ ReadOf(e) = ledger
  PROVE  /\ data' = d /\ journal' = j
         /\ disk' \in [data : SUBSET Contents, journal : SUBSET ({None} \union Journals)]
         /\ DiskIsSafe'
<1>1. disk \in [data : SUBSET Contents, journal : SUBSET ({None} \union Journals)]
  BY DEF IInv, Types
<1>2. CASE synced
  BY <1>2 DEF SetEntries, DiskIsSafe, ReadOf
<1>3. CASE ~synced
  BY <1>1, <1>3 DEF SetEntries, DiskIsSafe, ReadOf
<1> QED BY <1>2, <1>3

(* Every file operation, failure, death and power failure keeps the          *)
(* invariant.                                                                *)
LEMMA NextIInv ==
  ASSUME StoreAssumption, IInv, [Next]_vars
  PROVE  IInv'
<1> USE DEF IInv
<1> DEFINE Disks == [data : SUBSET Contents, journal : SUBSET ({None} \union Journals)]
<1>1. ASSUME NEW p \in Proc, Call(p) PROVE IInv'
  <2> USE <1>1 DEF Call, Goto, files
  <2>1. Types' /\ DiskIsSafe'
    BY DEF Types, Labels, DiskIsSafe, ReadOf
  <2>2. Locked'
    BY DEF Types, Locked, Inside, Active, Undoable
  <2>3. Progress'
    BY DEF Types, Progress, AtJournal, AtData, AtCommit, AtRecover, AtUndone
  <2> QED BY <2>1, <2>2, <2>3
<1>2. ASSUME NEW p \in Proc, Lock(p) PROVE IInv'
  <2> USE <1>2 DEF Lock, Goto, files
  <2>1. data \in Contents /\ journal \in {None} \union Journals /\ disk \in Disks
    BY DEF Types
  <2>2. DiskIsSafe' /\ UNCHANGED <<data, journal, disk>>
    BY DEF DiskIsSafe, ReadOf
  <2>3. CASE holder = NoProc /\ holder' = p /\ UNCHANGED change
               /\ Goto(p, IF pc[p] = "read" THEN "reading" ELSE "opening")
    <3>1. PICK l \in {"reading", "opening"} :
            pc' = [pc EXCEPT ![p] = l] /\ (l = "opening" => pc[p] = "update")
      BY <2>3
    <3>2. l \in Inside
      BY DEF Inside
    <3> QED BY <2>1, <2>2, <2>3, <3>1, <3>2, Advances, ZenonT(40)
  <2>4. CASE change' = [change EXCEPT ![p] = None] /\ Goto(p, "idle") /\ UNCHANGED holder
    <3>1. holder # p
      BY DEF Locked, Inside, Active, Undoable
    <3>2. change' \in [Proc -> Change \union {None}]
             /\ \A q \in Proc \ {p} : change'[q] = change[q]
      BY <2>4 DEF Types
    <3>3. ledger' \in Decisions
      BY DEF Types
    <3> QED BY <2>1, <2>2, <2>4, <3>1, <3>2, <3>3, Leaves
  <2> QED BY <2>3, <2>4
<1>3. ASSUME NEW p \in Proc, pc[p] \in Inside, NEW a, Return(p, a),
             data' \in Contents, journal' \in {None} \union Journals, disk' \in Disks,
             ledger' \in Decisions, DiskIsSafe'
      PROVE  IInv'
  <2>1. holder = p
    BY <1>3 DEF Locked
  <2>2. change' \in [Proc -> Change \union {None}]
           /\ \A q \in Proc \ {p} : change'[q] = change[q]
    BY <1>3 DEF Types, Return
  <2> QED BY <1>3, <2>1, <2>2, Leaves DEF Return, Goto
<1>4. ASSUME NEW p \in Proc, pc[p] \in Inside, NEW a, Return(p, a), UNCHANGED <<ledger, files>>
      PROVE  IInv'
  <2>1. data' \in Contents /\ journal' \in {None} \union Journals /\ disk' \in Disks
           /\ ledger' \in Decisions /\ DiskIsSafe'
    BY <1>4 DEF Types, DiskIsSafe, ReadOf, files
  <2> QED BY <1>3, <1>4, <2>1
<1>5. ASSUME NEW p \in Proc, Read(p) PROVE IInv'
  BY <1>4, <1>5 DEF Read, Inside
<1>6. ASSUME NEW p \in Proc, ReadToUpdate(p) PROVE IInv'
  <2> USE <1>6 DEF ReadToUpdate
  <2>1. CASE Readable /\ Goto(p, "journal") /\ UNCHANGED <<holder, change, answer>>
    <3>1. UNCHANGED <<ledger, data, journal, disk>>
      BY DEF files
    <3>2. holder' = p /\ holder = p /\ "journal" \in Inside
      BY <2>1 DEF Locked, Inside, Active
    <3>3. data' \in Contents /\ journal' \in {None} \union Journals /\ disk' \in Disks
             /\ DiskIsSafe' /\ AtJournal'
      BY <2>1, <3>1 DEF Types, DiskIsSafe, ReadOf, AtJournal, Readable
    <3> QED BY <2>1, <3>1, <3>2, <3>3, Advances DEF Goto
  <2>2. CASE Return(p, Failed)
    BY <1>4, <2>2 DEF Inside
  <2> QED BY <2>1, <2>2
<1>7. ASSUME NEW p \in Proc, WriteJournal(p) PROVE IInv'
  <2> USE <1>7 DEF WriteJournal
  <2> DEFINE j == [prior |-> data]
  <2>1. holder = p /\ holder' = p /\ AtJournal
    BY DEF Locked, Progress, Inside, Active
  <2>2. data \in Contents /\ j \in Journals /\ j # None /\ j.prior = data
    BY <2>1 DEF Types, Contents, Journals, AtJournal, StoreAssumption
  <2>3. ReadOf(data) = ledger
    BY <2>1 DEF DiskIsSafe, AtJournal
  <2>4. "data" \in Inside /\ "recover" \in Inside
    BY DEF Inside, Active, Undoable
  <2>5. CASE SetEntries(data, j, TRUE) /\ Goto(p, "data")
    <3>1. data' = data /\ journal' = j /\ disk' \in Disks /\ DiskIsSafe'
      BY <2>2, <2>5, EntriesSafe
    <3>2. AtData'
      BY <2>1, <2>2, <2>3, <2>5, <3>1 DEF AtData, AtJournal, SetEntries, ReadOf
    <3> QED BY <2>1, <2>2, <2>4, <2>5, <3>1, <3>2, Advances DEF Goto
  <2>6. CASE SetEntries(data, j, FALSE) /\ Goto(p, "recover")
    <3>1. data' = data /\ journal' = j /\ disk' \in Disks /\ DiskIsSafe'
      BY <2>2, <2>3, <2>6, EntriesSafe DEF DiskIsSafe
    <3>2. AtRecover'
      BY <2>2, <2>3, <3>1 DEF AtRecover, ReadOf
    <3> QED BY <2>1, <2>2, <2>4, <2>6, <3>1, <3>2, Advances DEF Goto
  <2>7. CASE UNCHANGED files /\ Goto(p, "recover")
    <3>1. data' \in Contents /\ journal' \in {None} \union Journals /\ disk' \in Disks
             /\ DiskIsSafe' /\ AtRecover'
      BY <2>1, <2>7 DEF Types, DiskIsSafe, ReadOf, AtRecover, AtJournal, files
    <3> QED BY <2>1, <2>4, <2>7, <3>1, Advances DEF Goto
  <2> QED BY <2>5, <2>6, <2>7 DEF Replace
<1>8. ASSUME NEW p \in Proc, WriteData(p) PROVE IInv'
  <2> USE <1>8 DEF WriteData
  <2> DEFINE d == Apply(change[p], ReadOf(data))
  <2>1. holder = p /\ holder' = p /\ AtData /\ change[p] \in Change
    BY DEF Locked, Progress, Inside, Active, Undoable
  <2>2. d = Apply(change[p], ledger) /\ d \in Decisions
    <3>1. ledger \in Decisions
      BY DEF Types
    <3> QED BY <2>1, <3>1, ApplyType DEF AtData
  <2>3. d \in Contents /\ journal \in Journals /\ journal \in {None} \union Journals
    BY <2>1, <2>2 DEF Types, Contents, AtData
  <2>4. None \notin disk.journal /\ journal # None /\ ReadOf(journal.prior) = ledger
    BY <2>1 DEF AtData
  <2>5. "commit" \in Inside /\ "recover" \in Inside
    BY DEF Inside, Active, Undoable
  <2> HIDE DEF d
  <2>6. CASE SetEntries(d, journal, TRUE) /\ Goto(p, "commit")
    <3>1. data' = d /\ journal' = journal /\ disk' \in Disks /\ DiskIsSafe'
      BY <2>3, <2>4, <2>6, EntriesSafe
    <3>2. AtCommit(change[p])'
      BY <2>2, <2>4, <2>6, <3>1 DEF AtCommit, SetEntries, ReadOf
    <3> QED BY <2>1, <2>3, <2>5, <2>6, <3>1, <3>2, Advances DEF Goto
  <2>7. CASE SetEntries(d, journal, FALSE) /\ Goto(p, "recover")
    <3>1. data' = d /\ journal' = journal /\ disk' \in Disks /\ DiskIsSafe'
      BY <2>3, <2>4, <2>7, EntriesSafe
    <3>2. AtRecover'
      BY <2>4, <3>1 DEF AtRecover, ReadOf
    <3> QED BY <2>1, <2>3, <2>5, <2>7, <3>1, <3>2, Advances DEF Goto
  <2>8. CASE UNCHANGED files /\ Goto(p, "recover")
    <3>1. data' \in Contents /\ journal' \in {None} \union Journals /\ disk' \in Disks
             /\ DiskIsSafe' /\ AtRecover'
      BY <2>4, <2>8 DEF Types, DiskIsSafe, ReadOf, AtRecover, files
    <3> QED BY <2>1, <2>5, <2>8, <3>1, Advances DEF Goto
  <2> QED BY <2>6, <2>7, <2>8 DEF Replace, d
<1>9. ASSUME NEW p \in Proc, Commit(p) PROVE IInv'
  <2> USE <1>9 DEF Commit
  <2>1. pc[p] \in Inside /\ holder = p /\ AtCommit(change[p]) /\ change[p] \in Change
    BY DEF Locked, Progress, Inside, Active, Undoable
  <2>2. data \in Decisions /\ data \in Contents /\ ReadOf(data) = data
    <3>1. ledger \in Decisions
      BY DEF Types
    <3>2. data \in Decisions
      BY <2>1, <3>1, ApplyType DEF AtCommit
    <3> QED BY <3>2 DEF ReadOf, Contents, StoreAssumption
  <2>3. ASSUME NEW synced \in BOOLEAN, SetEntries(data, None, synced),
               Return(p, Done), ledger' = data
        PROVE  IInv'
    <3>1. data' = data /\ journal' = None /\ disk'.data = {data}
             /\ disk' \in Disks /\ journal' \in disk'.journal
      BY <2>1, <2>3 DEF SetEntries, AtCommit, Types
    <3>2. DiskIsSafe'
      BY <2>2, <2>3, <3>1 DEF DiskIsSafe, ReadOf
    <3> QED BY <1>3, <2>1, <2>2, <2>3, <3>1, <3>2
  <2>4. CASE Goto(p, "recover") /\ UNCHANGED <<holder, change, answer, ledger, files>>
    <3>1. data' \in Contents /\ journal' \in {None} \union Journals /\ disk' \in Disks
             /\ DiskIsSafe' /\ AtRecover'
      BY <2>1, <2>4 DEF Types, DiskIsSafe, ReadOf, AtRecover, AtCommit, files
    <3>2. "recover" \in Inside
      BY DEF Inside, Active, Undoable
    <3> QED BY <2>1, <2>4, <3>1, <3>2, Advances DEF Goto
  <2> QED BY <2>3, <2>4
<1>10. ASSUME NEW p \in Proc, RestoreData(p) PROVE IInv'
  <2> USE <1>10 DEF RestoreData
  <2>1. pc[p] \in Inside /\ holder = p /\ AtRecover
    BY DEF Locked, Progress, Inside, Active, Undoable
  <2>2. CASE Return(p, Failed) /\ UNCHANGED files
    BY <1>4, <2>1, <2>2
  <2> DEFINE d == journal.prior
  <2>3. journal # None => journal \in Journals /\ d \in Contents /\ ReadOf(d) = ledger
    BY <2>1 DEF AtRecover, Types, Journals, Contents
  <2> HIDE DEF d
  <2>4. CASE /\ journal # None /\ SetEntries(d, journal, TRUE)
             /\ Goto(p, "undone") /\ UNCHANGED <<holder, change, answer>>
    <3>1. data' = d /\ journal' = journal /\ disk' \in Disks /\ DiskIsSafe'
      BY <2>3, <2>4, EntriesSafe
    <3>2. AtUndone'
      BY <2>3, <2>4, <3>1 DEF AtUndone, SetEntries, ReadOf
    <3>3. "undone" \in Inside
      BY DEF Inside, Active, Undoable
    <3> QED BY <2>1, <2>3, <2>4, <3>1, <3>2, <3>3, Advances DEF Goto
  <2>5. CASE journal # None /\ SetEntries(d, journal, FALSE) /\ Return(p, Failed)
    <3>1. data' = d /\ journal' = journal /\ disk' \in Disks /\ DiskIsSafe'
      BY <2>3, <2>5, EntriesSafe DEF DiskIsSafe
    <3>2. ledger' \in Decisions
      BY DEF Types
    <3> QED BY <1>3, <2>1, <2>3, <2>5, <3>1, <3>2
  <2> QED BY <2>2, <2>4, <2>5 DEF d
<1>11. ASSUME NEW p \in Proc, DropJournal(p) PROVE IInv'
  <2> USE <1>11 DEF DropJournal
  <2>1. pc[p] \in Inside /\ holder = p /\ AtUndone
    BY DEF Locked, Progress, Inside, Active, Undoable
  <2>2. ASSUME NEW synced \in BOOLEAN, SetEntries(data, None, synced) PROVE IInv'
    <3>1. data \in Contents /\ ledger' \in Decisions
      BY DEF Types
    <3>2. data' = data /\ journal' = None /\ disk' \in Disks /\ DiskIsSafe'
      BY <2>1, <2>2, <3>1, EntriesSafe DEF AtUndone
    <3> QED BY <1>3, <2>1, <3>1, <3>2
  <2>3. CASE UNCHANGED files
    BY <1>4, <2>1, <2>3
  <2> QED BY <2>2, <2>3
<1>12. ASSUME NEW p \in Proc, Die(p) PROVE IInv'
  <2> USE <1>12 DEF Die
  <2>1. change' \in [Proc -> Change \union {None}]
           /\ \A q \in Proc \ {p} : change'[q] = change[q]
    BY DEF Types
  <2>2. data' \in Contents /\ journal' \in {None} \union Journals /\ disk' \in Disks
           /\ ledger' \in Decisions /\ DiskIsSafe'
    BY DEF Types, DiskIsSafe, ReadOf, files
  <2> QED BY <2>1, <2>2, Leaves DEF Goto
<1>13. CASE PowerFails
  <2> USE <1>13 DEF PowerFails
  <2>1. PICK d \in disk.data, j \in disk.journal : SetEntries(d, j, TRUE)
    OBVIOUS
  <2>2. d \in Contents /\ j \in {None} \union Journals
    BY DEF Types
  <2>3. data' = d /\ journal' = j /\ disk' \in Disks /\ DiskIsSafe'
    BY <2>1, <2>2, EntriesSafe DEF DiskIsSafe
  <2>4. Types'
    BY <2>2, <2>3 DEF Types, Labels
  <2>5. Locked' /\ Progress'
    BY DEF Locked, Progress, Inside, Active, Undoable, StoreAssumption
  <2> QED BY <2>3, <2>4, <2>5
<1>14. CASE UNCHANGED vars
  BY <1>14 DEF vars, Types, Locked, DiskIsSafe, Progress, AtJournal, AtData, AtCommit,
               AtRecover, AtUndone, ReadOf
<1> QED
  BY <1>1, <1>2, <1>5, <1>6, <1>7, <1>8, <1>9, <1>10, <1>11, <1>12, <1>13, <1>14
  DEF Next, Step

-----------------------------------------------------------------------------
Open == Readable \/ Updating

(* A process outside an update does not change whether the store is open,    *)
(* unless it changes the files.                                              *)
LEMMA OpenStays ==
  ASSUME StoreAssumption, IInv, UNCHANGED files, NEW p \in Proc, NEW l \in Labels,
         pc' = [pc EXCEPT ![p] = l], pc[p] \notin Active, l \notin Active,
         holder' \in {holder, p, NoProc}, holder \in {holder', p, NoProc}
  PROVE  Open' = Open
<1> USE DEF IInv
<1>1. \A q \in Proc : pc'[q] = IF q = p THEN l ELSE pc[q]
  BY DEF Types
<1>2. Readable' = Readable
  BY DEF Readable, files
<1>3. holder \in Proc \union {NoProc} /\ holder' \in Proc \union {NoProc}
  BY DEF Types
<1>4. Updating <=> holder \in Proc /\ pc[holder] \in Active
  BY <1>3 DEF Updating, Active, Undoable, StoreAssumption
<1>5. Updating' <=> holder' \in Proc /\ pc'[holder'] \in Active
  BY <1>3 DEF Updating, Active, Undoable, StoreAssumption
<1>6. Updating' <=> Updating
  BY <1>1, <1>3, <1>4, <1>5 DEF StoreAssumption
<1> QED BY <1>2, <1>6 DEF Open

(* A process in an update has opened the store, and keeps it open as long as *)
(* it is there.                                                              *)
LEMMA OpenUpdating ==
  ASSUME StoreAssumption, IInv, NEW p \in Proc, pc[p] \in Active
  PROVE  Open /\ holder = p
<1>1. holder = p
  BY DEF IInv, Locked, Inside
<1> QED BY <1>1 DEF Open, Updating, Active, Undoable, StoreAssumption

(* An initial store reads as the initial ledger.                             *)
LEMMA InitLedger ==
  ASSUME StoreAssumption
  PROVE  Init => Ledger!Init
<1> SUFFICES ASSUME Init PROVE Ledger!Init
  OBVIOUS
<1>1. ledger \in Decisions
  BY InitIInv DEF IInv, Types
<1> QED BY <1>1 DEF Init, Ledger!Init, Nothing, Ledger!Nothing, Readable, Updating

(* Every step of the store is a step of the ledger, or none.                 *)
LEMMA NextLedger ==
  ASSUME StoreAssumption, IInv, IInv', [Next]_vars
  PROVE  [Ledger!Next]_(Ledger!vars)
<1> DEFINE Stutter == UNCHANGED <<ledger, Open, answer>>
<1>0. ASSUME Stutter PROVE UNCHANGED Ledger!vars
  BY <1>0 DEF Ledger!vars, Open
<1>1. ASSUME NEW p \in Proc, answer' = [answer EXCEPT ![p] = Failed], UNCHANGED ledger,
             Open \/ Open' = Open
      PROVE  Ledger!Refuse(p)
  BY <1>1 DEF Ledger!Refuse, Ledger!Tell, Ledger!Failed, Failed, Open, Readable, Updating
<1>2. ASSUME NEW p \in Proc, Call(p) PROVE Ledger!Ask(p)
  <2>1. PICK l \in {"read", "update"} : pc' = [pc EXCEPT ![p] = l]
    BY <1>2 DEF Call, Goto
  <2>2. l \in Labels /\ l \notin Active /\ pc[p] \notin Active
    BY <1>2 DEF Call, Labels, Active, Undoable
  <2>3. Open' = Open
    BY <1>2, <2>1, <2>2, OpenStays DEF Call
  <2> QED BY <1>2, <2>3 DEF Call, Ledger!Ask, Ledger!Tell, Ledger!Nothing, Nothing, Open
<1>3. ASSUME NEW p \in Proc, Lock(p) PROVE Stutter \/ Ledger!Refuse(p)
  <2>1. PICK l \in {"reading", "opening", "idle"} : pc' = [pc EXCEPT ![p] = l]
    BY <1>3 DEF Lock, Goto
  <2>2. l \in Labels /\ l \notin Active /\ pc[p] \notin Active
    BY <1>3 DEF Lock, Labels, Inside, Active, Undoable
  <2>3. Open' = Open
    BY <1>3, <2>1, <2>2, OpenStays DEF Lock
  <2> QED BY <1>1, <1>3, <2>3 DEF Lock
<1>4. ASSUME NEW p \in Proc, NEW a, pc[p] \in {"reading", "opening"}, Return(p, a), UNCHANGED files
      PROVE  Open' = Open
  <2>1. pc[p] \notin Active /\ "idle" \in Labels /\ "idle" \notin Active
    BY <1>4 DEF Labels, Active, Undoable
  <2>2. holder = p
    BY <1>4 DEF IInv, Locked, Inside
  <2> QED BY <1>4, <2>1, <2>2, OpenStays DEF Return, Goto
<1>5. ASSUME NEW p \in Proc, Read(p) PROVE Ledger!Read(p) \/ Ledger!Refuse(p)
  <2>1. CASE Readable /\ Return(p, Seen(ReadOf(data)))
    <3>1. Open /\ Open' = Open
      BY <1>4, <1>5, <2>1 DEF Read, Open
    <3>2. ReadOf(data) = ledger
      BY <2>1 DEF IInv, DiskIsSafe, Readable
    <3> QED BY <1>5, <2>1, <3>1, <3>2
            DEF Read, Return, Ledger!Read, Ledger!Tell, Ledger!Seen, Seen, Open
  <2>2. CASE Return(p, Failed)
    <3>1. /\ answer' = [answer EXCEPT ![p] = Failed] /\ UNCHANGED <<ledger, files>>
          /\ pc[p] \in {"reading", "opening"}
      BY <1>5, <2>2 DEF Read, Return
    <3>2. Open' = Open
      BY <1>4, <2>2, <3>1
    <3> QED BY <1>1, <3>1, <3>2
  <2> QED BY <1>5, <2>1, <2>2 DEF Read
<1>6. ASSUME NEW p \in Proc, ReadToUpdate(p) PROVE Stutter \/ Ledger!Refuse(p)
  <2>1. CASE Readable /\ Goto(p, "journal") /\ UNCHANGED <<holder, change, answer>>
    <3>1. Readable' = Readable
      BY <1>6 DEF ReadToUpdate, Readable, files
    <3> QED BY <1>6, <2>1, <3>1 DEF ReadToUpdate, Open
  <2>2. CASE Return(p, Failed)
    <3>1. /\ answer' = [answer EXCEPT ![p] = Failed] /\ UNCHANGED <<ledger, files>>
          /\ pc[p] \in {"reading", "opening"}
      BY <1>6, <2>2 DEF ReadToUpdate, Return
    <3>2. Open' = Open
      BY <1>4, <2>2, <3>1
    <3> QED BY <1>1, <3>1, <3>2
  <2> QED BY <1>6, <2>1, <2>2 DEF ReadToUpdate
<1>7. ASSUME NEW p \in Proc, pc[p] \in Active, NEW l \in Active, Goto(p, l),
             UNCHANGED <<answer, ledger>>
      PROVE  Stutter
  <2>1. pc'[p] \in Active
    BY <1>7 DEF Goto, IInv, Types
  <2>2. Open /\ Open'
    <3>1. Open
      BY <1>7, OpenUpdating
    <3>2. holder' = p
      BY <2>1 DEF IInv, Locked, Inside
    <3>3. Open'
      BY <2>1, <3>2 DEF Open, Updating, Active, Undoable, StoreAssumption
    <3> QED BY <3>1, <3>3
  <2> QED BY <1>7, <2>2 DEF Open, Readable, Updating
<1>8. ASSUME NEW p \in Proc, pc[p] \in Active, Return(p, Failed), UNCHANGED ledger
      PROVE  Ledger!Refuse(p)
  BY <1>1, <1>8, OpenUpdating DEF Return
<1>9. ASSUME NEW p \in Proc, WriteJournal(p) \/ WriteData(p) PROVE Stutter
  <2>1. pc[p] \in Active /\ UNCHANGED <<answer, ledger>>
    BY <1>9 DEF WriteJournal, WriteData, Active, Undoable
  <2>2. PICK l \in Active : Goto(p, l)
    BY <1>9 DEF WriteJournal, WriteData, Replace, Active, Undoable
  <2> QED BY <1>7, <2>1, <2>2
<1>10. ASSUME NEW p \in Proc, Commit(p) PROVE Stutter \/ Ledger!Update(p)
  <2>1. pc[p] \in Active /\ "recover" \in Active
    BY <1>10 DEF Commit, Active, Undoable
  <2>2. CASE Goto(p, "recover") /\ UNCHANGED <<answer, ledger>>
    BY <1>7, <2>1, <2>2
  <2>3. ASSUME NEW synced \in BOOLEAN, SetEntries(data, None, synced),
               Return(p, Done), ledger' = data
        PROVE  Ledger!Update(p)
    <3>1. AtCommit(change[p]) /\ change[p] \in Change
      BY <1>10 DEF IInv, Locked, Progress, Commit
    <3>2. data = Apply(change[p], ledger) /\ data \in Decisions
      <4>1. ledger \in Decisions
        BY DEF IInv, Types
      <4> QED BY <3>1, <4>1, ApplyType DEF AtCommit
    <3>3. Open /\ Open'
      <4>1. Readable'
        BY <2>3, <3>2 DEF SetEntries, Readable, StoreAssumption
      <4> QED BY <2>1, <4>1, OpenUpdating DEF Open
    <3> QED BY <2>3, <3>1, <3>2, <3>3
            DEF Ledger!Update, Ledger!Tell, Ledger!Done, Done, Return, Open
  <2> QED BY <1>10, <2>2, <2>3 DEF Commit
<1>11. ASSUME NEW p \in Proc, RestoreData(p) PROVE Stutter \/ Ledger!Refuse(p)
  <2>1. pc[p] \in Active /\ "undone" \in Active
    BY <1>11 DEF RestoreData, Active, Undoable
  <2> QED BY <1>7, <1>8, <1>11, <2>1 DEF RestoreData
<1>12. ASSUME NEW p \in Proc, DropJournal(p) PROVE Ledger!Refuse(p)
  <2>1. pc[p] \in Active
    BY <1>12 DEF DropJournal, Active, Undoable
  <2> QED BY <1>8, <1>12, <2>1 DEF DropJournal
<1>13. ASSUME NEW p \in Proc, Die(p) PROVE Stutter \/ Ledger!Close
  <2>1. Open' \in BOOLEAN /\ Open \in BOOLEAN /\ UNCHANGED <<ledger, answer>>
    BY <1>13 DEF Die, Open, Readable, Updating
  <2>2. CASE pc[p] \in Active
    <3>1. Open
      BY <2>2, OpenUpdating
    <3> QED BY <2>1, <3>1 DEF Ledger!Close, Open
  <2>3. CASE pc[p] \notin Active
    <3>1. "idle" \in Labels /\ "idle" \notin Active
      BY DEF Labels, Active, Undoable
    <3>2. Open' = Open
      BY <1>13, <2>3, <3>1, OpenStays DEF Die, Goto
    <3> QED BY <2>1, <3>2
  <2> QED BY <2>2, <2>3
<1>14. CASE PowerFails
  BY <1>14 DEF PowerFails, Ledger!Next, Ledger!Restart, Ledger!Nothing, Nothing, Readable, Updating
<1>15. CASE UNCHANGED vars
  BY <1>15 DEF vars, Ledger!vars, Readable, Updating
<1> QED
  BY <1>0, <1>2, <1>3, <1>5, <1>6, <1>9, <1>10, <1>11, <1>12, <1>13, <1>14, <1>15
  DEF Next, Step, Ledger!Next

-----------------------------------------------------------------------------
(* In every state the store is of its type, the lock is held by the process  *)
(* inside it, and what a power failure can leave is refused or the ledger.   *)
THEOREM StoreInvariant ==
  ASSUME StoreAssumption
  PROVE  Spec => []IInv
<1>1. Init => IInv
  BY InitIInv
<1>2. IInv /\ [Next]_vars => IInv'
  BY NextIInv
<1> QED BY <1>1, <1>2, PTL DEF Spec

(* The two files, the lock and the updates in progress keep their types.     *)
THEOREM StoreTypeCorrect ==
  ASSUME StoreAssumption
  PROVE  Spec => []TypeOK
<1>1. IInv => TypeOK
  BY DEF IInv, Types, TypeOK, Contents
<1> QED BY <1>1, StoreInvariant, PTL

(* The store keeps the promise of TrustLedger: whatever file operation       *)
(* fails, whenever a process or the machine stops, a reader is given the     *)
(* decisions of the last update that was reported to succeed, or an error.   *)
THEOREM StoreImplementsLedger ==
  ASSUME StoreAssumption
  PROVE  Spec => ImplementsLedger
<1>1. Init => Ledger!Init
  BY InitLedger
<1>2. IInv /\ IInv' /\ [Next]_vars => [Ledger!Next]_(Ledger!vars)
  BY NextLedger
<1>3. Spec => []IInv
  BY StoreInvariant
<1> QED BY <1>1, <1>2, <1>3, PTL DEF Spec, ImplementsLedger, Ledger!Spec
=============================================================================
