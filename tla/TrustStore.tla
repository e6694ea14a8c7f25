----------------------------- MODULE TrustStore -----------------------------
(* ProjectTrustStore of tau_coding/project_trust.py: the decisions file, the *)
(* undo journal beside it and the lock, each as the directory entry a        *)
(* process sees and the entries the disk may hold if the power fails.        *)
(* Every file operation of an update and of its recovery can fail on its     *)
(* own, also after it took effect, and a process or the machine may stop     *)
(* between any two.  Contents are the decisions themselves; the canonical    *)
(* spelling of paths and the JSON schema are left out, a file that does not  *)
(* have the schema is the content Malformed.                                 *)

EXTENDS Naturals, FiniteSets

CONSTANTS Proc, NoProc,  \* the processes of one user, and none of them
          Cwd, Parent,   \* two directories, Parent the parent of Cwd
          None,          \* no such directory entry
          Malformed      \* a decisions file that cannot be parsed

Path      == {Cwd, Parent}
Verdict   == {"trusted", "untrusted"}
Decisions == [Path -> Verdict \union {"unset"}]
Empty     == [d \in Path |-> "unset"]

Journals  == [prior : {None} \union Decisions]

StoreAssumption ==
    /\ Cwd # Parent
    /\ NoProc \notin Proc
    /\ None # Malformed
    /\ {None, Malformed} \intersect Decisions = {}
    /\ None \notin Journals

(* The three updates, each one content made of another.                      *)
Change == [op : {"set"}, path : Path, verdict : Verdict]
          \union [op : {"trust_parent"}, path : {Cwd}, verdict : {"trusted"}]
          \union [op : {"remove"}, path : Path, verdict : {"unset"}]

Set(u, d)         == [d EXCEPT ![u.path] = u.verdict]
TrustParent(u, d) == [d EXCEPT ![u.path] = "unset", ![Parent] = u.verdict]
Remove(u, d)      == [d EXCEPT ![u.path] = u.verdict]

Apply(u, d) == CASE u.op = "set"          -> Set(u, d)
                 [] u.op = "trust_parent" -> TrustParent(u, d)
                 [] u.op = "remove"       -> Remove(u, d)

VARIABLES data,     \* trust.json: None, Malformed or decisions
          journal,  \* trust.json.pending: None, or what trust.json held before
          disk,     \* the entries a power failure may leave of the two
          holder,   \* the process inside _locked, or NoProc
          pc,       \* where each process is in its operation
          change,   \* the update each process carries out, or None
          answer,   \* what each process was told last
          ledger    \* history: the decisions of the last update that succeeded

vars == <<data, journal, disk, holder, pc, change, answer, ledger>>
files == <<data, journal, disk>>

\* what _read_unlocked makes of a file that has the schema, and of no file
ReadOf(f) == IF f = None THEN Empty ELSE f

Readable == journal = None /\ data # Malformed

Nothing == [kind |-> "none"]
Failed  == [kind |-> "failed"]
Done    == [kind |-> "done"]
Seen(d) == [kind |-> "seen", decisions |-> d]

Init == /\ data \in {None, Malformed} \union Decisions
        /\ journal = None
        /\ disk = [data |-> {data}, journal |-> {None}]
        /\ holder = NoProc
        /\ pc = [p \in Proc |-> "idle"]
        /\ change = [p \in Proc |-> None]
        /\ answer = [p \in Proc |-> Nothing]
        /\ ledger = IF data = Malformed THEN Empty ELSE ReadOf(data)

Goto(p, l) == pc' = [pc EXCEPT ![p] = l]

Return(p, a) == /\ answer' = [answer EXCEPT ![p] = a]
                /\ Goto(p, "idle")
                /\ holder' = NoProc
                /\ change' = [change EXCEPT ![p] = None]

(* An operation is called; _locked waits for the lock, or cannot take it.    *)
Call(p) == /\ pc[p] = "idle"
           /\ \/ Goto(p, "read") /\ UNCHANGED change
              \/ \E u \in Change : /\ change' = [change EXCEPT ![p] = u]
                                   /\ Goto(p, "update")
           /\ answer' = [answer EXCEPT ![p] = Nothing]
           /\ UNCHANGED <<holder, ledger, files>>

Lock(p) == /\ pc[p] \in {"read", "update"}
           /\ \/ /\ holder = NoProc
                 /\ holder' = p
                 /\ Goto(p, IF pc[p] = "read" THEN "reading" ELSE "opening")
                 /\ UNCHANGED <<change, answer>>
              \/ /\ answer' = [answer EXCEPT ![p] = Failed]
                 /\ change' = [change EXCEPT ![p] = None]
                 /\ Goto(p, "idle")
                 /\ UNCHANGED holder
           /\ UNCHANGED <<ledger, files>>

(* read: a pending journal, a malformed file and an I/O error all refuse.    *)
Read(p) == /\ pc[p] = "reading"
           /\ \/ Readable /\ Return(p, Seen(ReadOf(data)))
              \/ Return(p, Failed)
           /\ UNCHANGED <<ledger, files>>

(* set, trust_parent and remove read under the same lock before they write.  *)
ReadToUpdate(p) == /\ pc[p] = "opening"
                   /\ \/ Readable /\ Goto(p, "journal") /\ UNCHANGED <<holder, change, answer>>
                      \/ Return(p, Failed)
                   /\ UNCHANGED <<ledger, files>>

(* A directory entry is durable once the directory is synced; until then a   *)
(* power failure may leave any of the entries it had since the last sync.    *)
SetEntries(d, j, synced) ==
    /\ data' = d
    /\ journal' = j
    /\ disk' = IF synced THEN [data |-> {d}, journal |-> {j}]
               ELSE [data |-> disk.data \union {d}, journal |-> disk.journal \union {j}]

(* _atomic_replace returns, or fails before or after os.replace.             *)
Replace(p, d, j, then, otherwise) ==
    \/ SetEntries(d, j, TRUE) /\ Goto(p, then)
    \/ SetEntries(d, j, FALSE) /\ Goto(p, otherwise)
    \/ UNCHANGED files /\ Goto(p, otherwise)

(* Mutant: the file is replaced without a journal.                           *)
WriteJournalNot(p) == /\ pc[p] = "journal"
                      /\ Goto(p, "data")
                      /\ UNCHANGED <<holder, change, answer, ledger, files>>

WriteJournal(p) == /\ pc[p] = "journal"
                   /\ Replace(p, data, [prior |-> data], "data", "recover")
                   /\ UNCHANGED <<holder, change, answer, ledger>>

WriteData(p) == /\ pc[p] = "data"
                /\ Replace(p, Apply(change[p], ReadOf(data)), journal, "commit", "recover")
                /\ UNCHANGED <<holder, change, answer, ledger>>

(* The commit point: the journal is gone.  Whether its removal is synced     *)
(* does not matter to the caller.                                            *)
Commit(p) == /\ pc[p] = "commit"
             /\ \/ /\ \E synced \in BOOLEAN : SetEntries(data, None, synced)
                   /\ Return(p, Done)
                   /\ ledger' = data
                \/ Goto(p, "recover") /\ UNCHANGED <<holder, change, answer, ledger, files>>

(* _recover_unlocked: without a journal there is nothing to undo, else the   *)
(* journaled content is put back and only then the journal removed; an       *)
(* update whose recovery fails leaves the journal.                           *)
RestoreData(p) ==
    /\ pc[p] = "recover"
    /\ \/ journal = None /\ Return(p, Failed) /\ UNCHANGED files
       \/ /\ journal # None
          /\ \/ /\ SetEntries(journal.prior, journal, TRUE)
                /\ Goto(p, "undone") /\ UNCHANGED <<holder, change, answer>>
             \/ SetEntries(journal.prior, journal, FALSE) /\ Return(p, Failed)
             \/ UNCHANGED files /\ Return(p, Failed)
    /\ UNCHANGED ledger

DropJournal(p) == /\ pc[p] = "undone"
                  /\ \/ \E synced \in BOOLEAN : SetEntries(data, None, synced)
                     \/ UNCHANGED files
                  /\ Return(p, Failed)
                  /\ UNCHANGED ledger

(* A process dies: its lock goes with it.  The machine stops: every process  *)
(* dies and each entry is one the disk may hold.                             *)
Die(p) == /\ pc[p] # "idle"
          /\ Goto(p, "idle")
          /\ holder' = IF holder = p THEN NoProc ELSE holder
          /\ change' = [change EXCEPT ![p] = None]
          /\ UNCHANGED <<answer, ledger, files>>

PowerFails == /\ \E d \in disk.data, j \in disk.journal : SetEntries(d, j, TRUE)
              /\ holder' = NoProc
              /\ pc' = [p \in Proc |-> "idle"]
              /\ answer' = [p \in Proc |-> Nothing]
              /\ change' = [p \in Proc |-> None]
              /\ UNCHANGED ledger

Step(p) == \/ Call(p) \/ Lock(p) \/ Read(p) \/ ReadToUpdate(p)
           \/ WriteJournal(p) \/ WriteData(p) \/ Commit(p)
           \/ RestoreData(p) \/ DropJournal(p) \/ Die(p)

Next == (\E p \in Proc : Step(p)) \/ PowerFails

Spec == Init /\ [][Next]_vars
-----------------------------------------------------------------------------
TypeOK == /\ data \in {None, Malformed} \union Decisions
          /\ journal \in {None} \union Journals
          /\ holder \in Proc \union {NoProc}
          /\ change \in [Proc -> Change \union {None}]

(* The store is open if a reader that waits for the update in progress, when *)
(* every file operation left to it succeeds, is given decisions.             *)
Updating == holder # NoProc /\ pc[holder] \in {"journal", "data", "commit", "recover", "undone"}

Ledger == INSTANCE TrustLedger WITH open <- Readable \/ Updating

(* Whatever file operation of an update or of its recovery fails, and        *)
(* whenever a process or the machine stops, a reader is given the decisions  *)
(* of the last update that was reported to succeed, or an error:             *)
(* _write_unlocked and _recover_unlocked implement the ledger.               *)
ImplementsLedger == Ledger!Spec
=============================================================================
