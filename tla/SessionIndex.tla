---------------------------- MODULE SessionIndex ----------------------------
(* SessionManager (tau_coding/session_manager.py): the resume index of each  *)
(* project, read and rewritten as a whole without a lock by every process of *)
(* the user, and the transcripts it names.  A process may reserve a          *)
(* transcript for an id it is given (print mode), index a session under an   *)
(* id of its own, or touch one.  An index is a set of records, of which only *)
(* the id is kept; a write that stopped half-way may have left Torn, a line  *)
(* that cannot be parsed, in it.                                             *)
EXTENDS Naturals, FiniteSets

CONSTANTS Proc,    \* processes of one user
          Dir,     \* project directories
          Id,      \* session ids
          Orphans, \* transcripts that no index names
          Torn     \* the mark of an index with a line that cannot be parsed

IndexAssumption == Orphans \subseteq Dir \X Id /\ Torn \notin Id

VARIABLES index,      \* the index of each project
          transcript, \* the transcripts that exist
          task,       \* what each process is doing
          owner       \* the transcripts each was told it reserved

vars == <<index, transcript, task, owner>>

Idle == [at |-> "idle"]

Init == /\ index = [d \in Dir |-> {}]
        /\ transcript = Orphans
        /\ task = [p \in Proc |-> Idle]
        /\ owner = [p \in Proc |-> {}]

Goto(p, l) == task' = [task EXCEPT ![p].at = l]
End(p)     == task' = [task EXCEPT ![p] = Idle]

At(p, l)      == task[p].at = l
Transcript(p) == <<task[p].dir, task[p].id>>

(* _read_all_records: every index is read, and a torn one raises.            *)
Readable   == \A d \in Dir : Torn \notin index[d]
Indexed(i) == \E d \in Dir : i \in index[d]

(* create_session_exclusive, ensure_session_indexed or touch_session is      *)
(* called; an indexed session is the wrong one for the first two, the only   *)
(* one for the last.                                                         *)
Call(p) ==
    /\ At(p, "idle")
    /\ \E op \in {"reserve", "index", "touch"}, d \in Dir, i \in Id :
         /\ Readable
         /\ Indexed(i) <=> op = "touch"
         /\ op = "touch" => i \in index[d]
         /\ task' = [task EXCEPT ![p] =
                       [op |-> op, dir |-> d, id |-> i, seen |-> {}, undo |-> FALSE,
                        at |-> IF op = "reserve" THEN "reserve" ELSE "read"]]
    /\ UNCHANGED <<index, transcript, owner>>

(* Mutant: the transcript is opened whether or not it exists.                *)
ReserveAnyway(p) ==
    /\ At(p, "reserve")
    /\ Goto(p, "read") /\ transcript' = transcript \union {Transcript(p)}
    /\ UNCHANGED <<index, owner>>

(* open(path, "x"): the file is made by this call or the call fails.         *)
Reserve(p) ==
    /\ At(p, "reserve")
    /\ IF Transcript(p) \in transcript
       THEN End(p) /\ UNCHANGED transcript
       ELSE Goto(p, "read") /\ transcript' = transcript \union {Transcript(p)}
    /\ UNCHANGED <<index, owner>>

(* _upsert and _remove: the project's index is read ...                      *)
ReadIndex(p) ==
    /\ At(p, "read")
    /\ IF Torn \in index[task[p].dir]
       THEN Goto(p, "failed")
       ELSE task' = [task EXCEPT ![p].at = "open", ![p].seen = index[task[p].dir]]
    /\ UNCHANGED <<index, transcript, owner>>

(* ... opened, which empties it, or cannot be opened ...                     *)
OpenIndex(p) ==
    /\ At(p, "open")
    /\ \/ index' = [index EXCEPT ![task[p].dir] = {}] /\ Goto(p, "write")
       \/ Goto(p, "failed") /\ UNCHANGED index
    /\ UNCHANGED <<transcript, owner>>

(* ... and written.  A write that fails leaves any part of it.               *)
Written(p) == IF task[p].undo THEN task[p].seen \ {task[p].id}
                              ELSE task[p].seen \union {task[p].id}

Partly(p) == SUBSET (Written(p) \union {Torn})

WriteIndex(p) ==
    /\ At(p, "write")
    /\ \/ /\ index' = [index EXCEPT ![task[p].dir] = Written(p)]
          /\ IF task[p].undo THEN Goto(p, "unlink") /\ UNCHANGED owner
             ELSE /\ End(p)
                  /\ owner' = IF task[p].op = "reserve"
                              THEN [owner EXCEPT ![p] = @ \union {Transcript(p)}] ELSE owner
       \/ /\ \E c \in Partly(p) : index' = [index EXCEPT ![task[p].dir] = c]
          /\ Goto(p, "failed") /\ UNCHANGED owner
    /\ UNCHANGED transcript

(* A reservation whose record could not be written is taken back: first the  *)
(* record, whatever becomes of that, then the transcript.                    *)
Fail(p) ==
    /\ At(p, "failed")
    /\ IF task[p].op # "reserve" THEN End(p)
       ELSE IF task[p].undo THEN Goto(p, "unlink")
       ELSE task' = [task EXCEPT ![p].at = "read", ![p].undo = TRUE]
    /\ UNCHANGED <<index, transcript, owner>>

Unlink(p) ==
    /\ At(p, "unlink")
    /\ \E removed \in BOOLEAN :
         transcript' = IF removed THEN transcript \ {Transcript(p)} ELSE transcript
    /\ End(p)
    /\ UNCHANGED <<index, owner>>

(* The process dies; one that dies while it writes leaves part of it.        *)
Die(p) ==
    /\ ~At(p, "idle")
    /\ IF At(p, "write")
       THEN \E c \in Partly(p) : index' = [index EXCEPT ![task[p].dir] = c]
       ELSE UNCHANGED index
    /\ End(p)
    /\ UNCHANGED <<transcript, owner>>

Next == \E p \in Proc : \/ Call(p) \/ Reserve(p) \/ ReadIndex(p) \/ OpenIndex(p)
                        \/ WriteIndex(p) \/ Fail(p) \/ Unlink(p) \/ Die(p)

Spec == Init /\ [][Next]_vars
-----------------------------------------------------------------------------
(* Two workers that ask for the same id, in one project, are never both told *)
(* that the transcript is theirs, nobody is given one that was there before, *)
(* and one that was given is not taken away by another's failure: for every  *)
(* interleaving of the check, the reservation and the roll-back.             *)
ReservedOnce ==
    /\ \A p, q \in Proc : p # q => owner[p] \intersect owner[q] = {}
    /\ \A p \in Proc : owner[p] \subseteq transcript \ Orphans
=============================================================================
