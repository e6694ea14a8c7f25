---------------------------- MODULE Credentials ----------------------------
(* The stored OAuth credential of one provider, as the tasks of one or more  *)
(* processes use, refresh, replace and remove it: FileCredentialStore, the   *)
(* two credential resolvers of provider_runtime.py with their lock, and the  *)
(* login and logout of the interface.  The file is replaced as a whole but   *)
(* loaded before it is saved, so that another credential in it stands for    *)
(* what a concurrent writer may undo.  The token endpoint answers a refresh  *)
(* token with its successor, or refuses it, or the answer is lost.  A        *)
(* credential is the number of its refresh token; the text of tokens, their  *)
(* validation and the JSON format are left out.                              *)
EXTENDS Naturals

CONSTANTS Proc,      \* processes
          Task,      \* tasks that ask for the credential
          Home,      \* the process of each task
          None,
          MaxTokens  \* bound: refresh tokens ever issued

Token      == 1 .. MaxTokens
Credential == [token : Token, expired : BOOLEAN]
Entries    == [file : Credential \union {None}, other : {0, 1}]

CredentialsAssumption == /\ Home \in [Task -> Proc] /\ MaxTokens \in Nat \ {0}
                         /\ None \notin Task \union Credential \union Entries

VARIABLES file,      \* the stored credential, [token, expired], or None
          other,     \* how often another credential in the file was saved
          rereads,   \* the resolver: Codex looks before it takes the lock, or not
          lock,      \* the task in each process' refresh lock, or None
          task,      \* what each task is doing
          saving,    \* what each process has loaded and is about to save, or None
          issued,    \* refresh tokens issued
          spent,     \* how often each was presented, where 2 stands for more as well
          lost,      \* the tokens a presentation of which brought no successor
          logout     \* "never", "last" when nobody logged in since, or "before"

vars == <<file, other, rereads, lock, task, saving, issued, spent, lost, logout>>
store == <<file, other, saving>>
server == <<issued, spent, lost>>

Fresh(n) == [token |-> n, expired |-> FALSE]
Idle     == [at |-> "idle", had |-> None]

Init == /\ file = None \/ \E expired \in BOOLEAN : file = [token |-> 1, expired |-> expired]
        /\ other = 0
        /\ rereads \in BOOLEAN
        /\ lock = [p \in Proc |-> None]
        /\ task = [t \in Task |-> Idle]
        /\ saving = [p \in Proc |-> None]
        /\ issued = 1
        /\ spent = [n \in Token |-> 0]
        /\ lost = {}
        /\ logout = "never"

\* between the load and the save of one process nothing else of it runs
Runs(p) == saving[p] = None

Goto(t, l, had) == task' = [task EXCEPT ![t] = [at |-> l, had |-> had]]
Release(t)      == lock' = [lock EXCEPT ![Home[t]] = None]

(* __call__: Codex uses a credential that has not expired at once and the    *)
(* environment if there is none, the others take the lock first.             *)
Ask(t) == /\ Runs(Home[t]) /\ task[t].at = "idle"
          /\ \/ rereads /\ (file # None => ~file.expired) /\ Goto(t, "done", file)
             \/ rereads /\ file # None /\ file.expired /\ Goto(t, "waits", file)
             \/ ~rereads /\ Goto(t, "waits", None)
          /\ UNCHANGED <<store, server, rereads, lock, logout>>

(* Mutant: what was read before the lock is used inside it.                  *)
CurrentAsSeen(t) == IF task[t].had = None THEN file ELSE task[t].had

(* Inside the lock the store is read again; Codex falls back on what it read *)
(* before.  A credential that has expired is presented to the endpoint.      *)
Current(t) == IF file = None THEN task[t].had ELSE file

Acquire(t) ==
    /\ Runs(Home[t]) /\ task[t].at = "waits" /\ lock[Home[t]] = None
    /\ IF Current(t) # None => ~Current(t).expired
       THEN /\ Goto(t, "done", Current(t))
            /\ UNCHANGED <<lock, spent>>
       ELSE /\ Goto(t, "refreshes", Current(t))
            /\ lock' = [lock EXCEPT ![Home[t]] = t]
            /\ spent' = [spent EXCEPT ![Current(t).token] = IF @ < 2 THEN @ + 1 ELSE 2]
    /\ UNCHANGED <<store, issued, lost, rereads, logout>>

(* The endpoint answers with a new credential, which is saved, or refuses,   *)
(* or the connection fails before or after the token was spent.              *)
Answered(t) ==
    /\ Runs(Home[t]) /\ task[t].at = "refreshes"
    /\ issued < MaxTokens
    /\ issued' = issued + 1
    /\ Goto(t, "saves", Fresh(issued + 1))
    /\ saving' = [saving EXCEPT ![Home[t]] = [file |-> Fresh(issued + 1), other |-> other]]
    /\ UNCHANGED <<file, other, spent, lost, rereads, lock, logout>>

(* Mutant: a refresh that fails keeps the lock.                              *)
FailsHolding(t) ==
    /\ Runs(Home[t]) /\ task[t].at = "refreshes"
    /\ lost' = lost \union {task[t].had.token}
    /\ Goto(t, "failed", None)
    /\ UNCHANGED <<store, issued, spent, rereads, lock, logout>>

Fails(t) ==
    /\ Runs(Home[t]) /\ task[t].at = "refreshes"
    /\ lost' = lost \union {task[t].had.token}
    /\ Release(t)
    /\ Goto(t, "failed", None)
    /\ UNCHANGED <<store, issued, spent, rereads, logout>>

(* The run that asked is cancelled while it waits or refreshes.              *)
Cancel(t) ==
    /\ Runs(Home[t]) /\ task[t].at \in {"waits", "refreshes"}
    /\ IF task[t].at = "refreshes"
       THEN /\ lost' = lost \union {task[t].had.token}
            /\ Release(t)
       ELSE UNCHANGED <<lost, lock>>
    /\ Goto(t, "failed", None)
    /\ UNCHANGED <<store, issued, spent, rereads, logout>>

(* _save, after _load: the credential as this process means it to be, every  *)
(* other entry as it was loaded.                                             *)
Save(p) ==
    /\ saving[p] # None
    /\ file' = saving[p].file
    /\ other' = saving[p].other
    /\ saving' = [saving EXCEPT ![p] = None]
    /\ logout' = IF saving[p].file = None /\ file # None THEN "last" ELSE logout
    /\ IF lock[p] # None /\ task[lock[p]].at = "saves"
       THEN /\ lock' = [lock EXCEPT ![p] = None]
            /\ task' = [task EXCEPT ![lock[p]].at = "done"]
       ELSE UNCHANGED <<lock, task>>
    /\ UNCHANGED <<server, rereads>>

Begin(p, new, others) == saving' = [saving EXCEPT ![p] = [file |-> new, other |-> others]]

(* Login, logout, another credential: set_oauth, delete, set.                *)
Login(p) == /\ Runs(p) /\ issued < MaxTokens
            /\ issued' = issued + 1
            /\ Begin(p, Fresh(issued + 1), other)
            /\ logout' = IF logout = "last" THEN "before" ELSE logout
            /\ UNCHANGED <<file, other, spent, lost, rereads, lock, task>>

Logout(p) == /\ Runs(p) /\ file # None
             /\ Begin(p, None, other)
             /\ UNCHANGED <<file, other, server, rereads, lock, task, logout>>

SetOther(p) == /\ Runs(p) /\ other = 0
               /\ Begin(p, file, 1)
               /\ UNCHANGED <<file, other, server, rereads, lock, task, logout>>

Expire == /\ file # None /\ ~file.expired
          /\ file' = [file EXCEPT !.expired = TRUE]
          /\ UNCHANGED <<other, saving, server, rereads, lock, task, logout>>

AskAgain(t) == /\ task[t].at \in {"done", "failed"}
               /\ Goto(t, "idle", None)
               /\ UNCHANGED <<store, server, rereads, lock, logout>>

Progress(t) == Acquire(t) \/ Answered(t) \/ Fails(t)

Next == \/ \E t \in Task : Ask(t) \/ Progress(t) \/ Cancel(t) \/ AskAgain(t)
        \/ \E p \in Proc : Save(p) \/ Login(p) \/ Logout(p) \/ SetOther(p)
        \/ Expire

(* The event loop runs what is ready, asyncio.Lock serves its waiters in     *)
(* order, and the requests to the endpoint have a timeout.                   *)
Fairness == /\ \A t \in Task : WF_vars(Answered(t) \/ Fails(t)) /\ SF_vars(Acquire(t))
            /\ \A p \in Proc : WF_vars(Save(p))

Spec == Init /\ [][Next]_vars
FairSpec == Spec /\ Fairness
-----------------------------------------------------------------------------
(* A refresh token is presented once, and again only if nothing came of it:  *)
(* the lock is held across the network call and the store is read inside it  *)
(* (_refresh_lock).  One process, until somebody logs out.                   *)
SpentOnce == logout = "never" => \A n \in Token : spent[n] <= 1 \/ n \in lost

(* Whoever asks for the credential is answered or told that it failed, also  *)
(* when others fail, are cancelled or log out inside the lock.               *)
AsksSettle == \A t \in Task : task[t].at = "waits" ~> task[t].at \in {"done", "failed"}
=============================================================================
