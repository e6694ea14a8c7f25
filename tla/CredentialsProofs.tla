-------------------------- MODULE CredentialsProofs --------------------------
(* Proof that the lock and the second look at the store spend a refresh      *)
(* token once, for any number of tasks of one process.                       *)
EXTENDS Credentials, TLAPS

OneProcess == \A p, q \in Proc : p = q

Stages == {"idle", "waits", "refreshes", "saves", "done", "failed"}

Types ==
  /\ file \in Credential \union {None}
  /\ other \in {0, 1}
  /\ lock \in [Proc -> Task \union {None}]
  /\ task \in [Task -> [at : Stages, had : Credential \union {None}]]
  /\ saving \in [Proc -> Entries \union {None}]
  /\ issued \in Token
  /\ spent \in [Token -> {0, 1, 2}]
  /\ lost \subseteq Token

(* The lock is held exactly while a credential is refreshed and saved.       *)
Locking ==
  /\ \A t \in Task : task[t].at \in {"refreshes", "saves"} <=> lock[Home[t]] = t
  /\ \A t \in Task : task[t].at = "refreshes" => task[t].had # None
  /\ \A t \in Task : task[t].at = "saves" => ~Runs(Home[t])

Known(c) == c # None => c.token <= issued

(* Only tokens that were issued are anywhere, and only these are spent.      *)
Issuing ==
  /\ Known(file)
  /\ \A p \in Proc : saving[p] # None => Known(saving[p].file)
  /\ \A t \in Task : Known(task[t].had)
  /\ \A n \in Token : n > issued => spent[n] = 0

(* A credential whose token may be presented, or is being presented now.     *)
Sound(c) ==
  c # None => \/ spent[c.token] = 0 \/ c.token \in lost
              \/ \E t \in Task : /\ task[t].at = "refreshes"
                                 /\ task[t].had.token = c.token

(* Whatever is in the file, or will be, is sound, but for a file that is     *)
(* about to be replaced by the answer to a refresh.                          *)
Storing ==
  logout = "never" =>
    /\ \A n \in Token : spent[n] <= 1 \/ n \in lost
    /\ Sound(file) \/ \E t \in Task : task[t].at = "saves"
    /\ \A p \in Proc : saving[p] # None => Sound(saving[p].file)
    /\ file = None => \A t \in Task : task[t].at = "waits" => task[t].had = None

IInv == Types /\ Locking /\ Issuing /\ Storing

-----------------------------------------------------------------------------
(* Nothing was presented when the processes start.                           *)
LEMMA InitIInv ==
  ASSUME CredentialsAssumption
  PROVE  Init => IInv
<1> SUFFICES ASSUME Init PROVE IInv
  OBVIOUS
<1> USE DEF Init, CredentialsAssumption
<1>1. file = None \/ (file \in Credential /\ file.token = 1)
  BY DEF Credential, Token
<1>2. Types
  BY <1>1 DEF Types, Idle, Stages, Token
<1>3. Locking
  BY DEF Locking, Idle
<1>4. Issuing
  BY <1>1 DEF Issuing, Known, Idle, Token
<1>5. Storing
  BY <1>1 DEF Storing, Sound, Idle, Token
<1> QED BY <1>2, <1>3, <1>4, <1>5 DEF IInv

(* A step of one task that neither presents a token nor changes the store.   *)
LEMMA TaskMoves ==
  ASSUME CredentialsAssumption, IInv, NEW t \in Task, NEW l \in Stages \ {"refreshes", "saves"},
         NEW had \in Credential \union {None}, Goto(t, l, had), Known(had),
         l = "waits" /\ file = None => had = None,
         lock' = IF lock[Home[t]] = t THEN [lock EXCEPT ![Home[t]] = None] ELSE lock,
         task[t].at # "saves",
         lost' = IF task[t].at = "refreshes" THEN lost \union {task[t].had.token} ELSE lost,
         UNCHANGED <<file, other, saving, issued, spent, logout>>, OneProcess
  PROVE  IInv'
<1> USE DEF IInv, CredentialsAssumption
<1>1. \A u \in Task : task'[u] = IF u = t THEN [at |-> l, had |-> had] ELSE task[u]
  BY DEF Goto, Types
<1>2. Home[t] \in Proc /\ \A u \in Task : Home[u] = Home[t]
  BY DEF OneProcess
<1>3. task[t].at = "refreshes" => task[t].had \in Credential /\ task[t].had.token \in Token
  BY DEF Locking, Types, Credential
<1>4. Types'
  <2>1. task' \in [Task -> [at : Stages, had : Credential \union {None}]]
    BY DEF Goto, Types
  <2>2. lock' \in [Proc -> Task \union {None}]
    BY DEF Types
  <2> QED BY <1>3, <2>1, <2>2 DEF Types
<1>5. Locking'
  <2>1. \A u \in Task : task'[u].at \in {"refreshes", "saves"} <=> lock'[Home[u]] = u
    BY <1>1, <1>2 DEF Locking, Types
  <2> QED BY <1>1, <2>1 DEF Locking, Runs
<1>6. Issuing'
  BY <1>1 DEF Issuing, Known
<1>7. Storing'
  <2>1. \A c : Sound(c) => Sound(c)'
    BY <1>1 DEF Sound
  <2>2. lost \subseteq lost'
    OBVIOUS
  <2>3. (\E u \in Task : task[u].at = "saves") => \E u \in Task : task'[u].at = "saves"
    BY <1>1
  <2> QED BY <1>1, <2>1, <2>2, <2>3 DEF Storing
<1> QED BY <1>4, <1>5, <1>6, <1>7

(* A store begins to be written: nothing changes yet but what is pending.    *)
LEMMA Begins ==
  ASSUME CredentialsAssumption, IInv, NEW p \in Proc, OneProcess, Runs(p),
         NEW c \in Credential \union {None}, NEW o \in {0, 1}, Begin(p, c, o),
         issued' \in {issued, issued + 1} \intersect Token,
         c # None => c.token <= issued',
         logout' = "never" => logout = "never" /\ Sound(c),
         UNCHANGED <<file, other, lock, task, spent, lost>>
  PROVE  IInv'
<1> USE DEF IInv, CredentialsAssumption
<1>1. \A q \in Proc : saving'[q] = [file |-> c, other |-> o]
  BY DEF Begin, Types, OneProcess
<1>2. [file |-> c, other |-> o] \in Entries
  BY DEF Entries
<1>3. \A t \in Task : task[t].at # "saves"
  BY DEF Locking, OneProcess
<1>4. Types'
  BY <1>1, <1>2 DEF Types, Begin
<1>5. Locking'
  BY <1>3 DEF Locking
<1>6. Issuing'
  <2>1. issued \in Nat /\ issued <= issued' /\ issued' \in Nat
    BY DEF Types, Token
  <2>2. \A d \in Credential \union {None} : Known(d) => Known(d)'
    BY <2>1 DEF Known, Credential, Token
  <2>3. \A n \in Token : n > issued' => spent'[n] = 0
    BY <2>1 DEF Issuing, Token
  <2>4. Known(file)' /\ \A t \in Task : Known(task[t].had)'
    BY <2>2 DEF Issuing, Types
  <2>5. Known(c)'
    BY DEF Known
  <2> QED BY <1>1, <2>3, <2>4, <2>5 DEF Issuing, Known
<1>7. Storing'
  <2>1. \A d : Sound(d)' <=> Sound(d)
    BY DEF Sound
  <2> QED BY <1>1, <2>1 DEF Storing
<1> QED BY <1>4, <1>5, <1>6, <1>7

(* Every step of a refresh, a login, a logout and a save keeps the           *)
(* invariant.                                                                *)
LEMMA NextIInv ==
  ASSUME CredentialsAssumption, OneProcess, IInv, [Next]_vars
  PROVE  IInv'
<1> USE DEF IInv, CredentialsAssumption, store, server
<1>0. \A t \in Task : /\ Home[t] \in Proc /\ \A p \in Proc : p = Home[t]
                      /\ task[t].at \in Stages /\ task[t].had \in Credential \union {None}
  BY DEF OneProcess, Types
<1>1. ASSUME NEW t \in Task, Ask(t) PROVE IInv'
  <2>1. lock[Home[t]] # t /\ task[t].at = "idle"
    BY <1>1 DEF Ask, Locking
  <2>2. PICK l \in {"done", "waits"}, had \in {file, None} :
          Goto(t, l, had) /\ (l = "waits" /\ file = None => had = None)
    BY <1>1 DEF Ask
  <2>3. had \in Credential \union {None} /\ Known(had) /\ l \in Stages \ {"refreshes", "saves"}
    BY DEF Types, Issuing, Known, Stages
  <2>4. UNCHANGED <<file, other, saving, issued, spent, lost, logout, lock>>
    BY <1>1 DEF Ask
  <2> QED BY <2>1, <2>2, <2>3, <2>4, TaskMoves
<1>2. ASSUME NEW t \in Task, Acquire(t) PROVE IInv'
  <2>0. PICK c : c = Current(t)
    OBVIOUS
  <2>1. task[t].at = "waits" /\ lock[Home[t]] = None /\ lock[Home[t]] # t /\ Runs(Home[t])
    BY <1>2 DEF Acquire
  <2>2. c \in Credential \union {None} /\ Known(c)
    BY <1>0, <2>0 DEF Current, Types, Issuing
  <2>3. UNCHANGED <<file, other, saving, issued, lost, logout>>
    BY <1>2 DEF Acquire
  <2>4. CASE Goto(t, "done", c) /\ UNCHANGED <<lock, spent>>
    <3>1. "done" \in Stages \ {"refreshes", "saves"}
      BY DEF Stages
    <3> QED BY <2>1, <2>2, <2>3, <2>4, <3>1, TaskMoves
  <2>5. CASE /\ c # None /\ Goto(t, "refreshes", c)
             /\ lock' = [lock EXCEPT ![Home[t]] = t]
             /\ spent' = [spent EXCEPT ![c.token] = IF @ < 2 THEN @ + 1 ELSE 2]
    <3>1. \A u \in Task : task'[u] = IF u = t THEN [at |-> "refreshes", had |-> c] ELSE task[u]
      BY <2>5 DEF Goto, Types
    <3>2. c.token \in Token /\ c.token <= issued /\ c \in Credential
      BY <2>2, <2>5 DEF Credential, Known
    <3>3. \A n \in Token : spent'[n] = IF n # c.token THEN spent[n]
                                        ELSE IF spent[n] < 2 THEN spent[n] + 1 ELSE 2
      BY <2>5, <3>2 DEF Types
    <3>4. \A u \in Task : task[u].at \notin {"refreshes", "saves"}
      BY <1>0, <2>1 DEF Locking
    <3>5. Types'
      <4>1. task' \in [Task -> [at : Stages, had : Credential \union {None}]]
        BY <2>2, <2>5 DEF Goto, Types, Stages
      <4>2. lock' \in [Proc -> Task \union {None}]
        BY <2>5 DEF Types
      <4>3. spent' \in [Token -> {0, 1, 2}]
        <5>1. \A n \in Token : spent'[n] \in {0, 1, 2}
          BY <3>3 DEF Types
        <5> QED BY <2>5, <5>1 DEF Types
      <4> QED BY <2>3, <4>1, <4>2, <4>3 DEF Types
    <3>6. Locking'
      <4>1. \A u \in Task : lock'[Home[u]] = t
        BY <1>0, <2>5 DEF Types
      <4> QED BY <2>5, <3>1, <3>4, <4>1 DEF Locking
    <3>7. Issuing'
      <4>1. \A n \in Token : n > issued' => spent'[n] = 0
        BY <2>3, <3>2, <3>3 DEF Issuing, Types, Token
      <4>2. \A u \in Task : task'[u].had = task[u].had \/ task'[u].had = c
        BY <3>1
      <4> QED BY <2>2, <2>3, <4>1, <4>2 DEF Issuing, Known
    <3>8. Storing'
      <4> SUFFICES ASSUME logout = "never" PROVE Storing'
        BY <2>3 DEF Storing
      <4>1. c = file
        BY <2>0, <2>1, <2>5 DEF Storing, Current
      <4>2. spent[c.token] = 0 \/ c.token \in lost
        BY <2>5, <3>4, <4>1 DEF Storing, Sound
      <4>3. \A n \in Token : spent'[n] <= 1 \/ n \in lost'
        <5> TAKE n \in Token
        <5>1. CASE n = c.token
          BY <2>3, <3>3, <4>2, <5>1
        <5>2. CASE n # c.token
          BY <2>3, <3>3, <5>2 DEF Storing
        <5> QED BY <5>1, <5>2
      <4>4. Sound(file)'
        BY <2>3, <3>1, <4>1 DEF Sound
      <4>5. \A p \in Proc : saving'[p] = None
        BY <1>0, <2>1, <2>3 DEF Runs
      <4>6. \A u \in Task : task'[u].at = "waits" => task'[u].at = task[u].at /\ task'[u].had = task[u].had
        BY <3>1
      <4> QED BY <2>3, <4>3, <4>4, <4>5, <4>6 DEF Storing
    <3> QED BY <3>5, <3>6, <3>7, <3>8
  <2> QED BY <1>2, <2>0, <2>4, <2>5 DEF Acquire
<1>3. ASSUME NEW t \in Task, Answered(t) PROVE IInv'
  <2>0. PICK c : c = Fresh(issued + 1)
    OBVIOUS
  <2>1. /\ task[t].at = "refreshes" /\ lock[Home[t]] = t /\ Runs(Home[t])
        /\ issued' = issued + 1 /\ issued \in Nat /\ issued' \in Token
        /\ UNCHANGED <<file, other, spent, lost, lock, logout>>
    BY <1>3 DEF Answered, Locking, Types, Token
  <2>2. c \in Credential /\ c.token = issued + 1
    BY <2>0, <2>1 DEF Fresh, Credential
  <2>3. Goto(t, "saves", c)
           /\ saving' = [saving EXCEPT ![Home[t]] = [file |-> c, other |-> other]]
    BY <1>3, <2>0 DEF Answered
  <2>4. \A u \in Task : task'[u] = IF u = t THEN [at |-> "saves", had |-> c] ELSE task[u]
    BY <2>3 DEF Goto, Types
  <2>5. [file |-> c, other |-> other] \in Entries
    BY <2>2 DEF Entries, Types
  <2>6. \A p \in Proc : saving'[p] = [file |-> c, other |-> other]
    BY <1>0, <2>3 DEF Types
  <2>7. Types'
    <3>1. task' \in [Task -> [at : Stages, had : Credential \union {None}]]
      BY <2>2, <2>3 DEF Goto, Types, Stages
    <3>2. saving' \in [Proc -> Entries \union {None}]
      BY <2>3, <2>5 DEF Types
    <3> QED BY <2>1, <3>1, <3>2 DEF Types
  <2>8. Locking'
    BY <1>0, <2>1, <2>4, <2>5, <2>6 DEF Locking, Runs
  <2>9. Issuing'
    <3>1. \A d \in Credential \union {None} : Known(d) => Known(d)'
      BY <2>1 DEF Known, Credential, Token
    <3>2. Known(file)' /\ \A u \in Task : u # t => Known(task[u].had)'
      <4>1. \A u \in Task : u # t => task'[u].had = task[u].had
        BY <2>4
      <4>2. Known(file)' /\ \A u \in Task : task[u].had # None => task[u].had.token <= issued'
        BY <1>0, <2>1, <3>1 DEF Issuing, Types, Known
      <4> QED BY <4>1, <4>2 DEF Known
    <3>3. Known(c)'
      BY <2>1, <2>2 DEF Known
    <3>4. \A n \in Token : n > issued' => spent'[n] = 0
      BY <2>1 DEF Issuing, Token
    <3> QED BY <2>4, <2>6, <3>2, <3>3, <3>4 DEF Issuing, Known
  <2>10. Storing'
    <3>1. spent'[c.token] = 0
      <4>1. c.token \in Token /\ c.token > issued
        BY <2>1, <2>2
      <4> QED BY <2>1, <4>1 DEF Issuing
    <3>2. Sound(c)'
      BY <2>2, <3>1 DEF Sound
    <3>3. \A p \in Proc : saving'[p] # None => Sound(saving[p].file)'
      BY <2>6, <3>2 DEF Sound
    <3> QED BY <2>1, <2>4, <3>3 DEF Storing
  <2> QED BY <2>7, <2>8, <2>9, <2>10
<1>4. ASSUME NEW t \in Task, Fails(t) \/ Cancel(t) PROVE IInv'
  <2>1. /\ task[t].at \in {"waits", "refreshes"} /\ Goto(t, "failed", None)
        /\ lost' = IF task[t].at = "refreshes" THEN lost \union {task[t].had.token} ELSE lost
        /\ UNCHANGED <<file, other, saving, issued, spent, logout>>
    BY <1>4 DEF Fails, Cancel
  <2>2. lock' = IF lock[Home[t]] = t THEN [lock EXCEPT ![Home[t]] = None] ELSE lock
    BY <1>4 DEF Fails, Cancel, Release, Locking
  <2>3. "failed" \in Stages \ {"refreshes", "saves"} /\ Known(None) /\ None \in Credential \union {None}
    BY DEF Stages, Known
  <2> QED BY <2>1, <2>2, <2>3, TaskMoves
<1>5. ASSUME NEW t \in Task, AskAgain(t) PROVE IInv'
  <2>1. /\ task[t].at \in {"done", "failed"} /\ Goto(t, "idle", None)
        /\ UNCHANGED <<file, other, saving, issued, spent, lost, logout, lock>>
    BY <1>5 DEF AskAgain
  <2>2. lock[Home[t]] # t
    BY <2>1 DEF Locking
  <2>3. "idle" \in Stages \ {"refreshes", "saves"} /\ Known(None) /\ None \in Credential \union {None}
    BY DEF Stages, Known
  <2> QED BY <2>1, <2>2, <2>3, TaskMoves
<1>6. ASSUME NEW p \in Proc, Save(p) PROVE IInv'
  <2> DEFINE t == lock[p]
             ends == t # None /\ task[t].at = "saves"
  <2>1. /\ saving[p] \in Entries /\ saving[p].file \in Credential \union {None}
        /\ saving[p].other \in {0, 1}
        /\ file' = saving[p].file /\ other' = saving[p].other
        /\ saving' = [saving EXCEPT ![p] = None]
        /\ logout' = IF saving[p].file = None /\ file # None THEN "last" ELSE logout
        /\ UNCHANGED <<issued, spent, lost>>
    BY <1>6 DEF Save, Types, Entries
  <2>2. t \in Task \union {None} /\ \A u \in Task : Home[u] = p
    BY <1>0 DEF Types
  <2>3. \A u \in Task : task'[u] = IF ends /\ u = t THEN [at |-> "done", had |-> task[t].had]
                                    ELSE task[u]
    BY <1>6, <2>2 DEF Save, Types
  <2>4. lock' = IF ends THEN [lock EXCEPT ![p] = None] ELSE lock
    BY <1>6 DEF Save
  <2>5. \A u \in Task : task[u].at = "saves" <=> ends /\ u = t
    BY <2>2 DEF Locking
  <2>6. Types'
    <3>1. task' \in [Task -> [at : Stages, had : Credential \union {None}]]
      BY <1>6, <2>2 DEF Save, Types, Stages
    <3> QED BY <2>1, <2>2, <2>4, <3>1 DEF Types
  <2>7. Locking'
    <3>1. \A u \in Task : task'[u].at = "refreshes" <=> task[u].at = "refreshes"
      BY <2>3
    <3>2. \A u \in Task : task'[u].at # "saves"
      BY <2>3, <2>5
    <3>3. \A u \in Task : lock'[Home[u]] = u <=> task[u].at = "refreshes"
      BY <2>2, <2>4, <2>5 DEF Locking, Types
    <3> QED BY <2>3, <3>1, <3>2, <3>3 DEF Locking
  <2>8. Issuing'
    <3>1. \A u \in Task : task'[u].had = task[u].had
      BY <2>3
    <3>2. \A q \in Proc : saving'[q] = None
      BY <2>1 DEF OneProcess, Types
    <3> QED BY <1>6, <2>1, <3>1, <3>2 DEF Save, Issuing, Known
  <2>9. Storing'
    <3>1. \A d : Sound(d) => Sound(d)'
      BY <2>1, <2>3 DEF Sound
    <3>2. \A q \in Proc : saving'[q] = None
      BY <2>1 DEF OneProcess, Types
    <3>3. \A u \in Task : task'[u].at = "waits" => task[u].at = "waits" /\ task'[u].had = task[u].had
      BY <2>3
    <3> QED BY <1>6, <2>1, <3>1, <3>2, <3>3 DEF Save, Storing, Sound
  <2> QED BY <2>6, <2>7, <2>8, <2>9
<1>7. ASSUME NEW p \in Proc, Login(p) PROVE IInv'
  <2>0. PICK c : c = Fresh(issued + 1)
    OBVIOUS
  <2>1. issued \in Nat /\ issued + 1 \in Token /\ issued' = issued + 1
    BY <1>7 DEF Login, Types, Token
  <2>2. c \in Credential /\ c.token = issued + 1
    BY <2>0, <2>1 DEF Fresh, Credential
  <2>3. Sound(c)
    BY <2>1, <2>2 DEF Sound, Issuing
  <2>4. /\ Runs(p) /\ Begin(p, c, other) /\ other \in {0, 1}
        /\ logout' = "never" => logout = "never"
        /\ UNCHANGED <<file, other, lock, task, spent, lost>>
    BY <1>7, <2>0 DEF Login, Types
  <2>5. issued' \in {issued, issued + 1} \intersect Token /\ c.token <= issued'
    BY <2>1, <2>2
  <2> QED BY <2>2, <2>3, <2>4, <2>5, Begins
<1>8. ASSUME NEW p \in Proc, Logout(p) PROVE IInv'
  <2>1. Sound(None) /\ None \in Credential \union {None}
    BY DEF Sound
  <2>2. /\ Runs(p) /\ Begin(p, None, other) /\ other \in {0, 1} /\ issued \in Token
        /\ UNCHANGED <<file, other, lock, task, spent, lost, issued, logout>>
    BY <1>8 DEF Logout, Types
  <2>3. issued' \in {issued, issued + 1} \intersect Token
    BY <2>2
  <2> QED BY <2>1, <2>2, <2>3, Begins
<1>9. ASSUME NEW p \in Proc, SetOther(p) PROVE IInv'
  <2>1. /\ Runs(p) /\ Begin(p, file, 1) /\ issued \in Token /\ file \in Credential \union {None}
        /\ UNCHANGED <<file, other, lock, task, spent, lost, issued, logout>>
    BY <1>9 DEF SetOther, Types
  <2>2. \A t \in Task : task[t].at # "saves"
    BY <1>0, <2>1 DEF Locking
  <2>3. logout = "never" => Sound(file)
    BY <2>2 DEF Storing
  <2>4. issued' \in {issued, issued + 1} \intersect Token /\ (file # None => file.token <= issued')
    BY <2>1 DEF Issuing, Known
  <2> QED BY <2>1, <2>3, <2>4, Begins
<1>10. CASE Expire
  <2>1. /\ file # None /\ file' = [file EXCEPT !.expired = TRUE] /\ file \in Credential
        /\ UNCHANGED <<other, saving, issued, spent, lost, rereads, lock, task, logout>>
    BY <1>10 DEF Expire, Types
  <2>2. file' \in Credential /\ file'.token = file.token
    BY <2>1 DEF Credential
  <2>3. Types' /\ Locking'
    BY <2>1, <2>2 DEF Types, Locking, Runs
  <2>4. Issuing'
    BY <2>1, <2>2 DEF Issuing, Known
  <2>5. Storing'
    <3>1. \A d : Sound(d)' <=> Sound(d)
      BY <2>1 DEF Sound
    <3>2. Sound(file) <=> Sound(file')
      BY <2>1, <2>2 DEF Sound
    <3> QED BY <2>1, <2>2, <3>1, <3>2 DEF Storing, Sound
  <2> QED BY <2>3, <2>4, <2>5
<1>11. CASE UNCHANGED vars
  BY <1>11 DEF vars, Types, Locking, Issuing, Storing, Runs, Known, Sound
<1> QED
  BY <1>1, <1>2, <1>3, <1>4, <1>5, <1>6, <1>7, <1>8, <1>9, <1>10, <1>11
  DEF Next, Progress

(* In one process a refresh token is presented once, and again only if       *)
(* nothing came of it, until somebody logs out.                              *)
THEOREM AlwaysSpentOnce ==
  ASSUME CredentialsAssumption, OneProcess
  PROVE  Spec => []SpentOnce
<1>1. Init => IInv
  BY InitIInv
<1>2. IInv /\ [Next]_vars => IInv'
  BY NextIInv
<1>3. IInv => SpentOnce
  BY DEF IInv, Storing, SpentOnce
<1> QED BY <1>1, <1>2, <1>3, PTL DEF Spec
=============================================================================
