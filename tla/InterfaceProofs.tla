-------------------------- MODULE InterfaceProofs --------------------------
(* The workers of prompts and compactions keep apart, the places of          *)
(* extension widgets settle, a transcript that was streamed is the one that  *)
(* is loaded, and its mounted rows are those of a window of its items:       *)
(* inductive invariants and their proofs.                                    *)
EXTENDS Interface, SequenceTheorems, WellFoundedInduction, TLAPS

-----------------------------------------------------------------------------
(***************************************************************************)
(* PromptWorkers: the runs are kept apart.                                 *)
(***************************************************************************)
(* The values of the variables.                                              *)
WorkerTypes ==
  /\ stage \in [P!Prompt -> {"unsent", "posted", "queued", "edited", "mount", "hooks", "prepare",
                             "turn", "settle", "left", "handled", "refused", "done", "dropped"}]
  /\ pump \in P!Prompt \union {None} /\ owner \in P!Prompt \union {None}
  /\ worker \in P!Prompt \union {None} /\ turn \in P!Prompt \union {None}
  /\ dying \subseteq P!Prompt \union Compaction /\ optimistic \subseteq P!Prompt
  /\ shown \in [P!Prompt -> {0, 1}] /\ queue \in Seq(P!Prompt) /\ history \subseteq P!Prompt
  /\ running \in BOOLEAN /\ compacting \in BOOLEAN
  /\ cstage \in [Compaction -> {"none", "starting", "running", "over"}]
  /\ cowner \in Compaction \union {None} /\ cworker \in Compaction \union {None}

(* The prompt whose item is being mounted occupies the pump and has the run  *)
(* id; a prompt of a key never gets one.                                     *)
Mounting == pump # None /\ stage[pump] = "mount"
PumpIsOwn ==
  \A p \in P!Prompt : /\ stage[p] = "mount" => pump = p /\ owner = p
                      /\ P!ByKey(p) => owner # p /\ p \notin optimistic

(* What was not sent yet is nowhere, and a prompt that the harness has not   *)
(* taken is shown only as an optimistic one.                                 *)
NotShownYet ==
  \A p \in P!Prompt :
    /\ stage[p] \in {"unsent", "posted"} => owner # p /\ p \notin optimistic
    /\ stage[p] \in {"unsent", "posted", "queued"} => p \notin history /\ shown[p] = 0
    /\ stage[p] \in {"mount", "hooks", "prepare"} =>
         p \notin history /\ (p \notin optimistic => shown[p] = 0)

QueuedOnce ==
  \A i, j \in 1 .. Len(queue) : stage[queue[i]] = "queued" /\ (queue[i] = queue[j] => i = j)

(* The worker is the one run nobody cancelled, and has the run id until the  *)
(* next prompt takes it; a cancelled one has lost it.                        *)
OneWorker ==
  /\ worker # None => (P!Active(worker) /\ worker = owner) \/ Mounting
  /\ \A p \in P!Prompt :
       /\ P!Active(p) /\ p \notin dying /\ pump # p => worker = p
       /\ p \in dying => P!Active(p) /\ owner # p /\ pump # p

(* The same of compactions: the live one has the session to itself.          *)
OneCompaction ==
  \A c \in Compaction :
    /\ c \in dying => cstage[c] \in {"starting", "running"}
    /\ P!Live(c) => /\ cworker = c /\ turn = None
                    /\ \A p \in P!Prompt : P!Active(p) => p \in dying
                    /\ \A d \in Compaction : cstage[d] = "running" /\ cowner = d => d = c

(* The inductive invariant.                                                  *)
WorkerInv == /\ WorkerTypes /\ PumpIsOwn /\ NotShownYet /\ QueuedOnce /\ OneWorker /\ OneCompaction
             /\ P!CompactingIsOwned

(* A prompt joins the queue.                                                 *)
LEMMA JoinsQueue ==
  ASSUME WorkerTypes, QueuedOnce, NEW p \in P!Prompt, stage[p] # "queued",
         queue' = Append(queue, p), P!To(p, "queued")
  PROVE  QueuedOnce'
<1>1. PICK q : q = queue OBVIOUS
<1>2. q \in Seq(P!Prompt) BY <1>1 DEF WorkerTypes
<1>3. /\ Len(queue') = Len(q) + 1 /\ queue'[Len(q) + 1] = p /\ Len(q) \in Nat
      /\ \A i \in 1 .. Len(q) : queue'[i] = q[i] /\ q[i] \in P!Prompt
  BY <1>1, <1>2, AppendProperties, ElementOfSeq
<1>4. \A i \in 1 .. Len(q) : q[i] # p /\ stage'[q[i]] = "queued"
  BY <1>1, <1>3 DEF WorkerTypes, QueuedOnce, P!To
<1>5. stage'[p] = "queued" BY DEF WorkerTypes, P!To
<1> QED BY <1>1, <1>3, <1>4, <1>5 DEF QueuedOnce

(* Every key, callback, worker and extension keeps them apart.               *)
LEMMA WorkersNext ==
  ASSUME P!WorkersAssumption, WorkerInv, P!Next
  PROVE  WorkerInv'
<1> USE DEF WorkerInv, WorkerTypes, PumpIsOwn, NotShownYet, QueuedOnce, OneWorker, Mounting, OneCompaction, P!CompactingIsOwned, P!ByKey, P!Active, P!Alive, P!Live, P!To, P!prompts, P!transcript, P!session, P!compactions, P!Prompt, P!WorkersAssumption
<1>1. CASE P!CancelCompaction
  <2>1. WorkerTypes'
    <3>1. cworker \in Compaction BY <1>1 DEF P!CancelCompaction
    <3>2. P!Reloaded \in [P!Prompt -> {0, 1}] BY DEF P!Reloaded
    <3>3. dying' \subseteq P!Prompt \union Compaction BY <1>1, <3>1 DEF P!CancelCompaction
    <3>4. shown' \in [P!Prompt -> {0, 1}] BY <1>1, <3>2 DEF P!CancelCompaction
    <3> QED BY <1>1, <3>3, <3>4 DEF P!CancelCompaction
  <2>2. PumpIsOwn' BY <1>1 DEF P!CancelCompaction, P!Reloaded
  <2>3. NotShownYet' BY <1>1 DEF P!CancelCompaction, P!Reloaded
  <2>4. QueuedOnce' BY <1>1 DEF P!CancelCompaction, P!Reloaded
  <2>5. OneWorker' BY <1>1 DEF P!CancelCompaction, P!Reloaded
  <2>6. OneCompaction' BY <1>1 DEF P!CancelCompaction, P!Reloaded
  <2>7. P!CompactingIsOwned' BY <1>1 DEF P!CancelCompaction, P!Reloaded
  <2> QED BY <2>1, <2>2, <2>3, <2>4, <2>5, <2>6, <2>7
<1>2. CASE P!CancelPrompt
  <2>1. WorkerTypes'
    <3>1. dying' \subseteq P!Prompt \union Compaction
      <4>1. CASE worker = None BY <1>2, <4>1 DEF P!CancelPrompt
      <4>2. CASE worker # None
        <5>1. dying' = dying \union {worker} BY <1>2, <4>2 DEF P!CancelPrompt
        <5>2. worker \in P!Prompt BY <4>2
        <5> QED BY <5>1, <5>2
      <4> QED BY <4>1, <4>2
    <3> QED BY <1>2, <3>1 DEF P!CancelPrompt
  <2>2. PumpIsOwn' BY <1>2 DEF P!CancelPrompt
  <2>3. NotShownYet' BY <1>2 DEF P!CancelPrompt
  <2>4. QueuedOnce' BY <1>2 DEF P!CancelPrompt
  <2>5. OneWorker' BY <1>2 DEF P!CancelPrompt
  <2>6. OneCompaction' BY <1>2 DEF P!CancelPrompt
  <2>7. P!CompactingIsOwned' BY <1>2 DEF P!CancelPrompt
  <2> QED BY <2>1, <2>2, <2>3, <2>4, <2>5, <2>6, <2>7
<1>3. CASE P!EditQueued
  <2>1. WorkerTypes' BY <1>3 DEF P!EditQueued
  <2>2. PumpIsOwn' BY <1>3 DEF P!EditQueued
  <2>3. NotShownYet' BY <1>3 DEF P!EditQueued
  <2>4. QueuedOnce' BY <1>3, SMTT(30) DEF P!EditQueued
  <2>5. OneWorker' BY <1>3 DEF P!EditQueued
  <2>6. OneCompaction' BY <1>3 DEF P!EditQueued
  <2>7. P!CompactingIsOwned' BY <1>3 DEF P!EditQueued
  <2> QED BY <2>1, <2>2, <2>3, <2>4, <2>5, <2>6, <2>7
<1>4. ASSUME NEW p \in Typed, P!Enter(p) PROVE WorkerInv'
  BY <1>4 DEF P!Enter, P!Submit, P!CompactionActive
<1>5. ASSUME NEW p \in Asked, P!Ask(p) PROVE WorkerInv'
  <2>1. WorkerTypes' BY <1>5, SMTT(30) DEF P!Ask
  <2>2. PumpIsOwn' BY <1>5 DEF P!Ask
  <2>3. NotShownYet' BY <1>5 DEF P!Ask
  <2>4. QueuedOnce' BY <1>5, SMTT(30) DEF P!Ask
  <2>5. OneWorker' BY <1>5 DEF P!Ask
  <2>6. OneCompaction' BY <1>5 DEF P!Ask
  <2>7. P!CompactingIsOwned' BY <1>5 DEF P!Ask
  <2> QED BY <2>1, <2>2, <2>3, <2>4, <2>5, <2>6, <2>7
<1>6. ASSUME NEW p \in Asked, P!Deliver(p) PROVE WorkerInv'
  <2>1. WorkerTypes' BY <1>6 DEF P!Deliver, P!Submit
  <2>2. PumpIsOwn' BY <1>6 DEF P!Deliver, P!Submit
  <2>3. NotShownYet' BY <1>6 DEF P!Deliver, P!Submit
  <2>4. QueuedOnce'
    <3>1. CASE P!Submit(p) BY <1>6, <3>1 DEF P!Deliver, P!Submit
    <3>2. CASE queue' = Append(queue, p) /\ P!To(p, "queued")
      BY <1>6, <3>2, JoinsQueue DEF P!Deliver
    <3> QED BY <1>6, <3>1, <3>2 DEF P!Deliver
  <2>5. OneWorker' BY <1>6 DEF P!Deliver, P!Submit
  <2>6. OneCompaction' BY <1>6 DEF P!Deliver, P!Submit
  <2>7. P!CompactingIsOwned' BY <1>6 DEF P!Deliver, P!Submit
  <2> QED BY <2>1, <2>2, <2>3, <2>4, <2>5, <2>6, <2>7
<1>7. ASSUME NEW p \in P!Prompt, P!StartWorker(p) PROVE WorkerInv'
  BY <1>7 DEF P!StartWorker
<1>8. ASSUME NEW p \in P!Prompt, P!HooksReturn(p) PROVE WorkerInv'
  <2>1. WorkerTypes'
    <3>1. running' \in BOOLEAN BY <1>8, Zenon DEF P!HooksReturn
    <3>2. queue' \in Seq(P!Prompt) BY <1>8 DEF P!HooksReturn
    <3> QED BY <1>8, <3>1, <3>2 DEF P!HooksReturn, P!Ends
  <2>2. PumpIsOwn' BY <1>8 DEF P!HooksReturn, P!Ends
  <2>3. NotShownYet' BY <1>8 DEF P!HooksReturn, P!Ends
  <2>4. QueuedOnce'
    <3>1. CASE UNCHANGED queue BY <1>8, <3>1 DEF P!HooksReturn, P!Ends
    <3>2. CASE queue' = Append(queue, p) /\ P!To(p, "queued")
      BY <1>8, <3>2, JoinsQueue DEF P!HooksReturn
    <3> QED BY <1>8, <3>1, <3>2 DEF P!HooksReturn, P!Ends
  <2>5. OneWorker' BY <1>8 DEF P!HooksReturn, P!Ends
  <2>6. OneCompaction' BY <1>8 DEF P!HooksReturn, P!Ends
  <2>7. P!CompactingIsOwned' BY <1>8 DEF P!HooksReturn, P!Ends
  <2> QED BY <2>1, <2>2, <2>3, <2>4, <2>5, <2>6, <2>7
<1>9. ASSUME NEW p \in P!Prompt, P!Begin(p) PROVE WorkerInv'
  <2>1. WorkerTypes'
    <3>1. running' \in BOOLEAN BY <1>9, Zenon DEF P!Begin
    <3> QED BY <1>9, <3>1 DEF P!Begin, P!Ends, P!Visible
  <2>2. PumpIsOwn' BY <1>9 DEF P!Begin, P!Ends, P!Visible
  <2>3. NotShownYet' BY <1>9 DEF P!Begin, P!Ends, P!Visible
  <2>4. QueuedOnce' BY <1>9 DEF P!Begin, P!Ends, P!Visible
  <2>5. OneWorker' BY <1>9 DEF P!Begin, P!Ends, P!Visible
  <2>6. OneCompaction' BY <1>9 DEF P!Begin, P!Ends, P!Visible
  <2>7. P!CompactingIsOwned' BY <1>9 DEF P!Begin, P!Ends, P!Visible
  <2> QED BY <2>1, <2>2, <2>3, <2>4, <2>5, <2>6, <2>7
<1>10. ASSUME NEW p \in P!Prompt, P!Drain(p) PROVE WorkerInv'
  BY <1>10 DEF P!Drain
<1>11. ASSUME NEW p \in P!Prompt, P!ErrorShown(p) PROVE WorkerInv'
  <2>1. WorkerTypes' BY <1>11 DEF P!ErrorShown
  <2>2. PumpIsOwn' BY <1>11 DEF P!ErrorShown
  <2>3. NotShownYet' BY <1>11 DEF P!ErrorShown
  <2>4. QueuedOnce' BY <1>11 DEF P!ErrorShown
  <2>5. OneWorker' BY <1>11 DEF P!ErrorShown
  <2>6. OneCompaction' BY <1>11 DEF P!ErrorShown
  <2>7. P!CompactingIsOwned' BY <1>11 DEF P!ErrorShown
  <2> QED BY <2>1, <2>2, <2>3, <2>4, <2>5, <2>6, <2>7
<1>12. ASSUME NEW p \in P!Prompt, P!TurnEnds(p) PROVE WorkerInv'
  BY <1>12 DEF P!TurnEnds
<1>13. ASSUME NEW p \in P!Prompt, P!Settles(p) PROVE WorkerInv'
  <2>1. WorkerTypes' BY <1>13 DEF P!Settles, P!Ends, P!Heard, P!Visible
  <2>2. PumpIsOwn' BY <1>13 DEF P!Settles, P!Ends, P!Heard, P!Visible
  <2>3. NotShownYet' BY <1>13 DEF P!Settles, P!Ends, P!Heard, P!Visible
  <2>4. QueuedOnce' BY <1>13 DEF P!Settles, P!Ends, P!Heard, P!Visible
  <2>5. OneWorker' BY <1>13 DEF P!Settles, P!Ends, P!Heard, P!Visible
  <2>6. OneCompaction' BY <1>13 DEF P!Settles, P!Ends, P!Heard, P!Visible
  <2>7. P!CompactingIsOwned' BY <1>13 DEF P!Settles, P!Ends, P!Heard, P!Visible
  <2> QED BY <2>1, <2>2, <2>3, <2>4, <2>5, <2>6, <2>7
<1>14. ASSUME NEW p \in P!Prompt, P!Raises(p) PROVE WorkerInv'
  BY <1>14 DEF P!Raises, P!Ends
<1>15. ASSUME NEW p \in P!Prompt, P!LosesTurn(p) PROVE WorkerInv'
  BY <1>15 DEF P!LosesTurn, P!Ends
<1>16. ASSUME NEW p \in P!Prompt, P!Closed(p) PROVE WorkerInv'
  BY <1>16 DEF P!Closed
<1>17. ASSUME NEW p \in P!Prompt, P!Unwinds(p) PROVE WorkerInv'
  BY <1>17 DEF P!Unwinds, P!Ends
<1>18. ASSUME NEW c \in Compaction, P!StartCompaction(c) PROVE WorkerInv'
  BY <1>18 DEF P!StartCompaction, P!CompactionActive, P!AgentOrQueueActive
<1>19. ASSUME NEW c \in Compaction, P!CompactionBegins(c) PROVE WorkerInv'
  BY <1>19 DEF P!CompactionBegins
<1>20. ASSUME NEW c \in Compaction, P!CompactionEnds(c) PROVE WorkerInv'
  <2>1. WorkerTypes' BY <1>20 DEF P!CompactionEnds, P!Release, P!Reloaded
  <2>2. PumpIsOwn' BY <1>20 DEF P!CompactionEnds, P!Release, P!Reloaded
  <2>3. NotShownYet' BY <1>20 DEF P!CompactionEnds, P!Release, P!Reloaded
  <2>4. QueuedOnce' BY <1>20 DEF P!CompactionEnds, P!Release, P!Reloaded
  <2>5. OneWorker' BY <1>20 DEF P!CompactionEnds, P!Release, P!Reloaded
  <2>6. OneCompaction' BY <1>20 DEF P!CompactionEnds, P!Release, P!Reloaded
  <2>7. P!CompactingIsOwned'
    <3>1. compacting' <=> compacting /\ cowner # c
      BY <1>20, Zenon DEF P!CompactionEnds, P!Release
    <3> QED BY <1>20, <3>1 DEF P!CompactionEnds, P!Release
  <2> QED BY <2>1, <2>2, <2>3, <2>4, <2>5, <2>6, <2>7
<1>21. ASSUME NEW c \in Compaction, P!CompactionUnwinds(c) PROVE WorkerInv'
  <2>1. WorkerTypes'
    <3>1. compacting' \in BOOLEAN BY <1>21, Zenon DEF P!CompactionUnwinds, P!Release
    <3> QED BY <1>21, <3>1 DEF P!CompactionUnwinds, P!Release
  <2>2. PumpIsOwn' BY <1>21 DEF P!CompactionUnwinds, P!Release
  <2>3. NotShownYet' BY <1>21 DEF P!CompactionUnwinds, P!Release
  <2>4. QueuedOnce' BY <1>21 DEF P!CompactionUnwinds, P!Release
  <2>5. OneWorker' BY <1>21 DEF P!CompactionUnwinds, P!Release
  <2>6. OneCompaction' BY <1>21 DEF P!CompactionUnwinds, P!Release
  <2>7. P!CompactingIsOwned'
    <3>1. CASE cstage[c] = "running" /\ P!Release(c)
      <4>1. compacting' <=> compacting /\ cowner # c BY <3>1, Zenon DEF P!Release
      <4> QED BY <3>1, <4>1 DEF P!Release
    <3>2. CASE cstage[c] = "starting" /\ UNCHANGED <<cowner, cworker, compacting>>
      BY <1>21, <3>2 DEF P!CompactionUnwinds, P!Release
    <3> QED BY <1>21, <3>1, <3>2 DEF P!CompactionUnwinds
  <2> QED BY <2>1, <2>2, <2>3, <2>4, <2>5, <2>6, <2>7
<1> QED
  BY <1>1, <1>2, <1>3, <1>4, <1>5, <1>6, <1>7, <1>8, <1>9, <1>10, <1>11, <1>12, <1>13, <1>14, <1>15, <1>16, <1>17, <1>18, <1>19, <1>20, <1>21 DEF P!Next

(* However prompts, compactions, Esc and extensions interleave while          *)
(* cancelled workers unwind, for any number of each: a compaction has the     *)
(* session to itself and holds back prompts only while it runs, a prompt is   *)
(* shown once, and the run it leads is the one Esc cancels.                   *)
THEOREM RunsAlwaysKeptApart == Spec => []RunsKeptApart
<1>1. Init => WorkerInv
  <2> SUFFICES ASSUME P!Init PROVE WorkerInv
    BY DEF Init
  <2>1. queue \in Seq(P!Prompt) /\ Len(queue) = 0
    BY DEF P!Init
  <2>2. WorkerTypes
    <3>1. stage = [p \in P!Prompt |-> "unsent"] /\ shown = [p \in P!Prompt |-> 0]
          /\ cstage = [c \in Compaction |-> "none"]
      BY DEF P!Init
    <3> QED BY <2>1, <3>1 DEF P!Init, WorkerTypes
  <2>4. QueuedOnce
    BY <2>1 DEF P!Init, QueuedOnce
  <2>3. PumpIsOwn /\ NotShownYet /\ OneWorker /\ OneCompaction /\ P!CompactingIsOwned
    BY PartsAssumption
       DEF P!Init, PumpIsOwn, NotShownYet, OneWorker, OneCompaction, P!CompactingIsOwned,
           P!ByKey, P!Active, P!Live, P!WorkersAssumption
  <2> QED BY <2>2, <2>3, <2>4 DEF WorkerInv
<1>2. WorkerInv /\ [Next]_vars => WorkerInv'
  <2>1. ASSUME WorkerInv, UNCHANGED workerVars PROVE WorkerInv'
    BY <2>1
       DEF workerVars, WorkerInv, WorkerTypes, PumpIsOwn, NotShownYet, QueuedOnce, OneWorker,
                Mounting, OneCompaction, P!CompactingIsOwned, P!ByKey, P!Active, P!Live
  <2> QED BY <2>1, PartsAssumption, WorkersNext DEF Next, vars
<1>3. WorkerInv => RunsKeptApart
  BY PartsAssumption
     DEF RunsKeptApart, P!RunsKeptApart, P!CompactionIsOwn, P!PromptIsFound, P!CompactionAlone,
         P!InterruptFindsRun, P!ShownOnce, WorkerInv, WorkerTypes, OneWorker, OneCompaction,
         P!Live, P!Active, P!ByKey, P!Alive, P!WorkersAssumption
<1> QED BY <1>1, <1>2, <1>3, PTL DEF Spec

-----------------------------------------------------------------------------
(***************************************************************************)
(* ComponentSlots: the places settle.                                      *)
(***************************************************************************)
(* What is visible is what the host mounted; while a removal is awaited that *)
(* is the widget that goes, if it did not crash; a view is awaited only      *)
(* while it is meant, and one that is mounted hides the transcript.          *)
SlotInv ==
  /\ meant \in [S!Place -> Widget \union {None}] /\ mounted \in [S!Place -> Widget \union {None}]
  /\ removing \in [S!Place -> Widget \union {None}] /\ tasks \in [S!Place -> Nat]
  /\ dom \in [S!Place -> SUBSET Widget] /\ open \subseteq Widget /\ hidden \in BOOLEAN
  /\ \A a \in S!Place : /\ dom[a] \ ghosts \subseteq {mounted[a]}
                        /\ removing[a] # None => mounted[a] \in {removing[a], None}
  /\ mounted["main"] # None => hidden
  /\ S!WaitersWake /\ S!ScreenIsMeant

(* What the holder of the lock does once nothing else is mounted.            *)
LEMMA SettleHolds ==
  ASSUME S!SlotsAssumption, SlotInv, NEW a \in S!Place, NEW was \in {None, meant[a]},
         was = mounted[a] \/ (was = None /\ removing[a] # None), S!Settle(a, was),
         removing' = [removing EXCEPT ![a] = None], ghosts' = ghosts, tasks' \in [S!Place -> Nat],
         \A b \in S!Place : b # a => tasks'[b] = tasks[b]
  PROVE  SlotInv'
<1> USE DEF SlotInv, S!Place, S!WaitersWake, S!ScreenIsMeant, S!SlotsAssumption, S!Mean
<1>1. CASE /\ meant[a] # None /\ was # meant[a]
           /\ mounted' = [mounted EXCEPT ![a] = meant[a]]
           /\ dom' = [dom EXCEPT ![a] = (@ \ {removing[a]}) \union {meant[a]}]
           /\ hidden' = (hidden \/ a = "main")
           /\ UNCHANGED <<meant, open>>
  <2>1. hidden' \in BOOLEAN /\ (hidden' <=> hidden \/ a = "main") BY <1>1, Zenon
  <2>2. mounted[a] \in {None, removing[a]} /\ meant[a] \in Widget BY <1>1
  <2>3. dom' \in [S!Place -> SUBSET Widget] BY <1>1, <2>2
  <2>4. \A b \in S!Place : dom'[b] \ ghosts' \subseteq {mounted'[b]} BY <1>1, <2>2
  <2>5. \A b \in S!Place : removing'[b] # None => mounted'[b] \in {removing'[b], None}
    BY <1>1
  <2>6. mounted'["main"] # None => hidden' BY <1>1, <2>1
  <2>7. S!WaitersWake' BY <1>1
  <2>8. S!ScreenIsMeant' BY <1>1, <2>1, <2>2
  <2> QED BY <1>1, <2>1, <2>2, <2>3, <2>4, <2>5, <2>6, <2>7, <2>8
<1>2. CASE /\ meant[a] # None /\ was # meant[a] /\ S!Mean(a, None)
           /\ mounted' = [mounted EXCEPT ![a] = was]
           /\ dom' = [dom EXCEPT ![a] = @ \ {removing[a]}]
           /\ open' = IF a = "main" THEN open \ {meant[a]} ELSE open
           /\ hidden' = (hidden /\ a # "main")
  BY <1>2
<1>3. CASE /\ meant[a] = None \/ was = meant[a]
           /\ mounted' = [mounted EXCEPT ![a] = was]
           /\ dom' = [dom EXCEPT ![a] = @ \ {removing[a]}]
           /\ hidden' = (hidden /\ ~(a = "main" /\ meant[a] = None /\ was = None))
           /\ UNCHANGED <<meant, open>>
  BY <1>3
<1> QED BY <1>1, <1>2, <1>3 DEF S!Settle

(* Every call, task, removal and crash keeps it.                             *)
LEMMA SlotsNext ==
  ASSUME S!SlotsAssumption, SlotInv, [S!Next]_(S!vars)
  PROVE  SlotInv'
<1> USE DEF SlotInv, S!Place, S!WaitersWake, S!ScreenIsMeant, S!SlotsAssumption, S!Mean, S!Schedule
<1>1. CASE S!UnsetSlot
  BY <1>1 DEF S!UnsetSlot
<1>2. CASE S!Clear
  BY <1>2 DEF S!Clear
<1>3. ASSUME NEW w \in Widget, S!CloseView(w) PROVE SlotInv'
  BY <1>3 DEF S!CloseView
<1>4. ASSUME NEW a \in S!Place, S!Reconcile(a) PROVE SlotInv'
  <2>1. CASE mounted[a] # None /\ mounted[a] # meant[a]
    BY <1>4, <2>1 DEF S!Reconcile
  <2>2. CASE ~(mounted[a] # None /\ mounted[a] # meant[a])
    <3>1. S!Settle(a, mounted[a]) /\ UNCHANGED <<removing, ghosts>> /\ removing[a] = None
      BY <1>4, <2>2, Zenon DEF S!Reconcile
    <3>2. \A b \in S!Place : b # a => tasks'[b] = tasks[b]
      BY <1>4 DEF S!Reconcile
    <3>3. tasks' \in [S!Place -> Nat] BY <1>4 DEF S!Reconcile
    <3>4. removing' = [removing EXCEPT ![a] = None] BY <3>1
    <3>5. mounted[a] \in {None, meant[a]} BY <2>2
    <3>6. ghosts' = ghosts /\ S!SlotsAssumption /\ SlotInv BY <3>1
    <3> PICK was : was = mounted[a] OBVIOUS
    <3>7. was \in {None, meant[a]} /\ (was = mounted[a] \/ (was = None /\ removing[a] # None))
      BY <3>5
    <3>8. S!Settle(a, was) BY <3>1 DEF S!Settle
    <3> HIDE DEF SlotInv, S!SlotsAssumption, S!Place
    <3> QED BY <3>2, <3>3, <3>4, <3>6, <3>7, <3>8, SettleHolds
  <2> QED BY <2>1, <2>2
<1>5. ASSUME NEW a \in S!Place, S!Removed(a) PROVE SlotInv'
  <2>1. S!Settle(a, None) /\ UNCHANGED <<tasks, ghosts>>
    BY <1>5 DEF S!Removed
  <2>2. removing' = [removing EXCEPT ![a] = None]
    BY <1>5 DEF S!Removed
  <2>3. removing[a] # None /\ tasks' \in [S!Place -> Nat]
    BY <1>5 DEF S!Removed
  <2> HIDE DEF SlotInv
  <2> QED BY <2>1, <2>2, <2>3, SettleHolds
<1>6. ASSUME NEW a \in S!Place, NEW w \in Widget, S!Show(a, w) PROVE SlotInv'
  BY <1>6 DEF S!Show
<1>7. ASSUME NEW a \in S!Place, NEW w \in Widget, S!Crash(a, w) PROVE SlotInv'
  BY <1>7, ZenonT(40) DEF S!Crash
<1>8. ASSUME NEW a \in S!Place, NEW w \in Widget, S!Prune(a, w) PROVE SlotInv'
  BY <1>8 DEF S!Prune
<1>9. CASE UNCHANGED S!vars
  BY <1>9 DEF S!vars
<1> QED
  BY <1>1, <1>2, <1>3, <1>4, <1>5, <1>6, <1>7, <1>8, <1>9 DEF S!Next

(* A place shows one widget, in the end the one that is meant, and no handle *)
(* of a view that went stays open, for any widgets and any number of tasks.  *)
THEOREM PlacesAlwaysSettle == Spec => []PlacesSettle
<1>1. Init => SlotInv
  <2> SUFFICES ASSUME S!Init PROVE SlotInv
    BY DEF Init
  <2> USE DEF S!Init, S!Place
  <2>1. tasks \in [S!Place -> Nat] /\ dom \in [S!Place -> SUBSET Widget] OBVIOUS
  <2>2. \A a \in S!Place : meant[a] = None /\ mounted[a] = None /\ removing[a] = None /\ dom[a] = {}
    OBVIOUS
  <2>3. S!WaitersWake /\ S!ScreenIsMeant BY <2>2 DEF S!WaitersWake, S!ScreenIsMeant
  <2> QED BY <2>1, <2>2, <2>3 DEF SlotInv
<1>2. SlotInv /\ [Next]_vars => SlotInv'
  BY PartsAssumption, SlotsNext DEF Next, vars, slotVars, S!vars
<1>3. SlotInv => PlacesSettle
  BY DEF PlacesSettle, S!PlacesSettle, S!OneVisible, SlotInv
<1> QED BY <1>1, <1>2, <1>3, PTL DEF Spec

-----------------------------------------------------------------------------
(***************************************************************************)
(* Functions defined from the value before, and the elements of a sequence *)
(* that are in a set.                                                      *)
(***************************************************************************)
(* What holds of k whenever it holds below k holds up to n.                  *)
LEMMA UpTo ==
  ASSUME NEW n \in Nat, NEW T, 0 \in T, \A k \in 1 .. n : k - 1 \in T => k \in T
  PROVE  \A k \in 0 .. n : k \in T
<1> DEFINE R == OpToRel(<, Nat)
           Left == (0 .. n) \ T
<1>1. IsWellFoundedOn(R, Nat)
  BY NatLessThanWellFounded
<1>2. \A x, y \in Nat : y < x => <<y, x>> \in R
  BY DEF OpToRel
<1>3. Left \subseteq Nat OBVIOUS
<1> HIDE DEF R
<1>4. SUFFICES ASSUME Left # {} PROVE FALSE
  OBVIOUS
<1> HIDE DEF Left
<1>5. PICK x \in Left : \A y \in Left : ~(<<y, x>> \in R)
  BY <1>1, <1>3, <1>4, WFMin
<1>6. x \in 1 .. n
  BY DEF Left
<1>7. x - 1 \in Left
  BY <1>6 DEF Left
<1>8. x - 1 \in Nat /\ x \in Nat /\ x - 1 < x
  BY <1>6
<1> QED BY <1>2, <1>5, <1>7, <1>8, Zenon

(* A function whose value at k is made of the one before it ...              *)
Stepwise(n, V, base, st) ==
  \E f \in [0 .. n -> V] : f[0] = base /\ \A k \in 1 .. n : f[k] = st[<<k, f[k - 1]>>]

(* ... exists.                                                               *)
LEMMA Recursion ==
  ASSUME NEW n \in Nat, NEW V, NEW base \in V,
         NEW st, \A k \in 1 .. n : \A v \in V : st[<<k, v>>] \in V
  PROVE  Stepwise(n, V, base, st)
<1> DEFINE T == {k \in 0 .. n : Stepwise(k, V, base, st)}
<1>1. 0 \in T
  <2> DEFINE f == [j \in 0 .. 0 |-> base]
  <2>1. f \in [0 .. 0 -> V] /\ f[0] = base /\ 1 .. 0 = {} OBVIOUS
  <2> HIDE DEF f
  <2> QED BY <2>1 DEF Stepwise
<1>2. ASSUME NEW k \in 1 .. n, k - 1 \in T PROVE k \in T
  <2>1. k \in 0 .. n OBVIOUS
  <2>2. PICK f \in [0 .. k - 1 -> V] :
           f[0] = base /\ \A j \in 1 .. k - 1 : f[j] = st[<<j, f[j - 1]>>]
    BY <1>2 DEF Stepwise
  <2> DEFINE g == [j \in 0 .. k |-> IF j = k THEN st[<<k, f[k - 1]>>] ELSE f[j]]
  <2>3. k - 1 \in 0 .. k - 1 /\ f[k - 1] \in V /\ st[<<k, f[k - 1]>>] \in V
    BY <2>2
  <2>4. g \in [0 .. k -> V] BY <2>2, <2>3
  <2>5. \A j \in 0 .. k - 1 : g[j] = f[j] OBVIOUS
  <2>6. g[k] = st[<<k, f[k - 1]>>] OBVIOUS
  <2> HIDE DEF g
  <2>7. g[0] = base BY <2>2, <2>5
  <2>8. ASSUME NEW j \in 1 .. k PROVE g[j] = st[<<j, g[j - 1]>>]
    <3>1. j - 1 \in 0 .. k - 1 /\ g[j - 1] = f[j - 1] BY <2>5
    <3>2. CASE j = k BY <2>6, <3>1, <3>2
    <3>3. CASE j # k
      <4>1. j \in 1 .. k - 1 /\ j \in 0 .. k - 1 BY <3>3
      <4> QED BY <2>2, <2>5, <3>1, <4>1
    <3> QED BY <3>2, <3>3
  <2>9. Stepwise(k, V, base, st) BY <2>4, <2>7, <2>8 DEF Stepwise
  <2> QED BY <2>1, <2>9
<1> HIDE DEF T
<1>3. \A k \in 0 .. n : k \in T
  BY <1>1, <1>2, UpTo
<1>4. n \in T BY <1>3
<1> QED BY <1>4 DEF T

(* Among, element by element.                                                *)
Picks(D, s, T, f) ==
  /\ f \in [0 .. Len(s) -> Seq(D \intersect T)]
  /\ f[0] = << >> /\ I!Among(s, T) = f[Len(s)]
  /\ \A k \in 1 .. Len(s) : f[k] = IF s[k] \in T THEN Append(f[k - 1], s[k]) ELSE f[k - 1]

(* Among picks one element after another.                                    *)
LEMMA AmongSteps ==
  ASSUME NEW D, NEW s \in Seq(D), NEW T
  PROVE  \E f : Picks(D, s, T, f)
<1> DEFINE n == Len(s)
           V == Seq(D \intersect T)
           Unfolds(g) == g = [k \in 0 .. Len(s) |->
                          IF k = 0 THEN << >>
                          ELSE IF s[k] \in T THEN Append(g[k - 1], s[k]) ELSE g[k - 1]]
           F == CHOOSE g : Unfolds(g)
           st == [x \in (1 .. n) \X V |-> IF s[x[1]] \in T THEN Append(x[2], s[x[1]]) ELSE x[2]]
<1>0. n \in Nat OBVIOUS
<1>1. \A k \in 1 .. n : s[k] \in D OBVIOUS
<1>2. \A k \in 1 .. n : \A v \in V : st[<<k, v>>] \in V BY <1>1
<1>3. << >> \in V OBVIOUS
<1>4. \A k \in 1 .. n : \A v \in V : st[<<k, v>>] = IF s[k] \in T THEN Append(v, s[k]) ELSE v
  OBVIOUS
<1> HIDE DEF st, V, n
<1>5. Stepwise(n, V, << >>, st) BY <1>0, <1>2, <1>3, Recursion, Zenon
<1>6. PICK f \in [0 .. n -> V] : f[0] = << >> /\ \A k \in 1 .. n : f[k] = st[<<k, f[k - 1]>>]
  BY <1>5 DEF Stepwise
<1>7. \A k \in 0 .. n : f[k] = IF k = 0 THEN << >>
                          ELSE IF s[k] \in T THEN Append(f[k - 1], s[k]) ELSE f[k - 1]
  <2> TAKE k \in 0 .. n
  <2>1. CASE k = 0 BY <1>6, <2>1
  <2>2. CASE k # 0
    <3>1. k \in 1 .. n /\ k - 1 \in 0 .. n BY <1>0, <2>2
    <3>2. f[k] = st[<<k, f[k - 1]>>] /\ f[k - 1] \in V BY <1>6, <3>1
    <3> QED BY <1>4, <2>2, <3>1, <3>2
  <2> QED BY <2>1, <2>2
<1>8. Unfolds(f) BY <1>6, <1>7 DEF n
<1> HIDE DEF Unfolds
<1>9. Unfolds(F) BY <1>8, Zenon
<1> HIDE DEF F
<1>10. F = [j \in 0 .. n |-> IF j = 0 THEN << >>
                 ELSE IF s[j] \in T THEN Append(F[j - 1], s[j]) ELSE F[j - 1]]
  BY <1>9 DEF Unfolds, n
<1>11. F[0] = << >> BY <1>0, <1>10
<1>12. \A k \in 1 .. n : F[k] = IF s[k] \in T THEN Append(F[k - 1], s[k]) ELSE F[k - 1]
  <2> TAKE k \in 1 .. n
  <2>1. k \in 0 .. n /\ k # 0 BY <1>0
  <2> QED BY <1>10, <2>1
<1> DEFINE K == {k \in 0 .. n : F[k] \in V}
<1>13. 0 \in K BY <1>0, <1>3, <1>11
<1>14. ASSUME NEW k \in 1 .. n, k - 1 \in K PROVE k \in K
  <2>1. k \in 0 .. n /\ s[k] \in D BY <1>0, <1>1
  <2>2. PICK q \in V : q = F[k - 1] BY <1>14
  <2>3. s[k] \in T => Append(q, s[k]) \in V BY <2>1 DEF V
  <2>4. F[k] = IF s[k] \in T THEN Append(q, s[k]) ELSE q BY <1>12, <2>2
  <2> QED BY <2>1, <2>3, <2>4
<1> HIDE DEF K
<1>15. \A k \in 0 .. n : k \in K BY <1>0, <1>13, <1>14, UpTo
<1>16. F \in [0 .. n -> V] BY <1>10, <1>15 DEF K
<1>17. I!Among(s, T) = F[n]
  BY Zenon DEF I!Among, F, Unfolds, n
<1>18. Picks(D, s, T, F) BY <1>11, <1>12, <1>16, <1>17 DEF Picks, n, V
<1> QED BY <1>18

(* Appending after a concatenation.                                          *)
LEMMA AppendConcat ==
  ASSUME NEW U, NEW p \in Seq(U), NEW q \in Seq(U), NEW x \in U
  PROVE  p \o Append(q, x) = Append(p \o q, x)
<1>0. <<x>> \in Seq(U) OBVIOUS
<1>1. PICK d \in Seq(U) : d = <<x>> BY <1>0
<1>2. Append(q, x) = q \o d BY <1>1, AppendIsConcat
<1>3. PICK r \in Seq(U) : r = p \o q BY ConcatProperties
<1>4. Append(r, x) = r \o d BY <1>1, AppendIsConcat
<1>5. (p \o q) \o d = p \o (q \o d) BY ConcatAssociative
<1> QED BY <1>2, <1>3, <1>4, <1>5

(* The elements picked from two sequences, one after the other.              *)
Splits(D, a, b, T) ==
  /\ I!Among(a, T) \in Seq(D \intersect T) /\ I!Among(b, T) \in Seq(D \intersect T)
  /\ I!Among(a \o b, T) = I!Among(a, T) \o I!Among(b, T)
(* Among of two sequences joined.                                            *)
LEMMA AmongConcat ==
  ASSUME NEW D, NEW a \in Seq(D), NEW b \in Seq(D), NEW T
  PROVE  Splits(D, a, b, T)
<1> DEFINE c == a \o b
           V == Seq(D \intersect T)
<1>1. /\ c \in Seq(D) /\ Len(c) = Len(a) + Len(b) /\ Len(a) \in Nat /\ Len(b) \in Nat
      /\ \A i \in 1 .. Len(a) + Len(b) : c[i] = IF i <= Len(a) THEN a[i] ELSE b[i - Len(a)]
  BY ConcatProperties
<1> HIDE DEF c
<1>2. PICK f : Picks(D, a, T, f) BY AmongSteps
<1>3. PICK g : Picks(D, b, T, g) BY AmongSteps
<1>4. PICK h : Picks(D, c, T, h) BY <1>1, AmongSteps
<1>5. I!Among(a, T) = f[Len(a)] /\ f[Len(a)] \in V
  BY <1>1, <1>2 DEF Picks
<1> DEFINE K == {k \in 0 .. Len(a) : h[k] = f[k]}
           M == {k \in 0 .. Len(b) : h[Len(a) + k] = f[Len(a)] \o g[k]}
<1>6. \A k \in 0 .. Len(a) : k \in K
  <2>1. 0 \in K BY <1>1, <1>2, <1>4 DEF Picks
  <2>2. ASSUME NEW k \in 1 .. Len(a), k - 1 \in K PROVE k \in K
    <3>1. k \in 1 .. Len(c) /\ k \in 0 .. Len(a) /\ c[k] = a[k] BY <1>1
    <3> QED BY <1>2, <1>4, <2>2, <3>1 DEF Picks
  <2> HIDE DEF K
  <2> QED BY <1>1, <2>1, <2>2, UpTo
<1>7. h[Len(a)] = f[Len(a)] BY <1>1, <1>6
<1>8. \A k \in 0 .. Len(b) : k \in M
  <2>1. 0 \in M
    <3>1. f[Len(a)] \o << >> = f[Len(a)] BY <1>5
    <3>2. Len(a) + 0 = Len(a) /\ g[0] = << >> BY <1>1, <1>3 DEF Picks
    <3>3. h[Len(a) + 0] = f[Len(a)] \o g[0] BY <1>7, <3>1, <3>2
    <3>4. 0 \in 0 .. Len(b) BY <1>1
    <3> QED BY <3>3, <3>4, Zenon
  <2>2. ASSUME NEW k \in 1 .. Len(b), k - 1 \in M PROVE k \in M
    <3>1. /\ Len(a) + k \in 1 .. Len(c) /\ k \in 0 .. Len(b) /\ c[Len(a) + k] = b[k]
          /\ Len(a) + k - 1 = Len(a) + (k - 1) /\ k - 1 \in 0 .. Len(b)
      BY <1>1
    <3>2. h[Len(a) + (k - 1)] = f[Len(a)] \o g[k - 1] BY <2>2
    <3>3. g[k - 1] \in V /\ g[k] = IF b[k] \in T THEN Append(g[k - 1], b[k]) ELSE g[k - 1]
      BY <1>3, <3>1 DEF Picks
    <3>4. h[Len(a) + k] = IF b[k] \in T THEN Append(f[Len(a)] \o g[k - 1], b[k])
                          ELSE f[Len(a)] \o g[k - 1]
      <4>1. PICK x : x = Len(a) + k OBVIOUS
      <4>2. h[x] = IF c[x] \in T THEN Append(h[x - 1], c[x]) ELSE h[x - 1]
        BY <1>4, <3>1, <4>1 DEF Picks
      <4>4. x - 1 = Len(a) + (k - 1) BY <1>1, <4>1
      <4>3. c[x] = b[k] /\ h[x - 1] = f[Len(a)] \o g[k - 1] BY <3>1, <3>2, <4>1, <4>4, Zenon
      <4> QED BY <4>1, <4>2, <4>3
    <3>5. b[k] \in D OBVIOUS
    <3>6. PICK p \in V : p = f[Len(a)] BY <1>5
    <3>7. PICK q \in V : q = g[k - 1] BY <3>3
    <3>8. CASE b[k] \in T
      <4>1. Append(p \o q, b[k]) = p \o Append(q, b[k])
        <5>1. PICK x \in D \intersect T : x = b[k] BY <3>5, <3>8
        <5>3. PICK U : U = D \intersect T OBVIOUS
        <5>4. p \in Seq(U) /\ q \in Seq(U) /\ x \in U BY <5>3
        <5>2. p \o Append(q, x) = Append(p \o q, x) BY <5>4, AppendConcat
        <5> QED BY <5>1, <5>2
      <4> QED BY <3>1, <3>3, <3>4, <3>6, <3>7, <3>8, <4>1
    <3>9. CASE b[k] \notin T BY <3>1, <3>3, <3>4, <3>9
    <3> QED BY <3>8, <3>9
  <2> HIDE DEF M
  <2> QED BY <1>1, <2>1, <2>2, UpTo
<1>9. h[Len(c)] = f[Len(a)] \o g[Len(b)]
  <2>3. Len(b) \in 0 .. Len(b) BY <1>1
  <2>1. Len(b) \in M BY <1>8, <2>3, Zenon
  <2> QED BY <1>1, <2>1
<1>10. I!Among(b, T) = g[Len(b)] /\ g[Len(b)] \in V
  <2>1. Len(b) \in 0 .. Len(b) BY <1>1
  <2>2. I!Among(b, T) = g[Len(b)] /\ g \in [0 .. Len(b) -> V] BY <1>3 DEF Picks
  <2> QED BY <2>1, <2>2
<1>11. I!Among(c, T) = h[Len(c)] BY <1>4 DEF Picks
<1> QED BY <1>5, <1>9, <1>10, <1>11 DEF Splits, c, V

(* Of no element and of one.                                                 *)
LEMMA AmongOne ==
  ASSUME NEW D, NEW T, NEW x \in D
  PROVE  /\ I!Among(<< >>, T) = << >>
         /\ I!Among(<<x>>, T) = IF x \in T THEN <<x>> ELSE << >>
<1>1. << >> \in Seq(D) /\ Len(<< >>) = 0 /\ <<x>> \in Seq(D) /\ Len(<<x>>) = 1 /\ <<x>>[1] = x
  OBVIOUS
<1>2. PICK f : Picks(D, << >>, T, f) BY <1>1, AmongSteps
<1>3. PICK g : Picks(D, <<x>>, T, g) BY <1>1, AmongSteps
<1>4. g[1] = IF x \in T THEN <<x>> ELSE << >>
  <2>1. 1 \in 1 .. 1 /\ 1 - 1 = 0 /\ Append(<< >>, x) = <<x>> OBVIOUS
  <2>2. g[0] = << >> /\ g[1] = IF x \in T THEN Append(g[1 - 1], x) ELSE g[1 - 1]
    BY <1>1, <1>3, <2>1 DEF Picks
  <2> QED BY <2>1, <2>2
<1> QED BY <1>1, <1>2, <1>3, <1>4 DEF Picks

(* One element more.                                                         *)
Adds(s, x, T) ==
  I!Among(Append(s, x), T) = IF x \in T THEN Append(I!Among(s, T), x) ELSE I!Among(s, T)
(* Among of one element more.                                                *)
LEMMA AmongAppend ==
  ASSUME NEW D, NEW s \in Seq(D), NEW x \in D, NEW T
  PROVE  Adds(s, x, T)
<1>1. <<x>> \in Seq(D) /\ Append(s, x) = s \o <<x>> OBVIOUS
<1>2. PICK d \in Seq(D) : d = <<x>> BY <1>1
<1>6. Splits(D, s, d, T) BY AmongConcat
<1>3. I!Among(<<x>>, T) = IF x \in T THEN <<x>> ELSE << >> BY AmongOne
<1>4. PICK p \in Seq(D \intersect T) : p = I!Among(s, T) BY <1>6 DEF Splits
<1>5. p \o << >> = p /\ (x \in T => p \o <<x>> = Append(p, x)) OBVIOUS
<1> QED BY <1>1, <1>2, <1>3, <1>4, <1>5, <1>6 DEF Splits, Adds

(* Elements changed by a function that respects the set are picked all the   *)
(* same; elements outside of it do not matter.                               *)
Maps(s, t, T, m) ==
  I!Among(t, T) = [i \in 1 .. Len(I!Among(s, T)) |-> m[I!Among(s, T)[i]]]
(* By induction over the elements.                                           *)
LEMMA AmongMapped ==
  ASSUME NEW D, NEW s \in Seq(D), NEW t \in Seq(D), NEW T, NEW m, Len(t) = Len(s),
         \A x \in D \intersect T : m[x] \in D \intersect T,
         \A k \in 1 .. Len(s) : IF s[k] \in T THEN t[k] = m[s[k]] ELSE t[k] \notin T
  PROVE  Maps(s, t, T, m)
<1> DEFINE V == Seq(D \intersect T)
           Map(q) == [i \in 1 .. Len(q) |-> m[q[i]]]
<1>1. PICK f : Picks(D, s, T, f) BY AmongSteps
<1>2. PICK g : Picks(D, t, T, g) BY AmongSteps
<1> DEFINE K == {k \in 0 .. Len(s) : g[k] = Map(f[k])}
<1>3. 0 \in K
  <2>1. Map(<< >>) = << >> OBVIOUS
  <2> QED BY <1>1, <1>2, <2>1 DEF Picks
<1>4. ASSUME NEW k \in 1 .. Len(s), k - 1 \in K PROVE k \in K
  <2>1. k \in 0 .. Len(s) /\ k - 1 \in 0 .. Len(s) /\ s[k] \in D OBVIOUS
  <2>2. PICK q \in V : q = f[k - 1] BY <1>1, <2>1 DEF Picks
  <2>3. g[k - 1] = Map(q) BY <1>4, <2>2
  <2>4. CASE s[k] \in T
    <3>1. f[k] = Append(q, s[k]) BY <1>1, <2>2, <2>4 DEF Picks
    <3>2. m[s[k]] \in T /\ t[k] = m[s[k]] BY <2>1, <2>4
    <3>3. g[k] = Append(Map(q), m[s[k]]) BY <1>2, <2>3, <3>2 DEF Picks
    <3>4. Append(Map(q), m[s[k]]) = Map(Append(q, s[k]))
      <4>1. Len(q) \in Nat /\ Len(Append(q, s[k])) = Len(q) + 1
        OBVIOUS
      <4>2. \A i \in 1 .. Len(q) + 1 : Append(q, s[k])[i] = IF i <= Len(q) THEN q[i] ELSE s[k]
        BY <4>1
      <4>3. PICK r : r = m[s[k]] OBVIOUS
      <4>4. PICK w : w = Map(q) OBVIOUS
      <4>5. w \in Seq(D \intersect T) /\ Len(w) = Len(q) BY <4>4
      <4>6. r \in D \intersect T BY <2>1, <2>4, <4>3
      <4>12. PICK U : U = D \intersect T OBVIOUS
      <4>13. w \in Seq(U) /\ r \in U BY <4>5, <4>6, <4>12
      <4>14. Append(w, r) \in Seq(U) BY <4>13
      <4>7. PICK z \in Seq(U) : z = Append(w, r) BY <4>14
      <4>8. PICK y : y = Append(q, s[k]) OBVIOUS
      <4>9. /\ Len(z) = Len(q) + 1 /\ DOMAIN z = 1 .. Len(q) + 1
            /\ \A i \in 1 .. Len(q) + 1 : z[i] = IF i <= Len(q) THEN w[i] ELSE r
        BY <4>1, <4>5, <4>7, <4>13
      <4>10. \A i \in 1 .. Len(q) + 1 : z[i] = m[y[i]]
        <5> TAKE i \in 1 .. Len(q) + 1
        <5>1. i <= Len(q) => w[i] = m[q[i]] BY <4>1, <4>4
        <5> QED BY <4>2, <4>3, <4>8, <4>9, <5>1
      <4>11. z = Map(y)
        <5>1. z = [i \in DOMAIN z |-> z[i]] OBVIOUS
        <5> QED BY <4>1, <4>8, <4>9, <4>10, <5>1
      <4> QED BY <4>3, <4>4, <4>7, <4>8, <4>11
    <3> QED BY <2>1, <3>1, <3>3, <3>4
  <2>5. CASE s[k] \notin T
    <3>1. f[k] = q BY <1>1, <2>2, <2>5 DEF Picks
    <3>2. t[k] \notin T BY <2>5
    <3>3. g[k] = g[k - 1] BY <1>2, <3>2 DEF Picks
    <3> QED BY <2>1, <2>3, <3>1, <3>3
  <2> QED BY <2>4, <2>5
<1> HIDE DEF K
<1>5. Len(s) \in K
  <2>1. Len(s) \in Nat /\ Len(s) \in 0 .. Len(s) OBVIOUS
  <2> QED BY <1>3, <1>4, <2>1, UpTo
<1> QED BY <1>1, <1>2, <1>5 DEF Picks, K, Maps

(* In particular a sequence of which nothing in the set changed.             *)
Alike(s, t, T) == I!Among(t, T) = I!Among(s, T)
(* AmongMapped with the identity.                                            *)
LEMMA AmongSame ==
  ASSUME NEW D, NEW s \in Seq(D), NEW t \in Seq(D), NEW T, Len(t) = Len(s),
         \A k \in 1 .. Len(s) : t[k] = s[k] \/ (s[k] \notin T /\ t[k] \notin T)
  PROVE  Alike(s, t, T)
<1> DEFINE m == [x \in D |-> x]
<1>1. \A x \in D \intersect T : m[x] \in D \intersect T OBVIOUS
<1>2. \A k \in 1 .. Len(s) : IF s[k] \in T THEN t[k] = m[s[k]] ELSE t[k] \notin T
  OBVIOUS
<1>3. \A x \in D : m[x] = x OBVIOUS
<1> HIDE DEF m
<1>4. Maps(s, t, T, m)
  BY <1>1, <1>2, AmongMapped
<1>5. Splits(D, s, s, T) BY AmongConcat
<1>6. PICK p \in Seq(D \intersect T) : p = I!Among(s, T) BY <1>5 DEF Splits
<1>7. [i \in 1 .. Len(p) |-> m[p[i]]] = p
  <2>1. \A i \in 1 .. Len(p) : p[i] \in D OBVIOUS
  <2>2. [i \in 1 .. Len(p) |-> m[p[i]]] = [i \in 1 .. Len(p) |-> p[i]]
    BY <1>3, <2>1
  <2> QED BY <2>2
<1> QED BY <1>4, <1>6, <1>7 DEF Maps, Alike

(* A sequence of elements of the set is picked whole.                        *)
LEMMA AmongAll ==
  ASSUME NEW T, NEW s \in Seq(T)
  PROVE  I!Among(s, T) = s
<1>1. PICK f : Picks(T, s, T, f) BY AmongSteps
<1> DEFINE K == {k \in 0 .. Len(s) : f[k] = SubSeq(s, 1, k)}
<1>2. 0 \in K
  <2>1. SubSeq(s, 1, 0) = << >> /\ Len(s) \in Nat OBVIOUS
  <2>2. f[0] = << >> BY <1>1 DEF Picks
  <2>3. 0 \in 0 .. Len(s) /\ f[0] = SubSeq(s, 1, 0) BY <2>1, <2>2
  <2> QED BY <2>3, Zenon
<1>3. ASSUME NEW k \in 1 .. Len(s), k - 1 \in K PROVE k \in K
  <2>1. k \in 0 .. Len(s) /\ k - 1 \in 0 .. Len(s) /\ s[k] \in T OBVIOUS
  <2>2. f[k] = Append(SubSeq(s, 1, k - 1), s[k]) BY <1>1, <1>3, <2>1 DEF Picks
  <2>3. Append(SubSeq(s, 1, k - 1), s[k]) = SubSeq(s, 1, k)
    <3>1. /\ SubSeq(s, 1, k - 1) \in Seq(T) /\ Len(SubSeq(s, 1, k - 1)) = k - 1
          /\ SubSeq(s, 1, k) \in Seq(T) /\ Len(SubSeq(s, 1, k)) = k
          /\ \A i \in 1 .. k - 1 : SubSeq(s, 1, k - 1)[i] = s[i]
          /\ \A i \in 1 .. k : SubSeq(s, 1, k)[i] = s[i]
      BY <2>1
    <3>2. PICK p \in Seq(T) : p = SubSeq(s, 1, k - 1) BY <3>1
    <3>3. /\ Append(p, s[k]) \in Seq(T) /\ Len(Append(p, s[k])) = k
          /\ \A i \in 1 .. k : Append(p, s[k])[i] = IF i <= k - 1 THEN p[i] ELSE s[k]
      BY <2>1, <3>1, <3>2
    <3> QED BY <3>1, <3>2, <3>3, SeqEqual
  <2> QED BY <2>1, <2>2, <2>3
<1> HIDE DEF K
<1>4. Len(s) \in K
  <2>1. Len(s) \in Nat /\ Len(s) \in 0 .. Len(s) OBVIOUS
  <2> QED BY <1>2, <1>3, <2>1, UpTo
<1> QED BY <1>1, <1>4 DEF Picks, K

-----------------------------------------------------------------------------
(***************************************************************************)
(* TranscriptItems: what streaming built is what a load builds.            *)
(***************************************************************************)
Roles == {"user", "text", "thinking", "error", "tool", "status", "command"}
ItemSet == [role : Roles, of : SUBSET (0 .. MaxMessages), result : BOOLEAN]

(* The items a message leaves behind: its tool calls are answered.           *)
Final == {x \in I!Lasting : x.role = "tool" => x.result}

(* The item of a call of message n.                                          *)
ToolItem(n, r) == [role |-> "tool", of |-> {n}, result |-> r]
(* A result changes a call's item into the one that is answered.             *)
LEMMA ToolAnswered ==
  ASSUME NEW n PROVE [I!Item("tool", n) EXCEPT !.result = TRUE] = ToolItem(n, TRUE)
<1>1. PICK no : no = FALSE OBVIOUS
<1>2. PICK yes : yes = TRUE OBVIOUS
<1>3. I!Item("tool", n) = ToolItem(n, no) BY <1>1 DEF I!Item, ToolItem
<1>4. [ToolItem(n, no) EXCEPT !.result = yes] = ToolItem(n, yes)
  <2> HIDE <1>1, <1>2
  <2> QED BY DEF ToolItem
<1> QED BY <1>2, <1>3, <1>4, Zenon

(* What a message shows, of itself and when it is loaded.                    *)
MessageShows(m, n) ==
  /\ I!Blocks(m, n) \in Seq(Final) /\ I!Shown(m, n) \in Seq(Final)
  /\ I!Reloaded(m, n) \in Seq(Final) /\ I!Calls(m) \in Nat
(* What a message shows are items of it that last, its calls answered.       *)
LEMMA MessageTypes ==
  ASSUME I!ItemsAssumption, NEW m \in I!Message, NEW n \in 0 .. MaxMessages
  PROVE  MessageShows(m, n)
<1> DEFINE B == {"text", "thinking", "call"}
           v == I!Among(m.content, {"text", "thinking"})
           c == I!Among(m.content, {"call"})
           Entry(r, x) == [role |-> r, of |-> {n}, result |-> x]
<1>1. m.content \in Seq(B) BY DEF I!Message, I!ItemsAssumption
<1>2. PICK s \in Seq(B) : s = m.content BY <1>1
<1>3. Splits(B, s, s, {"text", "thinking"}) /\ Splits(B, s, s, {"call"}) BY AmongConcat
<1>4. v \in Seq(B \intersect {"text", "thinking"}) /\ c \in Seq(B \intersect {"call"})
  BY <1>2, <1>3 DEF Splits
<1> HIDE DEF v, c
<1>5. Len(v) \in Nat /\ DOMAIN v = 1 .. Len(v) /\ Len(c) \in Nat
      /\ \A i \in 1 .. Len(v) : v[i] \in {"text", "thinking"}
  BY <1>4
<1>6. \A r \in {"text", "thinking", "error"}, x \in BOOLEAN : Entry(r, x) \in Final
  BY DEF Final, I!Lasting
<1>7. Entry("tool", TRUE) \in Final
  BY DEF Final, I!Lasting
<1>8. I!Blocks(m, n) \in Seq(Final)
  <2>1. I!Blocks(m, n) = [i \in 1 .. Len(v) |-> Entry(v[i], FALSE)]
    BY <1>5 DEF I!Blocks, I!Item, v
  <2>2. \A i \in 1 .. Len(v) : Entry(v[i], FALSE) \in Final BY <1>5, <1>6
  <2> QED BY <1>5, <2>1, <2>2
<1>9. PICK b \in Seq(Final) : b = I!Blocks(m, n) BY <1>8
<1>10. I!Shown(m, n) \in Seq(Final)
  <2>4. PICK x \in Final : x = Entry("error", FALSE) BY <1>6
  <2>5. << >> \in Seq(Final) /\ <<x>> \in Seq(Final) OBVIOUS
  <2>1. << >> \in Seq(Final) /\ <<Entry("error", FALSE)>> \in Seq(Final) BY <2>4, <2>5
  <2>2. PICK e \in Seq(Final) : e = (IF m.stop = "ok" THEN << >> ELSE <<Entry("error", FALSE)>>)
    BY <2>1
  <2>3. b \o e \in Seq(Final) BY ConcatProperties
  <2> QED BY <1>9, <2>2, <2>3 DEF I!Shown, I!Item
<1>11. I!Calls(m) = Len(c) BY DEF I!Calls, c
<1>12. I!Reloaded(m, n) \in Seq(Final)
  <2>1. [i \in 1 .. Len(c) |-> Entry("tool", TRUE)] \in Seq(Final) /\ << >> \in Seq(Final)
    BY <1>5, <1>7
  <2>2. PICK e \in Seq(Final) :
          e = (IF m.stop = "ok" THEN [i \in 1 .. Len(c) |-> Entry("tool", TRUE)] ELSE << >>)
    BY <2>1
  <2>3. PICK s1 \in Seq(Final) : s1 = I!Shown(m, n) BY <1>10
  <2>4. s1 \o e \in Seq(Final) BY ConcatProperties
  <2>5. [I!Item("tool", n) EXCEPT !.result = TRUE] = Entry("tool", TRUE)
    BY ToolAnswered DEF ToolItem
  <2> QED BY <1>11, <2>2, <2>3, <2>4, <2>5 DEF I!Reloaded
<1> QED BY <1>5, <1>8, <1>10, <1>11, <1>12 DEF MessageShows

(* What the first n messages show when they are loaded.                      *)
Before(ms, n) ==
  LET upTo[k \in 0 .. n] ==
        IF k = 0 THEN << >>
        ELSE IF ms[k].stop = "recovered" THEN upTo[k - 1]
        ELSE upTo[k - 1] \o I!Reloaded(ms[k], k)
  IN  upTo[n]

(* The same, message by message.                                             *)
Messages == {ms \in Seq(I!Message) : Len(ms) <= MaxMessages}
Loads(ms, n, f) ==
  /\ f \in [0 .. n -> Seq(Final)] /\ f[0] = << >> /\ Before(ms, n) = f[n]
  /\ \A k \in 1 .. n : f[k] = IF ms[k].stop = "recovered" THEN f[k - 1]
                              ELSE f[k - 1] \o I!Reloaded(ms[k], k)
(* Before loads one message after another.                                   *)
LEMMA BeforeSteps ==
  ASSUME I!ItemsAssumption, NEW ms \in Messages, NEW n \in 0 .. Len(ms)
  PROVE  \E f : Loads(ms, n, f)
<1> DEFINE V == Seq(Final)
           Unfolds(g) == g = [k \in 0 .. n |->
                          IF k = 0 THEN << >>
                          ELSE IF ms[k].stop = "recovered" THEN g[k - 1]
                          ELSE g[k - 1] \o I!Reloaded(ms[k], k)]
           F == CHOOSE g : Unfolds(g)
           st == [x \in (1 .. n) \X V |-> IF ms[x[1]].stop = "recovered" THEN x[2]
                                          ELSE x[2] \o I!Reloaded(ms[x[1]], x[1])]
<1>0. n \in Nat /\ Len(ms) \in Nat /\ ms \in Seq(I!Message) /\ Len(ms) <= MaxMessages BY DEF Messages
<1>1. \A k \in 1 .. n : I!Reloaded(ms[k], k) \in V
  <2> TAKE k \in 1 .. n
  <2>1. ms[k] \in I!Message BY <1>0
  <2>2. k \in 0 .. MaxMessages BY <1>0 DEF I!ItemsAssumption
  <2>3. MessageShows(ms[k], k) BY <2>1, <2>2, MessageTypes
  <2> QED BY <2>3 DEF MessageShows
<1>2. << >> \in V /\ \A p, q \in V : p \o q \in V
  <2>1. << >> \in V OBVIOUS
  <2>2. ASSUME NEW p \in V, NEW q \in V PROVE p \o q \in V BY ConcatProperties
  <2> QED BY <2>1, <2>2
<1>3. \A k \in 1 .. n : \A v \in V : st[<<k, v>>] = IF ms[k].stop = "recovered" THEN v
                                                   ELSE v \o I!Reloaded(ms[k], k)
  OBVIOUS
<1> HIDE DEF st, V
<1>4. \A k \in 1 .. n : \A v \in V : st[<<k, v>>] \in V BY <1>1, <1>2, <1>3
<1>5. Stepwise(n, V, << >>, st) BY <1>0, <1>2, <1>4, Recursion, Zenon
<1>6. PICK f \in [0 .. n -> V] : f[0] = << >> /\ \A k \in 1 .. n : f[k] = st[<<k, f[k - 1]>>]
  BY <1>5 DEF Stepwise
<1>7. \A k \in 0 .. n : f[k] = IF k = 0 THEN << >>
                          ELSE IF ms[k].stop = "recovered" THEN f[k - 1]
                          ELSE f[k - 1] \o I!Reloaded(ms[k], k)
  <2> TAKE k \in 0 .. n
  <2>1. CASE k = 0 BY <1>6, <2>1
  <2>2. CASE k # 0
    <3>1. k \in 1 .. n /\ k - 1 \in 0 .. n BY <1>0, <2>2
    <3>2. f[k] = st[<<k, f[k - 1]>>] /\ f[k - 1] \in V BY <1>6, <3>1
    <3> QED BY <1>3, <2>2, <3>1, <3>2
  <2> QED BY <2>1, <2>2
<1>8. Unfolds(f) BY <1>6, <1>7
<1> HIDE DEF Unfolds
<1>9. Unfolds(F) BY <1>8, Zenon
<1> HIDE DEF F
<1>10. F = [k \in 0 .. n |-> IF k = 0 THEN << >>
                          ELSE IF ms[k].stop = "recovered" THEN F[k - 1]
                          ELSE F[k - 1] \o I!Reloaded(ms[k], k)]
  BY <1>9 DEF Unfolds
<1>11. F[0] = << >> BY <1>0, <1>10
<1>12. \A k \in 1 .. n : F[k] = IF ms[k].stop = "recovered" THEN F[k - 1]
                               ELSE F[k - 1] \o I!Reloaded(ms[k], k)
  <2> TAKE k \in 1 .. n
  <2>1. k \in 0 .. n /\ k # 0 BY <1>0
  <2> QED BY <1>10, <2>1
<1> DEFINE K == {k \in 0 .. n : F[k] \in V}
<1>13. 0 \in K BY <1>0, <1>2, <1>11
<1>14. ASSUME NEW k \in 1 .. n, k - 1 \in K PROVE k \in K
  <2>1. k \in 0 .. n BY <1>0
  <2> QED BY <1>1, <1>2, <1>12, <1>14, <2>1
<1> HIDE DEF K
<1>15. \A k \in 0 .. n : k \in K BY <1>0, <1>13, <1>14, UpTo
<1>16. F \in [0 .. n -> V] BY <1>10, <1>15 DEF K
<1>17. Before(ms, n) = F[n]
  BY Zenon DEF Before, F, Unfolds
<1>18. Loads(ms, n, F) BY <1>11, <1>12, <1>16, <1>17 DEF Loads, V
<1> QED BY <1>18

(* It depends on those messages only.                                        *)
Agree(ms, ns, n) == Before(ms, n) = Before(ns, n) /\ Before(ms, n) \in Seq(Final)
(* By induction over the messages.                                           *)
LEMMA BeforeAgrees ==
  ASSUME I!ItemsAssumption, NEW ms \in Messages, NEW ns \in Messages, NEW n \in 0 .. Len(ms),
         n <= Len(ns), \A k \in 1 .. n : ms[k] = ns[k]
  PROVE  Agree(ms, ns, n)
<1>0. n \in Nat /\ Len(ns) \in Nat /\ n \in 0 .. Len(ns) BY DEF Messages
<1>1. PICK f : Loads(ms, n, f) BY BeforeSteps
<1>2. PICK g : Loads(ns, n, g) BY <1>0, BeforeSteps
<1> DEFINE K == {k \in 0 .. n : f[k] = g[k]}
<1>3. 0 \in K BY <1>0, <1>1, <1>2 DEF Loads
<1>4. ASSUME NEW k \in 1 .. n, k - 1 \in K PROVE k \in K
  <2>1. k \in 0 .. n BY <1>0
  <2> QED BY <1>1, <1>2, <1>4, <2>1 DEF Loads
<1> HIDE DEF K
<1>5. n \in K
  <2>1. n \in 0 .. n BY <1>0
  <2> QED BY <1>0, <1>3, <1>4, <2>1, UpTo
<1>6. f[n] \in Seq(Final) BY <1>0, <1>1 DEF Loads
<1> QED BY <1>1, <1>2, <1>5, <1>6 DEF Loads, K, Agree

(* One message more.                                                         *)
Extends(ms, n) ==
  Before(ms, n) = IF ms[n].stop = "recovered" THEN Before(ms, n - 1)
                  ELSE Before(ms, n - 1) \o I!Reloaded(ms[n], n)
(* Before of one message more.                                               *)
LEMMA BeforeNext ==
  ASSUME I!ItemsAssumption, NEW ms \in Messages, NEW n \in 1 .. Len(ms)
  PROVE  Extends(ms, n)
<1>0. n \in Nat /\ n - 1 \in Nat /\ Len(ms) \in Nat /\ n \in 0 .. Len(ms) /\ n - 1 \in 0 .. Len(ms)
  BY DEF Messages
<1>1. PICK f : Loads(ms, n, f) BY <1>0, BeforeSteps
<1>2. PICK g : Loads(ms, n - 1, g) BY <1>0, BeforeSteps
<1> DEFINE K == {k \in 0 .. n - 1 : f[k] = g[k]}
<1>3. 0 \in K BY <1>0, <1>1, <1>2 DEF Loads
<1>4. ASSUME NEW k \in 1 .. n - 1, k - 1 \in K PROVE k \in K
  <2>1. k \in 0 .. n - 1 /\ k \in 1 .. n BY <1>0
  <2> QED BY <1>1, <1>2, <1>4, <2>1 DEF Loads
<1> HIDE DEF K
<1>5. n - 1 \in K
  <2>1. n - 1 \in 0 .. n - 1 BY <1>0
  <2> QED BY <1>0, <1>3, <1>4, <2>1, UpTo
<1>6. f[n - 1] = Before(ms, n - 1) BY <1>2, <1>5 DEF Loads, K
<1>7. n \in 1 .. n BY <1>0
<1> QED BY <1>1, <1>6, <1>7 DEF Loads, Extends

(* Of no message.                                                            *)
LEMMA BeforeNone ==
  ASSUME I!ItemsAssumption, NEW ms \in Messages
  PROVE  Before(ms, 0) = << >>
<1>1. 0 \in 0 .. Len(ms) BY DEF Messages
<1>2. PICK f : Loads(ms, 0, f) BY <1>1, BeforeSteps
<1> QED BY <1>2 DEF Loads

(* What lasts of a transcript: no user's message, command or status line.    *)
Vis(s) == I!Among(s, I!Lasting)

(* One item more, a few final ones more, and final ones only.                *)
VisAdds(s, x) == /\ Append(s, x) \in Seq(ItemSet) /\ Vis(s) \in Seq(I!Lasting)
                 /\ x.role \in {"user", "status", "command"} => Vis(Append(s, x)) = Vis(s)
                 /\ x.role \notin {"user", "status", "command"} =>
                      x \in I!Lasting /\ Vis(Append(s, x)) = Append(Vis(s), x)
(* An item more shows among those that last, or does not.                    *)
LEMMA VisAppend ==
  ASSUME NEW s \in Seq(ItemSet), NEW x \in ItemSet
  PROVE  VisAdds(s, x)
<1>1. Adds(s, x, I!Lasting) BY AmongAppend
<1>2. Append(s, x) \in Seq(ItemSet) OBVIOUS
<1>3. x \in I!Lasting <=> x.role \notin {"user", "status", "command"}
  BY DEF ItemSet, I!Lasting, Roles
<1>4. Splits(ItemSet, s, s, I!Lasting) BY AmongConcat
<1>5. ItemSet \intersect I!Lasting = I!Lasting BY DEF ItemSet, I!Lasting, Roles
<1> QED BY <1>1, <1>2, <1>3, <1>4, <1>5 DEF Adds, VisAdds, Vis, Splits

VisJoins(s, t) == s \o t \in Seq(ItemSet) /\ Vis(s \o t) = Vis(s) \o t /\ Vis(t) = t
(* Final items joined at the end all last.                                   *)
LEMMA VisConcat ==
  ASSUME NEW s \in Seq(ItemSet), NEW t \in Seq(Final)
  PROVE  VisJoins(s, t)
<1>1. t \in Seq(ItemSet) /\ t \in Seq(I!Lasting)
  <2>1. Final \subseteq ItemSet /\ Final \subseteq I!Lasting
    BY DEF Final, ItemSet, I!Lasting, Roles
  <2> QED BY <2>1
<1>2. Splits(ItemSet, s, t, I!Lasting) BY <1>1, AmongConcat
<1>3. I!Among(t, I!Lasting) = t BY <1>1, AmongAll
<1>4. s \o t \in Seq(ItemSet) BY <1>1, ConcatProperties
<1> QED BY <1>2, <1>3, <1>4 DEF Splits, VisJoins, Vis

-----------------------------------------------------------------------------
(* The values of the variables.                                              *)
ItemTypes ==
  /\ items \in Seq(ItemSet) /\ said \in Messages
  /\ start \in Nat /\ calls \in Nat /\ command \in Nat
  /\ buffer \in BOOLEAN /\ executing \in BOOLEAN /\ pending \in BOOLEAN /\ misplaced \in BOOLEAN
  /\ phase \in {"idle", "asked", "streaming", "running", "compacting", "settling"}

LatestMessage == said[Len(said)]

(* What each phase of a run has left open.  A message never begins to stream *)
(* behind a thinking item, to which its first fragment would be added.       *)
RunInv ==
  /\ buffer => phase = "streaming"
  /\ phase # "running" => calls = 0 /\ ~executing
  /\ phase \in {"running", "compacting", "settling"} => Len(said) > 0
  /\ phase = "running" =>
       /\ LatestMessage.stop \in {"ok", "error", "overflow"}
       /\ pending = (LatestMessage.stop = "overflow")
       /\ LatestMessage.stop # "ok" => calls = 0 /\ ~executing
       /\ calls <= I!Calls(LatestMessage)
       /\ executing => calls < I!Calls(LatestMessage)
       /\ LatestMessage.stop = "ok" /\ calls < I!Calls(LatestMessage) =>
            Len(items) > 0 /\ items[Len(items)].role # "thinking"
  /\ phase = "compacting" => LatestMessage.stop = "overflow"
  /\ phase \in {"idle", "settling"} => ~pending
  /\ phase = "asked" => Len(items) > 0 /\ items[Len(items)].role # "thinking"
  /\ phase = "streaming" =>
       /\ Len(said) < MaxMessages
       /\ start > 0 /\ start <= Len(items) /\ items[start].role # "thinking"

(* The items of the calls that were started, of which the last may execute.  *)
Tools(m, n, left, busy) ==
  [i \in 1 .. I!Calls(m) - left |-> ToolItem(n, ~busy \/ i < I!Calls(m) - left)]

(* Where a running command's item is, and what of the transcript is final in *)
(* each phase; while a message streams, the items before it.                 *)
CommandIsFound ==
  command > 0 => /\ command <= Len(items) /\ items[command].role = "command"
                 /\ phase = "streaming" => command <= start
ShownInv ==
  /\ phase \in {"idle", "asked", "settling"} => Vis(items) = Before(said, Len(said))
  /\ phase = "streaming" => Vis(SubSeq(items, 1, start)) = Before(said, Len(said))
  /\ phase = "running" /\ LatestMessage.stop = "ok" =>
       Vis(items) = (Before(said, Len(said) - 1) \o I!Blocks(LatestMessage, Len(said)))
                      \o Tools(LatestMessage, Len(said), calls, executing)
  /\ phase = "running" /\ LatestMessage.stop = "error" => Vis(items) = Before(said, Len(said))
  /\ phase = "compacting" \/ (phase = "running" /\ LatestMessage.stop = "overflow") =>
       Vis(items) = Before(said, Len(said) - 1)

(* The inductive invariant.                                                  *)
ItemsInv == ItemTypes /\ RunInv /\ (~misplaced => CommandIsFound /\ ShownInv)

(* When the tools are done, everything is shown as it will be loaded.        *)
LEMMA RunOver ==
  ASSUME I!ItemsAssumption, ItemTypes, RunInv, ShownInv, I!ToolsDone,
         LatestMessage.stop # "overflow"
  PROVE  Vis(items) = Before(said, Len(said))
<1> DEFINE n == Len(said)
           m == LatestMessage
<1>1. said \in Messages /\ n \in 1 .. Len(said) /\ n - 1 \in 0 .. Len(said) /\ n \in 0 .. MaxMessages
      /\ m \in I!Message /\ n - 1 <= Len(said)
  BY DEF ItemTypes, RunInv, I!ToolsDone, LatestMessage, Messages, I!ItemsAssumption
<1>2. m.stop \in {"ok", "error"} BY DEF RunInv, I!ToolsDone
<1>3. CASE m.stop = "error" BY <1>3 DEF ShownInv, I!ToolsDone
<1>4. CASE m.stop = "ok"
  <2>1. MessageShows(m, n) BY <1>1, MessageTypes
  <2>2. Extends(said, n) BY <1>1, BeforeNext
  <2>3. Agree(said, said, n - 1) BY <1>1, BeforeAgrees
  <2>4. PICK b \in Seq(Final) : b = Before(said, n - 1) BY <2>3 DEF Agree
  <2>5. PICK c \in Seq(Final) : c = I!Blocks(m, n) BY <2>1 DEF MessageShows
  <2>6. PICK d : d = [i \in 1 .. I!Calls(m) |-> ToolItem(n, TRUE)] OBVIOUS
  <2>7. ToolItem(n, TRUE) \in Final BY <1>1 DEF ToolItem, Final, I!Lasting
  <2>8. I!Calls(m) \in Nat BY <2>1 DEF MessageShows
  <2>9. d \in Seq(Final)
    <3>1. PICK x \in Final : x = ToolItem(n, TRUE) BY <2>7
    <3>2. PICK k \in Nat : k = I!Calls(m) BY <2>8
    <3>3. [i \in 1 .. k |-> x] \in Seq(Final) OBVIOUS
    <3> QED BY <2>6, <3>1, <3>2, <3>3
  <2>10. Tools(m, n, calls, executing) = d
    <3>1. calls = 0 /\ ~executing BY DEF I!ToolsDone
    <3>2. I!Calls(m) - calls = I!Calls(m) BY <2>8, <3>1
    <3> QED BY <2>6, <3>1, <3>2 DEF Tools
  <2>11. I!Shown(m, n) = c
    <3>1. I!Shown(m, n) = c \o << >> BY <1>4, <2>5 DEF I!Shown
    <3> QED BY <3>1
  <2>12. I!Reloaded(m, n) = c \o d
    <3>1. [I!Item("tool", n) EXCEPT !.result = TRUE] = ToolItem(n, TRUE) BY ToolAnswered
    <3>2. I!Reloaded(m, n) = I!Shown(m, n) \o [i \in 1 .. I!Calls(m) |-> ToolItem(n, TRUE)]
      BY <1>4, <3>1, Zenon DEF I!Reloaded
    <3> QED BY <2>6, <2>11, <3>2, Zenon
  <2>13. Before(said, n) = b \o (c \o d)
    <3>1. said[n].stop # "recovered" /\ said[n] = m BY <1>4 DEF LatestMessage
    <3>2. Before(said, n) = Before(said, n - 1) \o I!Reloaded(m, n)
      BY <2>2, <3>1 DEF Extends
    <3> QED BY <2>4, <2>12, <3>2
  <2>14. (b \o c) \o d = b \o (c \o d) BY <2>9, ConcatAssociative
  <2>15. Vis(items) = (b \o c) \o d
    BY <1>4, <2>4, <2>5, <2>10 DEF ShownInv, I!ToolsDone
  <2> QED BY <2>13, <2>14, <2>15
<1> QED BY <1>2, <1>3, <1>4

(* The beginning of a sequence of items.                                     *)
Begins(s, t, k) == /\ SubSeq(s, 1, k) \in Seq(ItemSet) /\ SubSeq(s, 1, k) = SubSeq(t, 1, k)
                   /\ Len(SubSeq(s, 1, k)) = k /\ \A i \in 1 .. k : SubSeq(s, 1, k)[i] = s[i]
(* Sequences that agree at first begin alike.                                *)
LEMMA Prefix ==
  ASSUME NEW s \in Seq(ItemSet), NEW t \in Seq(ItemSet), NEW k \in Nat, k <= Len(s), k <= Len(t),
         \A i \in 1 .. k : s[i] = t[i]
  PROVE  Begins(s, t, k)
<1>1. /\ SubSeq(s, 1, k) \in Seq(ItemSet) /\ Len(SubSeq(s, 1, k)) = k
      /\ \A i \in 1 .. k : SubSeq(s, 1, k)[i] = s[i]
  OBVIOUS
<1>2. /\ SubSeq(t, 1, k) \in Seq(ItemSet) /\ Len(SubSeq(t, 1, k)) = k
      /\ \A i \in 1 .. k : SubSeq(t, 1, k)[i] = t[i]
  OBVIOUS
<1>3. SubSeq(s, 1, k) = SubSeq(t, 1, k)
  <2>1. PICK p \in Seq(ItemSet) : p = SubSeq(s, 1, k) BY <1>1
  <2>2. PICK q \in Seq(ItemSet) : q = SubSeq(t, 1, k) BY <1>2
  <2>3. Len(p) = Len(q) /\ \A i \in 1 .. Len(p) : p[i] = q[i] BY <1>1, <1>2, <2>1, <2>2
  <2>4. p = q BY <2>3, SeqEqual
  <2> QED BY <2>1, <2>2, <2>4
<1> QED BY <1>1, <1>3 DEF Begins

(* What is known of the latest message.                                      *)
LEMMA LatestTypes ==
  ASSUME I!ItemsAssumption, ItemTypes
  PROVE  /\ Len(said) \in 0 .. MaxMessages /\ MaxMessages \in Nat /\ said \in Seq(I!Message)
         /\ I!Latest = Len(said) /\ I!Current = Len(said) + 1
         /\ Len(said) > 0 => LatestMessage \in I!Message /\ I!Calls(LatestMessage) \in Nat
<1>1. /\ Len(said) \in 0 .. MaxMessages /\ MaxMessages \in Nat /\ said \in Seq(I!Message)
      /\ Len(said) \in Nat
  BY DEF ItemTypes, Messages, I!ItemsAssumption
<1>2. ASSUME Len(said) > 0 PROVE LatestMessage \in I!Message /\ I!Calls(LatestMessage) \in Nat
  <2>1. LatestMessage \in I!Message BY <1>1, <1>2 DEF LatestMessage
  <2>2. MessageShows(LatestMessage, Len(said)) BY <1>1, <2>1, MessageTypes
  <2> QED BY <2>1, <2>2 DEF MessageShows
<1> QED BY <1>1, <1>2 DEF I!Latest, I!Current

(* An item of the transcript.                                                *)
LEMMA ItemTypesOf ==
  ASSUME NEW r \in Roles, NEW n \in 0 .. MaxMessages
  PROVE  I!Item(r, n) \in ItemSet /\ I!Item(r, n).role = r
BY DEF I!Item, ItemSet

-----------------------------------------------------------------------------
(* A run begins, or goes on with a message of the user.                      *)
LEMMA UserMessageKeeps ==
  ASSUME I!ItemsAssumption, ItemsInv, I!UserMessageEnd PROVE ItemsInv'
<1> DEFINE x == I!Item("user", Len(said) + 1)
<1>0. ItemTypes /\ RunInv BY DEF ItemsInv
<1>1. /\ Len(said) \in 0 .. MaxMessages /\ MaxMessages \in Nat /\ said \in Seq(I!Message)
      /\ I!Latest = Len(said) /\ I!Current = Len(said) + 1
  BY <1>0, LatestTypes
<1>2. /\ phase = "idle" \/ (I!ToolsDone /\ LatestMessage.stop = "ok")
      /\ Len(said) < MaxMessages /\ phase' = "asked" /\ items' = Append(items, x)
      /\ UNCHANGED <<buffer, start, said, calls, executing, pending, command, misplaced>>
  BY <1>1 DEF I!UserMessageEnd, LatestMessage
<1>3. x \in ItemSet /\ x.role = "user" BY <1>1, <1>2, ItemTypesOf DEF Roles
<1> HIDE DEF x
<1>4. VisAdds(items, x) BY <1>0, <1>3, VisAppend DEF ItemTypes
<1>5. items' \in Seq(ItemSet) /\ Vis(items') = Vis(items) BY <1>2, <1>3, <1>4 DEF VisAdds
<1>6. /\ Len(items') = Len(items) + 1 /\ items'[Len(items) + 1] = x /\ Len(items) \in Nat
      /\ \A i \in 1 .. Len(items) : items'[i] = items[i]
  BY <1>0, <1>2, <1>3 DEF ItemTypes
<1>7. ItemTypes' BY <1>0, <1>2, <1>5 DEF ItemTypes
<1>8. RunInv' BY <1>0, <1>2, <1>3, <1>6 DEF RunInv, I!ToolsDone
<1>9. ASSUME ~misplaced PROVE (CommandIsFound /\ ShownInv)'
  <2>1. CommandIsFound /\ ShownInv BY <1>9 DEF ItemsInv
  <2>2. Vis(items) = Before(said, Len(said))
    <3>1. CASE phase = "idle" BY <2>1, <3>1 DEF ShownInv
    <3>2. CASE I!ToolsDone /\ LatestMessage.stop = "ok" BY <1>0, <2>1, <3>2, RunOver
    <3> QED BY <1>2, <3>1, <3>2
  <2>3. CommandIsFound' BY <1>0, <1>2, <1>6, <2>1 DEF CommandIsFound, ItemTypes
  <2>4. ShownInv' BY <1>2, <1>5, <2>2 DEF ShownInv
  <2> QED BY <2>3, <2>4
<1> QED BY <1>2, <1>7, <1>8, <1>9 DEF ItemsInv

(* A message begins to stream behind what is final.                          *)
LEMMA MessageStartKeeps ==
  ASSUME I!ItemsAssumption, ItemsInv, I!MessageStart PROVE ItemsInv'
<1>0. ItemTypes /\ RunInv BY DEF ItemsInv
<1>1. /\ Len(said) \in 0 .. MaxMessages /\ MaxMessages \in Nat /\ said \in Seq(I!Message)
      /\ I!Latest = Len(said)
      /\ Len(said) > 0 => LatestMessage \in I!Message /\ I!Calls(LatestMessage) \in Nat
  BY <1>0, LatestTypes
<1>2. /\ \/ phase = "asked"
         \/ I!ToolsDone /\ LatestMessage.stop = "ok" /\ I!Calls(LatestMessage) > 0
      /\ Len(said) < MaxMessages /\ phase' = "streaming" /\ start' = Len(items) /\ buffer' = FALSE
      /\ UNCHANGED <<items, said, calls, executing, pending, command, misplaced>>
  BY <1>1 DEF I!MessageStart, LatestMessage
<1>3. Len(items) \in Nat /\ items \in Seq(ItemSet) BY <1>0 DEF ItemTypes
<1>4. Len(items) > 0 /\ items[Len(items)].role # "thinking"
  BY <1>0, <1>1, <1>2 DEF RunInv, I!ToolsDone
<1>5. ItemTypes' BY <1>0, <1>2, <1>3 DEF ItemTypes
<1>6. RunInv' BY <1>0, <1>2, <1>3, <1>4 DEF RunInv, I!ToolsDone
<1>7. ASSUME ~misplaced PROVE (CommandIsFound /\ ShownInv)'
  <2>1. CommandIsFound /\ ShownInv BY <1>7 DEF ItemsInv
  <2>2. Vis(items) = Before(said, Len(said))
    <3>1. CASE phase = "asked" BY <2>1, <3>1 DEF ShownInv
    <3>2. CASE I!ToolsDone /\ LatestMessage.stop = "ok" BY <1>0, <2>1, <3>2, RunOver
    <3> QED BY <1>2, <3>1, <3>2
  <2>3. SubSeq(items, 1, Len(items)) = items BY <1>3
  <2>4. CommandIsFound' BY <1>2, <2>1 DEF CommandIsFound
  <2>5. ShownInv' BY <1>2, <2>2, <2>3 DEF ShownInv
  <2> QED BY <2>4, <2>5
<1> QED BY <1>2, <1>5, <1>6, <1>7 DEF ItemsInv

(* A fragment of text is kept aside.                                         *)
LEMMA TextDeltaKeeps ==
  ASSUME ItemsInv, I!TextDelta PROVE ItemsInv'
<1>1. ItemTypes' BY DEF ItemsInv, ItemTypes, I!TextDelta
<1>2. RunInv' BY DEF ItemsInv, ItemTypes, RunInv, I!TextDelta, LatestMessage
<1>3. ~misplaced => (CommandIsFound /\ ShownInv)'
  BY DEF ItemsInv, CommandIsFound, ShownInv, I!TextDelta, LatestMessage
<1> QED BY <1>1, <1>2, <1>3 DEF ItemsInv, I!TextDelta

(* A fragment of thinking changes an item of the message, or adds one.       *)
LEMMA ThinkingDeltaKeeps ==
  ASSUME I!ItemsAssumption, ItemsInv, I!ThinkingDelta PROVE ItemsInv'
<1> DEFINE x == I!Item("thinking", Len(said) + 1)
           last == items[Len(items)]
           y == [last EXCEPT !.of = @ \union {Len(said) + 1}]
<1>0. ItemTypes /\ RunInv BY DEF ItemsInv
<1>1. /\ Len(said) \in 0 .. MaxMessages /\ MaxMessages \in Nat
      /\ I!Latest = Len(said) /\ I!Current = Len(said) + 1
  BY <1>0, LatestTypes
<1>2. /\ phase = "streaming" /\ phase' = "streaming"
      /\ UNCHANGED <<buffer, start, said, calls, executing, pending, command, misplaced>>
  BY DEF I!ThinkingDelta
<1>3. /\ Len(said) < MaxMessages /\ start > 0 /\ start <= Len(items) /\ start \in Nat
      /\ items[start].role # "thinking" /\ Len(items) \in Nat /\ items \in Seq(ItemSet)
  BY <1>0, <1>2 DEF RunInv, ItemTypes
<1>4. items' = IF last.role = "thinking" THEN [items EXCEPT ![Len(items)] = y]
               ELSE Append(items, x)
  BY <1>1, <1>3 DEF I!ThinkingDelta
<1>5. x \in ItemSet BY <1>1, <1>3, ItemTypesOf DEF Roles
<1>6. last \in ItemSet /\ y \in ItemSet
  <2>1. last \in ItemSet BY <1>3
  <2> HIDE DEF last
  <2> QED BY <1>1, <1>3, <2>1 DEF ItemSet
<1> HIDE DEF x, y
<1>7. /\ items' \in Seq(ItemSet) /\ start <= Len(items')
      /\ \A i \in 1 .. start : items'[i] = items[i]
  <2>1. CASE last.role = "thinking"
    <3>1. start < Len(items) BY <1>3, <2>1
    <3>2. items' = [items EXCEPT ![Len(items)] = y] BY <1>4, <2>1
    <3> QED BY <1>3, <1>6, <3>1, <3>2
  <2>2. CASE last.role # "thinking" BY <1>3, <1>4, <1>5, <2>2
  <2> QED BY <2>1, <2>2
<1>8. ItemTypes' BY <1>0, <1>2, <1>7 DEF ItemTypes
<1>9. RunInv' BY <1>0, <1>2, <1>3, <1>7 DEF RunInv
<1>10. Begins(items', items, start) BY <1>3, <1>7, Prefix
<1>11. ASSUME ~misplaced PROVE (CommandIsFound /\ ShownInv)'
  <2>1. CommandIsFound /\ ShownInv BY <1>11 DEF ItemsInv
  <2>2. CommandIsFound' BY <1>0, <1>2, <1>3, <1>7, <2>1 DEF CommandIsFound, ItemTypes
  <2>3. ShownInv' BY <1>2, <1>10, <2>1 DEF ShownInv, Begins
  <2> QED BY <2>2, <2>3
<1> QED BY <1>2, <1>8, <1>9, <1>11 DEF ItemsInv

(* A message ends: what streamed of it gives way to the message.             *)
LEMMA MessageEndKeeps ==
  ASSUME I!ItemsAssumption, ItemsInv, NEW m \in I!Message, m.stop \in {"ok", "error", "overflow"},
         I!MessageEnd(m)
  PROVE  ItemsInv'
<1> DEFINE n == Len(said)
           p == SubSeq(items, 1, start)
           more == IF m.stop = "overflow" THEN << >> ELSE I!Shown(m, n + 1)
<1>0. ItemTypes /\ RunInv BY DEF ItemsInv
<1>1. /\ n \in 0 .. MaxMessages /\ MaxMessages \in Nat /\ said \in Seq(I!Message)
      /\ I!Latest = n /\ I!Current = n + 1
  BY <1>0, LatestTypes
<1>2. /\ phase = "streaming" /\ phase' = "running" /\ said' = Append(said, m)
      /\ items' = p \o more /\ pending' = (m.stop = "overflow")
      /\ calls' = (IF m.stop = "ok" THEN I!Calls(m) ELSE 0)
      /\ start' = 0 /\ buffer' = FALSE
      /\ UNCHANGED <<executing, command, misplaced>>
  BY <1>1 DEF I!MessageEnd
<1>3. /\ n < MaxMessages /\ start <= Len(items) /\ start \in Nat /\ items \in Seq(ItemSet)
      /\ Len(items) \in Nat /\ calls = 0 /\ ~executing /\ start > 0
  BY <1>0, <1>2 DEF RunInv, ItemTypes
<1>4. MessageShows(m, n + 1) BY <1>1, <1>3, MessageTypes
<1>5. PICK e \in Seq(Final) : e = more
  <2>1. << >> \in Seq(Final) OBVIOUS
  <2> QED BY <1>4, <2>1 DEF MessageShows
<1>6. Begins(items, items, start) BY <1>3, Prefix
<1>7. PICK q \in Seq(ItemSet) : q = p BY <1>6 DEF Begins
<1>8. VisJoins(q, e) BY VisConcat
<1> HIDE DEF more, p
<1>9. items' = q \o e /\ items' \in Seq(ItemSet) /\ Vis(items') = Vis(p) \o e
  BY <1>2, <1>5, <1>7, <1>8 DEF VisJoins
<1>10. /\ said' \in Messages /\ Len(said') = n + 1 /\ said'[n + 1] = m /\ LatestMessage' = m
       /\ \A k \in 1 .. n : said'[k] = said[k]
  BY <1>1, <1>2, <1>3 DEF Messages, LatestMessage
<1>11. I!Calls(m) \in Nat BY <1>4 DEF MessageShows
<1>12. ItemTypes' BY <1>0, <1>2, <1>9, <1>10, <1>11 DEF ItemTypes
<1>13. RunInv'
  <2>1. pending' = (LatestMessage'.stop = "overflow") BY <1>2, <1>10
  <2>2. calls' \in Nat /\ calls' <= I!Calls(m) /\ (m.stop = "ok" => calls' = I!Calls(m))
    BY <1>2, <1>11
  <2>3. ~executing' BY <1>2, <1>3
  <2> QED BY <1>1, <1>2, <1>10, <1>11, <2>1, <2>2, <2>3 DEF RunInv
<1>14. ASSUME ~misplaced PROVE (CommandIsFound /\ ShownInv)'
  <2>1. CommandIsFound /\ ShownInv BY <1>14 DEF ItemsInv
  <2>2. Vis(p) = Before(said, n) BY <1>2, <2>1 DEF ShownInv, p
  <2>3. Agree(said', said, n)
    <3>1. said \in Messages BY <1>0 DEF ItemTypes
    <3>2. n \in 0 .. Len(said') /\ n <= Len(said) BY <1>1, <1>10
    <3>3. PICK ms \in Messages : ms = said' BY <1>10
    <3>4. Agree(ms, said, n) BY <1>10, <3>1, <3>2, <3>3, BeforeAgrees
    <3> QED BY <3>3, <3>4
  <2>4. PICK b \in Seq(Final) : b = Before(said', n) /\ b = Vis(p) BY <2>2, <2>3 DEF Agree
  <2>5. Vis(items') = b \o e BY <1>9, <2>4
  <2>6. CommandIsFound'
    <3>1. command > 0 => command \in 1 .. start
      BY <1>0, <1>2, <2>1 DEF CommandIsFound, ItemTypes
    <3>2. Len(q) = start /\ \A i \in 1 .. start : q[i] = items[i] BY <1>6, <1>7 DEF Begins, p
    <3>3. Len(items') >= start /\ \A i \in 1 .. start : items'[i] = items[i]
      <4>1. Final \subseteq ItemSet BY DEF Final, I!Lasting, ItemSet, Roles
      <4>2. e \in Seq(ItemSet) BY <4>1
      <4>3. /\ Len(q \o e) = Len(q) + Len(e) /\ Len(e) \in Nat
            /\ \A i \in 1 .. Len(q) + Len(e) : (q \o e)[i] = IF i <= Len(q) THEN q[i] ELSE e[i - Len(q)]
        BY <4>2, ConcatProperties
      <4> QED BY <1>3, <1>9, <3>2, <4>3
    <3> QED BY <1>0, <1>2, <2>1, <3>1, <3>3 DEF CommandIsFound, ItemTypes
  <2>7. CASE m.stop = "ok"
    <3>1. I!Shown(m, n + 1) = I!Blocks(m, n + 1)
      <4>1. PICK c \in Seq(Final) : c = I!Blocks(m, n + 1) BY <1>4 DEF MessageShows
      <4>2. c \o << >> = c OBVIOUS
      <4> QED BY <2>7, <4>1, <4>2 DEF I!Shown
    <3>2. Tools(m, n + 1, calls', executing') = << >>
      <4>1. I!Calls(m) - calls' = 0 BY <1>2, <1>11, <2>7
      <4> QED BY <4>1 DEF Tools
    <3>3. (b \o e) \o << >> = b \o e
      <4>1. b \o e \in Seq(Final) BY ConcatProperties
      <4> QED BY <4>1
    <3>4. e = I!Blocks(m, n + 1) BY <1>5, <2>7, <3>1 DEF more
    <3>5. Vis(items') = (Before(said', n) \o I!Blocks(m, n + 1))
                          \o Tools(m, n + 1, calls', executing')
      BY <2>4, <2>5, <3>2, <3>3, <3>4
    <3>6. Len(said') - 1 = n BY <1>1, <1>10
    <3> QED BY <1>2, <1>10, <2>6, <2>7, <3>5, <3>6 DEF ShownInv
  <2>8. CASE m.stop = "error"
    <3>1. Extends(said', n + 1)
      <4>1. PICK ms \in Messages : ms = said' BY <1>10
      <4>2. n + 1 \in 1 .. Len(ms) BY <1>1, <1>10, <4>1
      <4> QED BY <4>1, <4>2, BeforeNext
    <3>2. n + 1 - 1 = n BY <1>1
    <3>3. Before(said', n + 1) = Before(said', n) \o I!Reloaded(m, n + 1)
      BY <1>10, <2>8, <3>1, <3>2 DEF Extends
    <3>4. I!Reloaded(m, n + 1) = e
      <4>1. e = I!Shown(m, n + 1) BY <1>5, <2>8 DEF more
      <4>2. e \o << >> = e OBVIOUS
      <4> QED BY <2>8, <4>1, <4>2 DEF I!Reloaded
    <3>5. Vis(items') = Before(said', n + 1) BY <2>4, <2>5, <3>3, <3>4
    <3> QED BY <1>2, <1>10, <2>6, <2>8, <3>5 DEF ShownInv
  <2>9. CASE m.stop = "overflow"
    <3>1. b \o e = b
      <4>1. e = << >> BY <1>5, <2>9 DEF more
      <4> QED BY <4>1
    <3>2. Len(said') - 1 = n BY <1>1, <1>10
    <3>3. Vis(items') = Before(said', Len(said') - 1) BY <2>4, <2>5, <3>1, <3>2
    <3> QED BY <1>2, <1>10, <2>6, <2>9, <3>3 DEF ShownInv
  <2> QED BY <2>7, <2>8, <2>9
<1> QED BY <1>2, <1>12, <1>13, <1>14 DEF ItemsInv

(* A call starts: its item comes last.                                       *)
LEMMA ToolStartKeeps ==
  ASSUME I!ItemsAssumption, ItemsInv, I!ToolStart PROVE ItemsInv'
<1> DEFINE n == Len(said)
           m == LatestMessage
           x == I!Item("tool", n)
<1>0. ItemTypes /\ RunInv BY DEF ItemsInv
<1>1. /\ n \in 0 .. MaxMessages /\ I!Latest = n
      /\ n > 0 => m \in I!Message /\ I!Calls(m) \in Nat
  BY <1>0, LatestTypes
<1>2. /\ phase = "running" /\ calls > 0 /\ ~executing /\ ~buffer
      /\ items' = Append(items, x) /\ buffer' = FALSE /\ executing' = TRUE /\ calls' = calls - 1
      /\ UNCHANGED <<start, said, pending, phase, command, misplaced>>
  BY <1>0, <1>1 DEF I!ToolStart, I!Flushed, RunInv
<1>3. x \in ItemSet /\ x.role = "tool"
  BY <1>1, ItemTypesOf DEF Roles
<1>12. x = ToolItem(n, FALSE) BY DEF I!Item, ToolItem
<1> HIDE DEF x
<1>4. n > 0 /\ m.stop = "ok" /\ calls <= I!Calls(m) /\ calls \in Nat /\ I!Calls(m) \in Nat
  BY <1>0, <1>1, <1>2 DEF RunInv, ItemTypes
<1>5. VisAdds(items, x) BY <1>0, <1>3, VisAppend DEF ItemTypes
<1>6. /\ items' \in Seq(ItemSet) /\ Vis(items) \in Seq(I!Lasting) /\ x \in I!Lasting
      /\ Vis(items') = Append(Vis(items), x)
  BY <1>2, <1>3, <1>5 DEF VisAdds
<1>7. /\ Len(items') = Len(items) + 1 /\ items'[Len(items) + 1] = x /\ Len(items) \in Nat
      /\ \A i \in 1 .. Len(items) : items'[i] = items[i]
  BY <1>0, <1>2, <1>3 DEF ItemTypes
<1>13. calls' \in Nat /\ executing' \in BOOLEAN /\ buffer' \in BOOLEAN
  <2>1. calls' \in Nat BY <1>2, <1>4
  <2> QED BY <1>2, <2>1, Zenon
<1>8. ItemTypes' BY <1>0, <1>2, <1>6, <1>13 DEF ItemTypes
<1>9. LatestMessage' = m BY <1>2 DEF LatestMessage
<1>10. RunInv'
  <2>1. executing' /\ ~buffer' /\ calls' < I!Calls(m) /\ phase' = "running" BY <1>2, <1>4
  <2>2. Len(items') > 0 /\ items'[Len(items')].role # "thinking" BY <1>3, <1>7
  <2>3. pending' = (m.stop = "overflow") /\ m.stop \in {"ok", "error", "overflow"}
    BY <1>0, <1>2 DEF RunInv
  <2>4. Len(said') > 0 /\ calls' <= I!Calls(m) BY <1>2, <1>4
  <2> QED BY <1>4, <1>9, <2>1, <2>2, <2>3, <2>4 DEF RunInv
<1>11. ASSUME ~misplaced PROVE (CommandIsFound /\ ShownInv)'
  <2>1. CommandIsFound /\ ShownInv BY <1>11 DEF ItemsInv
  <2>2. CommandIsFound' BY <1>0, <1>2, <1>7, <2>1 DEF CommandIsFound, ItemTypes
  <2>3. PICK a \in Seq(Final) : a = Before(said, n - 1)
    <3>1. n - 1 \in 0 .. Len(said) /\ n - 1 <= Len(said) /\ said \in Messages
      BY <1>0, <1>1, <1>4 DEF ItemTypes
    <3>2. Agree(said, said, n - 1) BY <3>1, BeforeAgrees
    <3> QED BY <3>2 DEF Agree
  <2>4. PICK c \in Seq(Final) : c = I!Blocks(m, n)
    <3>1. MessageShows(m, n) BY <1>1, <1>4, MessageTypes
    <3> QED BY <3>1 DEF MessageShows
  <2>5. PICK k \in Nat : k = I!Calls(m) - calls BY <1>4
  <2>6. PICK d : d = [i \in 1 .. k |-> ToolItem(n, TRUE)] OBVIOUS
  <2>7. Tools(m, n, calls, executing) = d BY <1>2, <2>5, <2>6 DEF Tools
  <2>8. ToolItem(n, TRUE) \in I!Lasting /\ Final \subseteq I!Lasting
    BY <1>1 DEF ToolItem, I!Lasting, Final
  <2>9. d \in Seq(I!Lasting) /\ Len(d) = k /\ a \in Seq(I!Lasting) /\ c \in Seq(I!Lasting)
    <3>1. PICK y \in I!Lasting : y = ToolItem(n, TRUE) BY <2>8
    <3>2. [i \in 1 .. k |-> y] \in Seq(I!Lasting) /\ Len([i \in 1 .. k |-> y]) = k OBVIOUS
    <3>3. a \in Seq(I!Lasting) /\ c \in Seq(I!Lasting) BY <2>8
    <3> QED BY <2>6, <3>1, <3>2, <3>3
  <2>10. Tools(m, n, calls', executing') = Append(d, x)
    <3>1. I!Calls(m) - calls' = k + 1 BY <1>2, <1>4, <2>5
    <3>2. Tools(m, n, calls', executing') = [i \in 1 .. k + 1 |-> ToolItem(n, i < k + 1)]
      BY <1>2, <3>1 DEF Tools
    <3>7. Append(d, x) \in Seq(I!Lasting) BY <1>6, <2>9
    <3>3. PICK z \in Seq(I!Lasting) : z = Append(d, x) BY <3>7
    <3>4. /\ Len(z) = k + 1 /\ DOMAIN z = 1 .. k + 1
          /\ \A i \in 1 .. k + 1 : z[i] = IF i <= k THEN d[i] ELSE x
      BY <1>6, <2>9, <3>3
    <3>5. ASSUME NEW i \in 1 .. k + 1 PROVE z[i] = ToolItem(n, i < k + 1)
      <4>1. CASE i <= k
        <5>3. i \in 1 .. k /\ z[i] = d[i] BY <3>4, <4>1
        <5>4. \A j \in 1 .. k : d[j] = ToolItem(n, TRUE) BY <2>6, Zenon
        <5>1. z[i] = ToolItem(n, TRUE) BY <5>3, <5>4
        <5>2. (i < k + 1) = TRUE BY <4>1
        <5> QED BY <5>1, <5>2
      <4>2. CASE ~(i <= k)
        <5>1. z[i] = ToolItem(n, FALSE) BY <1>12, <3>4, <4>2
        <5>2. (i < k + 1) = FALSE BY <4>2
        <5> QED BY <5>1, <5>2
      <4> QED BY <4>1, <4>2
    <3>6. z = [i \in 1 .. k + 1 |-> ToolItem(n, i < k + 1)]
      <4>1. z = [i \in DOMAIN z |-> z[i]] OBVIOUS
      <4> HIDE DEF ToolItem
      <4> QED BY <3>4, <3>5, <4>1
    <3> QED BY <3>2, <3>3, <3>6
  <2>11. PICK w \in Seq(I!Lasting) : w = a \o c BY <2>9, ConcatProperties
  <2>12. Vis(items) = w \o d
    BY <1>2, <1>4, <2>1, <2>3, <2>4, <2>7, <2>11 DEF ShownInv
  <2>13. w \o Append(d, x) = Append(w \o d, x) BY <1>6, <2>9, AppendConcat
  <2>14. Vis(items') = (Before(said, n - 1) \o I!Blocks(m, n)) \o Tools(m, n, calls', executing')
    BY <1>6, <2>3, <2>4, <2>10, <2>11, <2>12, <2>13
  <2>15. ShownInv' BY <1>2, <1>4, <1>9, <2>14 DEF ShownInv
  <2> QED BY <2>2, <2>15
<1> QED BY <1>2, <1>8, <1>10, <1>11 DEF ItemsInv

(* A result reaches the item of its call, wherever it is.                    *)
LEMMA ToolEndKeeps ==
  ASSUME I!ItemsAssumption, ItemsInv, I!ToolEnd PROVE ItemsInv'
<1> DEFINE n == Len(said)
           m == LatestMessage
           Answered(x) == IF x.role = "tool" /\ n \in x.of THEN [x EXCEPT !.result = TRUE] ELSE x
           g == [x \in ItemSet |-> Answered(x)]
<1>0. ItemTypes /\ RunInv BY DEF ItemsInv
<1>1. /\ n \in 0 .. MaxMessages /\ I!Latest = n
      /\ n > 0 => m \in I!Message /\ I!Calls(m) \in Nat
  BY <1>0, LatestTypes
<1>2. /\ phase = "running" /\ executing /\ executing' = FALSE
      /\ items' = [i \in DOMAIN items |-> Answered(items[i])]
      /\ UNCHANGED <<buffer, start, said, calls, pending, phase, command, misplaced>>
  BY <1>1 DEF I!ToolEnd
<1>3. n > 0 /\ m.stop = "ok" /\ calls < I!Calls(m) /\ calls \in Nat /\ I!Calls(m) \in Nat
  BY <1>0, <1>1, <1>2 DEF RunInv, ItemTypes
<1>4. \A x \in ItemSet : /\ Answered(x) \in ItemSet /\ Answered(x).role = x.role
                         /\ x.role = "tool" /\ n \in x.of => Answered(x).result = TRUE
  <2> TAKE x \in ItemSet
  <2>1. PICK yes \in BOOLEAN : yes = TRUE OBVIOUS
  <2>2. PICK y : y = [x EXCEPT !.result = yes] OBVIOUS
  <2>3. y \in ItemSet /\ y.role = x.role /\ y.result = yes BY <2>2 DEF ItemSet
  <2> QED BY <2>1, <2>2, <2>3
<1>5. \A x \in ItemSet : g[x] = Answered(x) OBVIOUS
<1>6. \A x \in Final : Answered(x) = x
  <2> TAKE x \in Final
  <2>1. x \in ItemSet BY DEF Final, I!Lasting, ItemSet, Roles
  <2>2. CASE x.role = "tool"
    <3>1. x.result = TRUE BY <2>1, <2>2, Zenon DEF Final, I!Lasting
    <3>2. PICK yes \in BOOLEAN : yes = TRUE OBVIOUS
    <3>3. PICK y : y = [x EXCEPT !.result = yes] OBVIOUS
    <3>4. x.result = yes BY <3>1, <3>2
    <3>5. y = x BY <2>1, <3>3, <3>4 DEF ItemSet
    <3> QED BY <3>2, <3>3, <3>5
  <2>3. CASE x.role # "tool" BY <2>3
  <2> QED BY <2>2, <2>3
<1>7. \A r \in BOOLEAN : Answered(ToolItem(n, r)) = ToolItem(n, TRUE)
  <2> TAKE r \in BOOLEAN
  <2>1. PICK yes : yes = TRUE OBVIOUS
  <2>2. PICK x : x = ToolItem(n, r) OBVIOUS
  <2>3. x.role = "tool" /\ n \in x.of BY <2>2 DEF ToolItem
  <2>4. [x EXCEPT !.result = yes] = ToolItem(n, yes) BY <2>2 DEF ToolItem
  <2> QED BY <2>1, <2>2, <2>3, <2>4
<1> HIDE DEF Answered, g
<1>8. items \in Seq(ItemSet) /\ DOMAIN items = 1 .. Len(items) /\ Len(items) \in Nat
  BY <1>0 DEF ItemTypes
<1>9. /\ items' \in Seq(ItemSet) /\ Len(items') = Len(items)
      /\ \A i \in 1 .. Len(items) : items'[i] = Answered(items[i]) /\ items'[i].role = items[i].role
  BY <1>2, <1>4, <1>8
<1>10. ItemTypes'
  <2>1. executing' \in BOOLEAN BY <1>2, Zenon
  <2> QED BY <1>0, <1>2, <1>9, <2>1 DEF ItemTypes
<1>11. RunInv'
  <2>1. LatestMessage' = m BY <1>2 DEF LatestMessage
  <2>2. Len(items') > 0 /\ items'[Len(items')].role # "thinking"
    <3>1. Len(items) > 0 /\ items[Len(items)].role # "thinking"
      BY <1>0, <1>2, <1>3 DEF RunInv
    <3> QED BY <1>8, <1>9, <3>1
  <2> QED BY <1>0, <1>2, <1>3, <2>1, <2>2 DEF RunInv
<1>12. ASSUME ~misplaced PROVE (CommandIsFound /\ ShownInv)'
  <2>1. CommandIsFound /\ ShownInv BY <1>12 DEF ItemsInv
  <2>2. CommandIsFound' BY <1>0, <1>2, <1>8, <1>9, <2>1 DEF CommandIsFound, ItemTypes
  <2>3. Maps(items, items', I!Lasting, g)
    <3>1. \A x \in ItemSet : x \in I!Lasting <=> x.role \notin {"user", "status", "command"}
      BY DEF ItemSet, I!Lasting, Roles
    <3>2. \A x \in ItemSet \intersect I!Lasting : g[x] \in ItemSet \intersect I!Lasting
      BY <1>4, <1>5, <3>1
    <3>3. \A k \in 1 .. Len(items) : IF items[k] \in I!Lasting THEN items'[k] = g[items[k]]
                                     ELSE items'[k] \notin I!Lasting
      <4> TAKE k \in 1 .. Len(items)
      <4>1. items[k] \in ItemSet /\ items'[k] \in ItemSet BY <1>8, <1>9
      <4> QED BY <1>5, <1>9, <3>1, <4>1
    <3>4. PICK t \in Seq(ItemSet) : t = items' BY <1>9
    <3>5. Maps(items, t, I!Lasting, g) BY <1>8, <1>9, <3>2, <3>3, <3>4, AmongMapped
    <3> QED BY <3>4, <3>5
  <2>4. PICK a \in Seq(Final) : a = Before(said, n - 1)
    <3>1. n - 1 \in 0 .. Len(said) /\ n - 1 <= Len(said) /\ said \in Messages
      BY <1>0, <1>1, <1>3 DEF ItemTypes
    <3>2. Agree(said, said, n - 1) BY <3>1, BeforeAgrees
    <3> QED BY <3>2 DEF Agree
  <2>5. PICK c \in Seq(Final) : c = I!Blocks(m, n)
    <3>1. MessageShows(m, n) BY <1>1, <1>3, MessageTypes
    <3> QED BY <3>1 DEF MessageShows
  <2>6. PICK k \in Nat : k = I!Calls(m) - calls BY <1>3
  <2>7. PICK d : d = [i \in 1 .. k |-> ToolItem(n, i < k)] OBVIOUS
  <2>8. PICK h : h = [i \in 1 .. k |-> ToolItem(n, TRUE)] OBVIOUS
  <2>9. Tools(m, n, calls, executing) = d BY <1>2, <2>6, <2>7 DEF Tools
  <2>10. Tools(m, n, calls', executing') = h BY <1>2, <2>6, <2>8 DEF Tools
  <2>11. PICK w \in Seq(Final) : w = a \o c BY ConcatProperties
  <2>12. Vis(items) = w \o d
    BY <1>2, <1>3, <2>1, <2>4, <2>5, <2>9, <2>11 DEF ShownInv
  <2>13. \A r \in BOOLEAN : ToolItem(n, r) \in ItemSet
    BY <1>1 DEF ToolItem, ItemSet, Roles
  <2>14. Final \subseteq ItemSet BY DEF Final, I!Lasting, ItemSet, Roles
  <2>15. d \in Seq(ItemSet) /\ Len(d) = k /\ h \in Seq(ItemSet) /\ Len(h) = k /\ w \in Seq(ItemSet)
    <3>1. \A i \in 1 .. k : ToolItem(n, i < k) \in ItemSet
      <4> TAKE i \in 1 .. k
      <4>1. (i < k) \in BOOLEAN OBVIOUS
      <4> QED BY <2>13, <4>1, Zenon
    <3>2. [i \in 1 .. k |-> ToolItem(n, i < k)] \in Seq(ItemSet) BY <3>1
    <3>3. PICK x \in ItemSet : x = ToolItem(n, TRUE) BY <2>13
    <3>4. [i \in 1 .. k |-> x] \in Seq(ItemSet) OBVIOUS
    <3>5. Len(d) = k /\ Len(h) = k BY <2>7, <2>8
    <3>6. d \in Seq(ItemSet) BY <2>7, <3>2
    <3>7. h \in Seq(ItemSet) BY <2>8, <3>3, <3>4
    <3>8. w \in Seq(ItemSet) BY <2>14
    <3> QED BY <3>5, <3>6, <3>7, <3>8
  <2>16. PICK u \in Seq(ItemSet) : u = w \o d BY <2>15, ConcatProperties
  <2>17. PICK v \in Seq(ItemSet) : v = w \o h BY <2>15, ConcatProperties
  <2>18. /\ Len(u) = Len(w) + k /\ Len(v) = Len(w) + k /\ Len(w) \in Nat
         /\ \A i \in 1 .. Len(w) + k : u[i] = IF i <= Len(w) THEN w[i] ELSE d[i - Len(w)]
         /\ \A i \in 1 .. Len(w) + k : v[i] = IF i <= Len(w) THEN w[i] ELSE h[i - Len(w)]
    <3>1. /\ Len(w \o d) = Len(w) + Len(d) /\ Len(w) \in Nat
          /\ \A i \in 1 .. Len(w) + Len(d) :
               (w \o d)[i] = IF i <= Len(w) THEN w[i] ELSE d[i - Len(w)]
      BY <2>15, ConcatProperties
    <3>2. /\ Len(w \o h) = Len(w) + Len(h)
          /\ \A i \in 1 .. Len(w) + Len(h) :
               (w \o h)[i] = IF i <= Len(w) THEN w[i] ELSE h[i - Len(w)]
      BY <2>15, ConcatProperties
    <3>3. /\ Len(u) = Len(w) + k /\ Len(w) \in Nat
          /\ \A i \in 1 .. Len(w) + k : u[i] = IF i <= Len(w) THEN w[i] ELSE d[i - Len(w)]
      BY <2>15, <2>16, <3>1
    <3>4. /\ Len(v) = Len(w) + k
          /\ \A i \in 1 .. Len(w) + k : v[i] = IF i <= Len(w) THEN w[i] ELSE h[i - Len(w)]
      BY <2>15, <2>17, <3>2
    <3> QED BY <3>3, <3>4
  <2>19. ASSUME NEW i \in 1 .. Len(u) PROVE g[u[i]] = v[i]
    <3>1. i \in 1 .. Len(w) + k /\ g[u[i]] = Answered(u[i]) BY <1>5, <2>18
    <3>2. CASE i <= Len(w)
      <4>1. w[i] \in Final BY <2>18, <3>1, <3>2
      <4>2. u[i] = w[i] /\ v[i] = w[i] BY <2>18, <3>1, <3>2
      <4> QED BY <1>6, <3>1, <4>1, <4>2
    <3>3. CASE ~(i <= Len(w))
      <4>1. i - Len(w) \in 1 .. k BY <2>18, <3>1, <3>3
      <4>2. u[i] = d[i - Len(w)] /\ v[i] = h[i - Len(w)] BY <2>18, <3>1, <3>3
      <4>3. PICK j \in 1 .. k : j = i - Len(w) BY <4>1
      <4>4. d[j] = ToolItem(n, j < k) BY <2>7, Zenon
      <4>5. h[j] = ToolItem(n, TRUE) BY <2>8, Zenon
      <4>6. (j < k) \in BOOLEAN OBVIOUS
      <4>7. Answered(ToolItem(n, j < k)) = ToolItem(n, TRUE) BY <1>7, <4>6, Zenon
      <4> QED BY <3>1, <4>2, <4>3, <4>4, <4>5, <4>7
    <3> QED BY <3>2, <3>3
  <2>20. Vis(items') = [i \in 1 .. Len(u) |-> g[u[i]]]
    BY <2>3, <2>12, <2>16 DEF Maps, Vis
  <2>21. [i \in 1 .. Len(u) |-> g[u[i]]] = v
    <3>1. v = [i \in 1 .. Len(v) |-> v[i]] OBVIOUS
    <3> QED BY <2>18, <2>19, <3>1
  <2>22. Vis(items') = (Before(said, n - 1) \o I!Blocks(m, n)) \o Tools(m, n, calls', executing')
    BY <2>4, <2>5, <2>10, <2>11, <2>17, <2>20, <2>21
  <2>23. LatestMessage' = m BY <1>2 DEF LatestMessage
  <2>24. ShownInv' BY <1>2, <1>3, <2>22, <2>23 DEF ShownInv
  <2> QED BY <2>2, <2>24
<1> QED BY <1>2, <1>10, <1>11, <1>12 DEF ItemsInv

(* A status line does not matter.                                            *)
LEMMA CompactionStartKeeps ==
  ASSUME I!ItemsAssumption, ItemsInv, I!CompactionStart PROVE ItemsInv'
<1> DEFINE x == I!Item("status", Len(said))
<1>0. ItemTypes /\ RunInv BY DEF ItemsInv
<1>1. /\ Len(said) \in 0 .. MaxMessages /\ I!Latest = Len(said) BY <1>0, LatestTypes
<1>2. /\ phase = "running" /\ LatestMessage.stop = "overflow" /\ phase' = "compacting"
      /\ items' = Append(items, x)
      /\ UNCHANGED <<buffer, start, said, calls, executing, pending, command, misplaced>>
  BY <1>1 DEF I!CompactionStart, LatestMessage
<1>3. x \in ItemSet /\ x.role = "status" BY <1>1, ItemTypesOf DEF Roles
<1> HIDE DEF x
<1>4. VisAdds(items, x) BY <1>0, <1>3, VisAppend DEF ItemTypes
<1>5. items' \in Seq(ItemSet) /\ Vis(items') = Vis(items) BY <1>2, <1>3, <1>4 DEF VisAdds
<1>6. /\ Len(items') = Len(items) + 1 /\ Len(items) \in Nat
      /\ \A i \in 1 .. Len(items) : items'[i] = items[i]
  BY <1>0, <1>2, <1>3 DEF ItemTypes
<1>7. ItemTypes' BY <1>0, <1>2, <1>5 DEF ItemTypes
<1>8. LatestMessage' = LatestMessage BY <1>2 DEF LatestMessage
<1>9. RunInv' BY <1>0, <1>2, <1>8 DEF RunInv
<1>10. ASSUME ~misplaced PROVE (CommandIsFound /\ ShownInv)'
  <2>1. CommandIsFound /\ ShownInv BY <1>10 DEF ItemsInv
  <2>2. CommandIsFound' BY <1>0, <1>2, <1>6, <2>1 DEF CommandIsFound, ItemTypes
  <2>3. ShownInv' BY <1>2, <1>5, <2>1 DEF ShownInv
  <2> QED BY <2>2, <2>3
<1> QED BY <1>2, <1>7, <1>9, <1>10 DEF ItemsInv

(* The failure of a compaction shows the error it held back; its success     *)
(* takes the message out of what is loaded.                                  *)
LEMMA CompactionEndKeeps ==
  ASSUME I!ItemsAssumption, ItemsInv, I!CompactionEnd PROVE ItemsInv'
<1> DEFINE n == Len(said)
           m == LatestMessage
<1>0. ItemTypes /\ RunInv BY DEF ItemsInv
<1>1. /\ n \in 0 .. MaxMessages /\ MaxMessages \in Nat /\ said \in Seq(I!Message)
      /\ I!Latest = n
      /\ n > 0 => m \in I!Message
  BY <1>0, LatestTypes
<1>2. /\ phase = "compacting" /\ n > 0 /\ m.stop = "overflow" /\ calls = 0 /\ ~executing /\ ~buffer
      /\ UNCHANGED <<buffer, start, calls, executing, command, misplaced>>
  BY <1>0 DEF RunInv, I!CompactionEnd
<1>3. said \in Messages /\ items \in Seq(ItemSet) /\ Len(items) \in Nat BY <1>0 DEF ItemTypes
<1>4. MessageShows(m, n) BY <1>1, <1>2, MessageTypes
<1>5. n \in 1 .. Len(said) /\ n - 1 \in 0 .. Len(said) /\ n - 1 <= Len(said) BY <1>1, <1>2
<1>6. CASE items' = items \o I!Shown(said[I!Latest], I!Latest) /\ pending' = FALSE
           /\ phase' = "settling" /\ UNCHANGED said
  <2>1. PICK e \in Seq(Final) : e = I!Shown(m, n) BY <1>4 DEF MessageShows
  <2>2. items' = items \o e BY <1>1, <1>6, <2>1 DEF LatestMessage
  <2>3. VisJoins(items, e) BY <1>3, VisConcat
  <2>4. items' \in Seq(ItemSet) /\ Vis(items') = Vis(items) \o e BY <2>2, <2>3 DEF VisJoins
  <2>5. ItemTypes' BY <1>0, <1>2, <1>6, <2>4 DEF ItemTypes
  <2>6. RunInv' BY <1>2, <1>6 DEF RunInv
  <2>7. ASSUME ~misplaced PROVE (CommandIsFound /\ ShownInv)'
    <3>1. CommandIsFound /\ ShownInv BY <2>7 DEF ItemsInv
    <3>2. Vis(items) = Before(said, n - 1) BY <1>2, <3>1 DEF ShownInv
    <3>3. Len(items') >= Len(items) /\ \A i \in 1 .. Len(items) : items'[i] = items[i]
      <4>1. Final \subseteq ItemSet BY DEF Final, I!Lasting, ItemSet, Roles
      <4>2. e \in Seq(ItemSet) BY <4>1
      <4>3. /\ Len(items \o e) = Len(items) + Len(e) /\ Len(e) \in Nat
            /\ \A i \in 1 .. Len(items) + Len(e) :
                 (items \o e)[i] = IF i <= Len(items) THEN items[i] ELSE e[i - Len(items)]
        BY <1>3, <4>2, ConcatProperties
      <4> QED BY <1>3, <2>2, <4>3
    <3>4. CommandIsFound'
      BY <1>0, <1>2, <1>3, <1>6, <3>1, <3>3 DEF CommandIsFound, ItemTypes
    <3>5. I!Reloaded(m, n) = e
      <4>1. e \o << >> = e OBVIOUS
      <4> QED BY <1>2, <2>1, <4>1 DEF I!Reloaded
    <3>6. Extends(said, n) BY <1>3, <1>5, BeforeNext
    <3>7. Before(said, n) = Before(said, n - 1) \o e
      BY <1>2, <3>5, <3>6 DEF Extends, LatestMessage
    <3>8. Vis(items') = Before(said, n) BY <2>4, <3>2, <3>7
    <3>9. ShownInv' BY <1>6, <3>8 DEF ShownInv
    <3> QED BY <3>4, <3>9
  <2> QED BY <1>2, <2>5, <2>6, <2>7 DEF ItemsInv
<1>7. CASE items' = Append(items, I!Item("status", I!Latest))
           /\ said' = [said EXCEPT ![I!Latest].stop = "recovered"]
           /\ phase' = "asked" /\ UNCHANGED pending
  <2> DEFINE x == I!Item("status", n)
  <2>1. x \in ItemSet /\ x.role = "status" BY <1>1, ItemTypesOf DEF Roles
  <2>2. items' = Append(items, x) BY <1>1, <1>7
  <2> HIDE DEF x
  <2>3. VisAdds(items, x) BY <1>3, <2>1, VisAppend
  <2>4. items' \in Seq(ItemSet) /\ Vis(items') = Vis(items) BY <2>1, <2>2, <2>3 DEF VisAdds
  <2>5. /\ Len(items') = Len(items) + 1 /\ items'[Len(items) + 1] = x
        /\ \A i \in 1 .. Len(items) : items'[i] = items[i]
    BY <1>3, <2>1, <2>2
  <2>6. /\ said' \in Messages /\ Len(said') = n /\ said'[n].stop = "recovered"
        /\ \A k \in 1 .. n - 1 : said'[k] = said[k]
    <3>1. PICK gone : gone = "recovered" OBVIOUS
    <3>2. PICK y : y = [m EXCEPT !.stop = gone] OBVIOUS
    <3>3. y \in I!Message /\ y.stop = gone
      <4>1. m \in [content : Contents, stop : {"ok", "error", "overflow", "recovered"}]
        BY <1>1, <1>2 DEF I!Message
      <4>2. gone \in {"ok", "error", "overflow", "recovered"} BY <3>1
      <4> QED BY <3>2, <4>1, <4>2 DEF I!Message
    <3>4. said' = [said EXCEPT ![n] = y]
      <4>1. said' = [said EXCEPT ![n].stop = gone] BY <1>1, <1>7, <3>1
      <4> QED BY <3>2, <4>1 DEF LatestMessage
    <3>5. said' \in Seq(I!Message) /\ Len(said') = n /\ said'[n] = y
          /\ \A k \in 1 .. n - 1 : said'[k] = said[k]
      BY <1>1, <1>5, <3>3, <3>4
    <3> QED BY <1>1, <3>1, <3>3, <3>5 DEF Messages
  <2>7. ItemTypes' BY <1>0, <1>2, <1>7, <2>4, <2>6 DEF ItemTypes
  <2>8. RunInv'
    <3>1. Len(items') > 0 /\ items'[Len(items')].role # "thinking" BY <1>3, <2>1, <2>5
    <3> QED BY <1>2, <1>7, <3>1 DEF RunInv
  <2>9. ASSUME ~misplaced PROVE (CommandIsFound /\ ShownInv)'
    <3>1. CommandIsFound /\ ShownInv BY <2>9 DEF ItemsInv
    <3>2. Vis(items) = Before(said, n - 1) BY <1>2, <3>1 DEF ShownInv
    <3>3. CommandIsFound'
      BY <1>0, <1>2, <1>3, <1>7, <2>5, <3>1 DEF CommandIsFound, ItemTypes
    <3>4. PICK ms \in Messages : ms = said' BY <2>6
    <3>5. n \in 1 .. Len(ms) /\ n - 1 \in 0 .. Len(ms) BY <1>5, <2>6, <3>4
    <3>6. Extends(ms, n) BY <3>5, BeforeNext
    <3>7. Agree(ms, said, n - 1) BY <1>3, <1>5, <2>6, <3>4, <3>5, BeforeAgrees
    <3>8. Before(said', n) = Before(said, n - 1)
      BY <2>6, <3>4, <3>6, <3>7 DEF Extends, Agree
    <3>9. Vis(items') = Before(said', Len(said')) BY <2>4, <2>6, <3>2, <3>8
    <3>10. ShownInv' BY <1>7, <3>9 DEF ShownInv
    <3> QED BY <3>3, <3>10
  <2> QED BY <1>2, <2>7, <2>8, <2>9 DEF ItemsInv
<1> QED BY <1>6, <1>7 DEF I!CompactionEnd

(* A run that settles leaves nothing behind.                                 *)
LEMMA SettledKeeps ==
  ASSUME I!ItemsAssumption, ItemsInv, I!Settled PROVE ItemsInv'
<1>0. ItemTypes /\ RunInv BY DEF ItemsInv
<1>1. I!Latest = Len(said) BY <1>0, LatestTypes
<1>2. /\ phase = "settling" \/ (I!ToolsDone /\ LatestMessage.stop # "overflow")
      /\ buffer' = FALSE /\ pending' = FALSE /\ phase' = "idle"
      /\ UNCHANGED <<start, said, calls, executing, command, misplaced>>
  BY <1>1 DEF I!Settled, LatestMessage
<1>3. ~buffer /\ ~pending /\ calls = 0 /\ ~executing /\ phase # "streaming"
  BY <1>0, <1>2 DEF RunInv, I!ToolsDone
<1>4. items' = items BY <1>3 DEF I!Settled, I!Flushed
<1>5. ItemTypes' BY <1>0, <1>2, <1>4 DEF ItemTypes
<1>6. RunInv' BY <1>2, <1>3 DEF RunInv
<1>7. ASSUME ~misplaced PROVE (CommandIsFound /\ ShownInv)'
  <2>1. CommandIsFound /\ ShownInv BY <1>7 DEF ItemsInv
  <2>2. CommandIsFound' BY <1>2, <1>4, <2>1 DEF CommandIsFound
  <2>3. Vis(items) = Before(said, Len(said))
    <3>1. CASE phase = "settling" BY <2>1, <3>1 DEF ShownInv
    <3>2. CASE I!ToolsDone /\ LatestMessage.stop # "overflow" BY <1>0, <2>1, <3>2, RunOver
    <3> QED BY <1>2, <3>1, <3>2
  <2>4. ShownInv' BY <1>2, <1>4, <2>3 DEF ShownInv
  <2> QED BY <2>2, <2>4
<1> QED BY <1>2, <1>5, <1>6, <1>7 DEF ItemsInv

(* A session that is loaded again shows its messages.                        *)
LEMMA ReloadKeeps ==
  ASSUME I!ItemsAssumption, ItemsInv, I!Reload PROVE ItemsInv'
<1>0. ItemTypes /\ RunInv BY DEF ItemsInv
<1>1. /\ phase = "idle" /\ buffer' = FALSE /\ misplaced' = (command > 0)
      /\ UNCHANGED <<start, said, calls, executing, pending, phase, command>>
  BY DEF I!Reload, I!run
<1>2. items' = Before(said, Len(said)) BY DEF I!Reload, I!Resumed, I!Latest, Before
<1>3. said \in Messages /\ Len(said) \in 0 .. Len(said) /\ Len(said) <= Len(said)
  BY <1>0 DEF ItemTypes, Messages
<1>4. Agree(said, said, Len(said)) BY <1>3, BeforeAgrees
<1>5. PICK t \in Seq(Final) : t = items' BY <1>2, <1>4 DEF Agree
<1>6. VisJoins(items, t) BY <1>0, VisConcat DEF ItemTypes
<1>7. t \in Seq(ItemSet)
  <2>1. Final \subseteq ItemSet BY DEF Final, I!Lasting, ItemSet, Roles
  <2> QED BY <2>1
<1>8. ItemTypes'
  <2>1. misplaced' \in BOOLEAN BY <1>0, <1>1 DEF ItemTypes
  <2> QED BY <1>0, <1>1, <1>5, <1>7, <2>1 DEF ItemTypes
<1>9. RunInv' BY <1>0, <1>1 DEF RunInv
<1>10. ASSUME ~misplaced' PROVE (CommandIsFound /\ ShownInv)'
  <2>1. ~(command' > 0) BY <1>1, <1>10
  <2>2. Vis(items') = Before(said', Len(said')) BY <1>1, <1>2, <1>5, <1>6 DEF VisJoins
  <2> QED BY <1>1, <2>1, <2>2 DEF CommandIsFound, ShownInv
<1> QED BY <1>8, <1>9, <1>10 DEF ItemsInv

(* A command adds its item, behind the last one.                             *)
LEMMA CommandStartKeeps ==
  ASSUME I!ItemsAssumption, ItemsInv, I!CommandStart PROVE ItemsInv'
<1> DEFINE x == I!Item("command", 0)
<1>0. ItemTypes /\ RunInv BY DEF ItemsInv
<1>1. /\ items' = Append(items, x) /\ command' = Len(items) + 1
      /\ misplaced' = (misplaced \/ phase = "streaming")
      /\ UNCHANGED <<buffer, start, said, calls, executing, pending, phase>>
  BY DEF I!CommandStart, I!run
<1>2. x \in ItemSet /\ x.role = "command"
  <2>1. 0 \in 0 .. MaxMessages /\ "command" \in Roles BY DEF I!ItemsAssumption, Roles
  <2> QED BY <2>1, ItemTypesOf
<1> HIDE DEF x
<1>3. VisAdds(items, x) BY <1>0, <1>2, VisAppend DEF ItemTypes
<1>4. items' \in Seq(ItemSet) /\ Vis(items') = Vis(items) BY <1>1, <1>2, <1>3 DEF VisAdds
<1>5. /\ Len(items') = Len(items) + 1 /\ Len(items) \in Nat /\ items'[Len(items) + 1] = x
      /\ \A i \in 1 .. Len(items) : items'[i] = items[i]
  BY <1>0, <1>1, <1>2 DEF ItemTypes
<1>6. ItemTypes'
  <2>1. misplaced' \in BOOLEAN /\ command' \in Nat BY <1>0, <1>1, <1>5 DEF ItemTypes
  <2> QED BY <1>0, <1>1, <1>4, <2>1 DEF ItemTypes
<1>7. LatestMessage' = LatestMessage BY <1>1 DEF LatestMessage
<1>8. RunInv'
  <2>1. items'[Len(items')].role # "thinking" /\ Len(items') > 0 BY <1>2, <1>5
  <2>2. phase = "streaming" => start > 0 /\ start <= Len(items') /\ items'[start] = items[start]
    BY <1>0, <1>5 DEF RunInv, ItemTypes
  <2> QED BY <1>0, <1>1, <1>7, <2>1, <2>2 DEF RunInv
<1>9. ASSUME ~misplaced' PROVE (CommandIsFound /\ ShownInv)'
  <2>1. ~misplaced /\ phase # "streaming" BY <1>1, <1>9
  <2>2. ShownInv BY <2>1 DEF ItemsInv
  <2>3. CommandIsFound' BY <1>1, <1>2, <1>5, <2>1 DEF CommandIsFound
  <2>4. ShownInv' BY <1>1, <1>4, <1>7, <2>1, <2>2 DEF ShownInv
  <2> QED BY <2>3, <2>4
<1> QED BY <1>6, <1>8, <1>9 DEF ItemsInv

(* A command that ends writes into its own item.                             *)
LEMMA CommandEndKeeps ==
  ASSUME I!ItemsAssumption, ItemsInv, I!CommandEnd PROVE ItemsInv'
<1>0. ItemTypes /\ RunInv BY DEF ItemsInv
<1>1. /\ command > 0 /\ command' = 0
      /\ UNCHANGED <<buffer, start, said, calls, executing, pending, phase, misplaced>>
  BY DEF I!CommandEnd, I!run
<1>2. items \in Seq(ItemSet) /\ Len(items) \in Nat /\ command \in Nat BY <1>0 DEF ItemTypes
<1>3. /\ items' \in Seq(ItemSet) /\ Len(items') = Len(items)
      /\ \A i \in 1 .. Len(items) : /\ i # command => items'[i] = items[i]
                                    /\ items'[i].role = items[i].role
  <2>1. CASE command > Len(items) BY <1>2, <2>1 DEF I!CommandEnd
  <2>2. CASE ~(command > Len(items))
    <3>1. command \in 1 .. Len(items) BY <1>1, <1>2, <2>2
    <3>2. PICK yes \in BOOLEAN : yes = TRUE OBVIOUS
    <3>3. PICK x \in ItemSet : x = items[command] BY <1>2, <3>1
    <3>4. PICK y : y = [x EXCEPT !.of = @ \union {0}, !.result = yes] OBVIOUS
    <3>5. y \in ItemSet /\ y.role = x.role
      <4>1. x.of \union {0} \in SUBSET (0 .. MaxMessages)
        BY <3>3 DEF ItemSet, I!ItemsAssumption
      <4> QED BY <3>3, <3>4, <4>1 DEF ItemSet
    <3>6. items' = [items EXCEPT ![command] = y]
      <4>1. items' = [items EXCEPT ![command].of = @ \union {0}, ![command].result = yes]
        BY <2>2, <3>2 DEF I!CommandEnd
      <4> QED BY <1>2, <3>1, <3>3, <3>4, <4>1
    <3> QED BY <1>2, <3>1, <3>3, <3>5, <3>6
  <2> QED BY <2>1, <2>2
<1>4. ItemTypes' BY <1>0, <1>1, <1>3 DEF ItemTypes
<1>5. LatestMessage' = LatestMessage BY <1>1 DEF LatestMessage
<1>6. RunInv'
  <2>1. Len(items) > 0 => items'[Len(items')].role = items[Len(items)].role BY <1>2, <1>3
  <2>2. phase = "streaming" => items'[start].role = items[start].role
    BY <1>0, <1>2, <1>3 DEF RunInv, ItemTypes
  <2> QED BY <1>0, <1>1, <1>3, <1>5, <2>1, <2>2 DEF RunInv
<1>7. ASSUME ~misplaced PROVE (CommandIsFound /\ ShownInv)'
  <2>1. CommandIsFound /\ ShownInv BY <1>7 DEF ItemsInv
  <2>2. command \in 1 .. Len(items) /\ items[command].role = "command"
    BY <1>1, <1>2, <2>1 DEF CommandIsFound
  <2>3. \A i \in 1 .. Len(items) :
          items'[i] = items[i] \/ (items[i] \notin I!Lasting /\ items'[i] \notin I!Lasting)
    <3>1. \A x \in I!Lasting : x.role # "command" BY DEF I!Lasting
    <3> QED BY <1>3, <2>2, <3>1
  <2>4. PICK t \in Seq(ItemSet) : t = items' BY <1>3
  <2>5. Alike(items, t, I!Lasting) BY <1>2, <1>3, <2>3, <2>4, AmongSame
  <2>6. Vis(items') = Vis(items) BY <2>4, <2>5 DEF Alike, Vis
  <2>7. ASSUME phase = "streaming"
        PROVE  Vis(SubSeq(items', 1, start)) = Vis(SubSeq(items, 1, start))
    <3>1. start \in Nat /\ start <= Len(items) BY <1>0, <2>7 DEF RunInv, ItemTypes
    <3>2. Begins(items, items, start) /\ Begins(t, t, start) BY <1>2, <1>3, <2>4, <3>1, Prefix
    <3>3. PICK p \in Seq(ItemSet) : p = SubSeq(items, 1, start) BY <3>2 DEF Begins
    <3>4. PICK q \in Seq(ItemSet) : q = SubSeq(t, 1, start) BY <3>2 DEF Begins
    <3>5. /\ Len(q) = Len(p)
          /\ \A k \in 1 .. Len(p) : q[k] = p[k] \/ (p[k] \notin I!Lasting /\ q[k] \notin I!Lasting)
      BY <1>2, <2>3, <2>4, <3>1, <3>2, <3>3, <3>4 DEF Begins
    <3>6. Alike(p, q, I!Lasting) BY <3>5, AmongSame
    <3> QED BY <2>4, <3>3, <3>4, <3>6 DEF Alike, Vis
  <2>8. ShownInv' BY <1>1, <1>5, <2>1, <2>6, <2>7 DEF ShownInv
  <2>9. CommandIsFound' BY <1>1 DEF CommandIsFound
  <2> QED BY <2>8, <2>9
<1> QED BY <1>1, <1>4, <1>6, <1>7 DEF ItemsInv

(* The invariant is inductive.                                               *)
LEMMA ItemsNext ==
  ASSUME I!ItemsAssumption, ItemsInv, [I!Next]_(I!vars) PROVE ItemsInv'
<1>1. CASE I!UserMessageEnd BY <1>1, UserMessageKeeps
<1>2. CASE I!MessageStart BY <1>2, MessageStartKeeps
<1>3. CASE I!TextDelta BY <1>3, TextDeltaKeeps
<1>4. CASE I!ThinkingDelta BY <1>4, ThinkingDeltaKeeps
<1>5. ASSUME NEW c \in Contents, NEW s \in {"ok", "error", "overflow"},
             I!MessageEnd([content |-> c, stop |-> s])
      PROVE  ItemsInv'
  <2>1. [content |-> c, stop |-> s] \in I!Message BY DEF I!Message
  <2>2. PICK m \in I!Message : m = [content |-> c, stop |-> s] BY <2>1
  <2>3. m.stop \in {"ok", "error", "overflow"} BY <2>2
  <2>4. I!MessageEnd(m) BY <1>5, <2>2
  <2> QED BY <2>3, <2>4, MessageEndKeeps
<1>6. CASE I!ToolStart BY <1>6, ToolStartKeeps
<1>7. CASE I!ToolEnd BY <1>7, ToolEndKeeps
<1>8. CASE I!CompactionStart BY <1>8, CompactionStartKeeps
<1>9. CASE I!CompactionEnd BY <1>9, CompactionEndKeeps
<1>10. CASE I!Settled BY <1>10, SettledKeeps
<1>11. CASE I!Reload BY <1>11, ReloadKeeps
<1>12. CASE I!CommandStart BY <1>12, CommandStartKeeps
<1>13. CASE I!CommandEnd BY <1>13, CommandEndKeeps
<1>14. CASE UNCHANGED I!vars
  <2>1. UNCHANGED <<items, start, buffer, said, calls, executing, pending, phase, command, misplaced>>
    BY <1>14 DEF I!vars, I!run
  <2>2. ItemTypes' BY <2>1 DEF ItemsInv, ItemTypes
  <2>3. RunInv' BY <2>1 DEF ItemsInv, RunInv, LatestMessage
  <2>4. ~misplaced => (CommandIsFound /\ ShownInv)'
    BY <2>1 DEF ItemsInv, CommandIsFound, ShownInv, LatestMessage
  <2> QED BY <2>1, <2>2, <2>3, <2>4 DEF ItemsInv
<1> QED BY <1>1, <1>2, <1>3, <1>4, <1>5, <1>6, <1>7, <1>8, <1>9, <1>10, <1>11, <1>12, <1>13, <1>14
        DEF I!Next

(* A transcript that is empty.                                               *)
LEMMA ItemsInit ==
  ASSUME I!ItemsAssumption, I!Init PROVE ItemsInv
<1>1. /\ items = << >> /\ said = << >> /\ start = 0 /\ calls = 0 /\ command = 0 /\ buffer = FALSE
      /\ executing = FALSE /\ pending = FALSE /\ misplaced = FALSE /\ phase = "idle"
  BY DEF I!Init
<1>2. items \in Seq(ItemSet) /\ said \in Messages /\ Len(said) = 0
  BY <1>1 DEF I!ItemsAssumption, Messages
<1>3. ItemTypes
  <2>1. buffer \in BOOLEAN /\ executing \in BOOLEAN /\ pending \in BOOLEAN /\ misplaced \in BOOLEAN
    BY <1>1, Zenon
  <2> QED BY <1>1, <1>2, <2>1 DEF ItemTypes
<1>4. RunInv BY <1>1 DEF RunInv
<1>5. ShownInv
  <2>1. Before(said, 0) = << >> BY <1>2, BeforeNone
  <2>2. << >> \in Seq(I!Lasting) OBVIOUS
  <2>3. Vis(items) = << >> BY <1>1, <2>2, AmongAll DEF Vis
  <2> QED BY <1>1, <1>2, <2>1, <2>3 DEF ShownInv
<1>6. CommandIsFound BY <1>1 DEF CommandIsFound
<1> QED BY <1>3, <1>4, <1>5, <1>6 DEF ItemsInv

(* Once a run has settled, the items that streaming built are those the same *)
(* messages show when the session is loaded again, unless a command's item   *)
(* is in the way: TuiEventAdapter.apply against TuiState.load_messages.      *)
THEOREM LiveIsAlwaysReloaded == Spec => []LiveIsReloaded
<1>1. Init => ItemsInv
  BY PartsAssumption, ItemsInit DEF Init
<1>2. ASSUME ItemsInv, [Next]_vars PROVE ItemsInv'
  <2>1. [I!Next]_(I!vars)
    BY <1>2 DEF Next, vars, itemVars, I!vars, I!run
  <2> QED BY <1>2, <2>1, PartsAssumption, ItemsNext
<1>3. ItemsInv => LiveIsReloaded
  <2>1. I!Resumed = Before(said, Len(said)) BY DEF I!Resumed, I!Latest, Before
  <2> QED BY <2>1 DEF ItemsInv, ShownInv, LiveIsReloaded, I!LiveIsReloaded, Vis
<1> QED BY <1>1, <1>2, <1>3, PTL DEF Spec

-----------------------------------------------------------------------------
(***************************************************************************)
(* TranscriptWindow: the rows of a stretch of items.                         *)
(***************************************************************************)
WindowItems == [id : Nat, thinking : BOOLEAN]
\* rows of items, and all rows: those of a streamed message are active
ItemRows    == [of : Nat, thinking : BOOLEAN, active : {FALSE}]
WindowRows  == [of : Nat, thinking : BOOLEAN, active : BOOLEAN]

(* RowsOf, item by item.                                                     *)
Mounts(its, visible, f) ==
  /\ f \in [0 .. Len(its) -> Seq(ItemRows)]
  /\ f[0] = << >> /\ W!RowsOf(its, visible) = f[Len(its)]
  /\ \A k \in 1 .. Len(its) :
       f[k] = IF W!Shows(its, k, visible) THEN Append(f[k - 1], W!Row(its[k])) ELSE f[k - 1]

(* RowsOf mounts one item after another.                                     *)
LEMMA RowsSteps ==
  ASSUME NEW its \in Seq(WindowItems), NEW visible
  PROVE  \E f : Mounts(its, visible, f)
<1> DEFINE n == Len(its)
           V == Seq(ItemRows)
           Unfolds(g) == g = [k \in 0 .. Len(its) |->
                          IF k = 0 THEN << >>
                          ELSE IF W!Shows(its, k, visible) THEN Append(g[k - 1], W!Row(its[k])) ELSE g[k - 1]]
           F == CHOOSE g : Unfolds(g)
           st == [x \in (1 .. n) \X V |-> IF W!Shows(its, x[1], visible)
                                          THEN Append(x[2], W!Row(its[x[1]])) ELSE x[2]]
<1>0. n \in Nat OBVIOUS
<1>1. \A k \in 1 .. n : W!Row(its[k]) \in ItemRows
  <2> TAKE k \in 1 .. n
  <2>1. its[k] \in WindowItems OBVIOUS
  <2> QED BY <2>1 DEF W!Row, ItemRows, WindowItems
<1>2. \A k \in 1 .. n : \A v \in V : st[<<k, v>>] \in V BY <1>1
<1>3. << >> \in V OBVIOUS
<1>4. \A k \in 1 .. n : \A v \in V :
        st[<<k, v>>] = IF W!Shows(its, k, visible) THEN Append(v, W!Row(its[k])) ELSE v
  OBVIOUS
<1> HIDE DEF st, V, n
<1>5. Stepwise(n, V, << >>, st) BY <1>0, <1>2, <1>3, Recursion, Zenon
<1>6. PICK f \in [0 .. n -> V] : f[0] = << >> /\ \A k \in 1 .. n : f[k] = st[<<k, f[k - 1]>>]
  BY <1>5 DEF Stepwise
<1>7. \A k \in 0 .. n : f[k] = IF k = 0 THEN << >>
                          ELSE IF W!Shows(its, k, visible) THEN Append(f[k - 1], W!Row(its[k])) ELSE f[k - 1]
  <2> TAKE k \in 0 .. n
  <2>1. CASE k = 0 BY <1>6, <2>1
  <2>2. CASE k # 0
    <3>1. k \in 1 .. n /\ k - 1 \in 0 .. n BY <1>0, <2>2
    <3>2. f[k] = st[<<k, f[k - 1]>>] /\ f[k - 1] \in V BY <1>6, <3>1
    <3> QED BY <1>4, <2>2, <3>1, <3>2
  <2> QED BY <2>1, <2>2
<1>8. Unfolds(f) BY <1>6, <1>7 DEF n
<1> HIDE DEF Unfolds
<1>9. Unfolds(F) BY <1>8, Zenon
<1> HIDE DEF F
<1>10. F = [j \in 0 .. n |-> IF j = 0 THEN << >>
                 ELSE IF W!Shows(its, j, visible) THEN Append(F[j - 1], W!Row(its[j])) ELSE F[j - 1]]
  BY <1>9 DEF Unfolds, n
<1>11. F[0] = << >> BY <1>0, <1>10
<1>12. \A k \in 1 .. n : F[k] = IF W!Shows(its, k, visible) THEN Append(F[k - 1], W!Row(its[k])) ELSE F[k - 1]
  <2> TAKE k \in 1 .. n
  <2>1. k \in 0 .. n /\ k # 0 BY <1>0
  <2> QED BY <1>10, <2>1
<1> DEFINE K == {k \in 0 .. n : F[k] \in V}
<1>13. 0 \in K BY <1>0, <1>3, <1>11
<1>14. ASSUME NEW k \in 1 .. n, k - 1 \in K PROVE k \in K
  <2>1. k \in 0 .. n /\ W!Row(its[k]) \in ItemRows BY <1>0, <1>1
  <2>2. PICK q \in V : q = F[k - 1] BY <1>14
  <2>3. Append(q, W!Row(its[k])) \in V BY <2>1 DEF V
  <2>4. F[k] = IF W!Shows(its, k, visible) THEN Append(q, W!Row(its[k])) ELSE q BY <1>12, <2>2
  <2> QED BY <2>1, <2>3, <2>4
<1> HIDE DEF K
<1>15. \A k \in 0 .. n : k \in K BY <1>0, <1>13, <1>14, UpTo
<1>16. F \in [0 .. n -> V] BY <1>10, <1>15 DEF K
<1>17. W!RowsOf(its, visible) = F[n]
  BY Zenon DEF W!RowsOf, F, Unfolds, n
<1>18. Mounts(its, visible, F) BY <1>11, <1>12, <1>16, <1>17 DEF Mounts, n, V
<1> QED BY <1>18

(* One item more.                                                            *)
GrowsBy(its, more, visible) ==
  /\ W!RowsOf(its, visible) \in Seq(ItemRows) /\ W!RowsOf(more, visible) \in Seq(ItemRows)
  /\ W!RowsOf(more, visible) =
       IF W!Shows(more, Len(more), visible)
       THEN Append(W!RowsOf(its, visible), W!Row(more[Len(more)]))
       ELSE W!RowsOf(its, visible)
(* What comes before the last item is mounted as without it.                 *)
LEMMA RowsGrow ==
  ASSUME NEW its \in Seq(WindowItems), NEW more \in Seq(WindowItems), NEW visible,
         Len(more) = Len(its) + 1, \A k \in 1 .. Len(its) : more[k] = its[k]
  PROVE  GrowsBy(its, more, visible)
<1>1. PICK n \in Nat : n = Len(its) OBVIOUS
<1>2. PICK f : Mounts(its, visible, f) BY RowsSteps
<1>3. PICK g : Mounts(more, visible, g) BY RowsSteps
<1> DEFINE K == {k \in 0 .. n : g[k] = f[k]}
<1>4. 0 \in K BY <1>1, <1>2, <1>3 DEF Mounts
<1>5. ASSUME NEW k \in 1 .. n, k - 1 \in K PROVE k \in K
  <2>1. k \in 1 .. Len(more) /\ k \in 1 .. Len(its) /\ k \in 0 .. n BY <1>1
  <2>2. W!Shows(more, k, visible) <=> W!Shows(its, k, visible)
    <3>1. more[k] = its[k] BY <2>1
    <3>2. CASE k = 1 BY <3>2 DEF W!Shows
    <3>3. CASE k # 1
      <4>1. k - 1 \in 1 .. Len(its) BY <1>1, <3>3
      <4>2. more[k - 1] = its[k - 1] BY <4>1
      <4> QED BY <3>1, <4>2 DEF W!Shows
    <3> QED BY <3>2, <3>3
  <2>3. g[k] = IF W!Shows(more, k, visible) THEN Append(g[k - 1], W!Row(more[k])) ELSE g[k - 1]
    BY <1>3, <2>1 DEF Mounts
  <2>4. f[k] = IF W!Shows(its, k, visible) THEN Append(f[k - 1], W!Row(its[k])) ELSE f[k - 1]
    BY <1>2, <2>1 DEF Mounts
  <2>5. g[k - 1] = f[k - 1] /\ more[k] = its[k] BY <1>5, <2>1
  <2> QED BY <2>1, <2>2, <2>3, <2>4, <2>5
<1> HIDE DEF K
<1>6. \A k \in 0 .. n : k \in K BY <1>4, <1>5, UpTo
<1>7. g[n] = f[n] BY <1>6 DEF K
<1>8. g[n + 1] = IF W!Shows(more, n + 1, visible) THEN Append(g[n], W!Row(more[n + 1])) ELSE g[n]
  <2>1. PICK l \in 1 .. Len(more) : l = n + 1 BY <1>1
  <2>2. l - 1 = n BY <2>1
  <2> QED BY <1>3, <2>1, <2>2 DEF Mounts
<1>9. W!RowsOf(its, visible) = f[n] /\ f[n] \in Seq(ItemRows) BY <1>1, <1>2 DEF Mounts
<1>10. W!RowsOf(more, visible) = g[n + 1] /\ g[n + 1] \in Seq(ItemRows)
  <2>1. Len(more) = n + 1 /\ n + 1 \in 0 .. n + 1 BY <1>1
  <2> QED BY <1>3, <2>1 DEF Mounts
<1> QED BY <1>1, <1>7, <1>8, <1>9, <1>10 DEF GrowsBy

(* The rows of the items a + 1 .. b.                                         *)
Stretch(its, a, b, visible) == W!RowsOf(SubSeq(its, a + 1, b), visible)

(* No items have no rows.                                                    *)
LEMMA StretchNone ==
  ASSUME NEW its \in Seq(WindowItems), NEW a \in 0 .. Len(its), NEW b \in 0 .. a, NEW visible
  PROVE  Stretch(its, a, b, visible) = << >>
<1>1. SubSeq(its, a + 1, b) = << >> OBVIOUS
<1>2. << >> \in Seq(WindowItems) /\ Len(<< >>) = 0 OBVIOUS
<1>3. PICK f : Mounts(<< >>, visible, f) BY <1>2, RowsSteps
<1> QED BY <1>1, <1>2, <1>3 DEF Mounts, Stretch

\* the item b + 1 is shown after those from a + 1 on
ShowsNext(its, a, b, visible) ==
  visible \/ ~its[b + 1].thinking \/ b = a \/ ~its[b].thinking
StretchGrows(its, a, b, visible) ==
  /\ Stretch(its, a, b, visible) \in Seq(ItemRows)
  /\ Stretch(its, a, b + 1, visible) \in Seq(ItemRows)
  /\ Stretch(its, a, b + 1, visible) =
       IF ShowsNext(its, a, b, visible)
       THEN Append(Stretch(its, a, b, visible), W!Row(its[b + 1]))
       ELSE Stretch(its, a, b, visible)

\* a part of a sequence
Slice(s, a, b) == /\ Len(SubSeq(s, a + 1, b)) = b - a
                  /\ \A i \in 1 .. b - a : SubSeq(s, a + 1, b)[i] = s[a + i]
(* What it is made of.                                                       *)
LEMMA SliceIs ==
  ASSUME NEW U, NEW s \in Seq(U), NEW a \in Nat, NEW b \in Nat, a <= b, b <= Len(s)
  PROVE  Slice(s, a, b) /\ SubSeq(s, a + 1, b) \in Seq(U)
<1>1. a + 1 \in 1 .. Len(s) + 1 /\ b \in 0 .. Len(s) OBVIOUS
<1>2. PICK m \in 1 .. Len(s) + 1, n \in 0 .. Len(s) : m = a + 1 /\ n = b BY <1>1
<1>3. /\ SubSeq(s, m, n) \in Seq(U) /\ Len(SubSeq(s, m, n)) = IF m <= n THEN n - m + 1 ELSE 0
      /\ \A i \in 1 .. n - m + 1 : SubSeq(s, m, n)[i] = s[m + i - 1]
  BY SubSeqProperties
<1>4. n - m + 1 = b - a /\ \A i \in 1 .. b - a : m + i - 1 = a + i BY <1>2
<1> QED BY <1>2, <1>3, <1>4 DEF Slice

(* The stretch that ends with one item more.                                 *)
LEMMA StretchStep ==
  ASSUME NEW its \in Seq(WindowItems), NEW a \in Nat, NEW b \in Nat, NEW visible,
         a <= b, b < Len(its)
  PROVE  StretchGrows(its, a, b, visible)
<1>1. PICK l \in Nat : l = Len(its) OBVIOUS
<1>2. PICK s \in Seq(WindowItems) : s = SubSeq(its, a + 1, b) /\ Slice(its, a, b)
  <2>1. Slice(its, a, b) /\ SubSeq(its, a + 1, b) \in Seq(WindowItems) BY <1>1, SliceIs
  <2> QED BY <2>1
<1>3. PICK t \in Seq(WindowItems) : t = SubSeq(its, a + 1, b + 1) /\ Slice(its, a, b + 1)
  <2>1. b + 1 \in Nat /\ a <= b + 1 /\ b + 1 <= Len(its) BY <1>1
  <2>2. Slice(its, a, b + 1) /\ SubSeq(its, a + 1, b + 1) \in Seq(WindowItems) BY <2>1, SliceIs
  <2> QED BY <2>2
<1>10. Len(s) = b - a /\ \A i \in 1 .. b - a : s[i] = its[a + i]
  BY <1>2 DEF Slice
<1>11. Len(t) = b - a + 1 /\ \A i \in 1 .. b - a + 1 : t[i] = its[a + i]
  <2>1. (b + 1) - a = b - a + 1 OBVIOUS
  <2> QED BY <1>3, <2>1 DEF Slice
<1>12. Len(t) = Len(s) + 1 /\ \A k \in 1 .. Len(s) : t[k] = s[k] BY <1>10, <1>11
<1>4. GrowsBy(s, t, visible) BY <1>12, RowsGrow
<1>5. t[Len(t)] = its[b + 1]
  <2>1. Len(t) \in 1 .. b - a + 1 /\ a + Len(t) = b + 1 BY <1>11
  <2> QED BY <1>11, <2>1
<1>6. W!Shows(t, Len(t), visible) <=> ShowsNext(its, a, b, visible)
  <2>1. Len(t) = 1 <=> b = a BY <1>11
  <2>2. CASE b = a BY <1>5, <2>1, <2>2 DEF W!Shows, ShowsNext
  <2>3. CASE b # a
    <3>1. Len(t) - 1 \in 1 .. b - a + 1 /\ a + (Len(t) - 1) = b BY <1>11, <2>3
    <3>2. t[Len(t) - 1] = its[b] BY <1>11, <3>1
    <3> QED BY <1>5, <2>1, <2>3, <3>2 DEF W!Shows, ShowsNext
  <2> QED BY <2>2, <2>3
<1> QED BY <1>2, <1>3, <1>4, <1>5, <1>6 DEF GrowsBy, StretchGrows, Stretch

(* Rows of items are not active.                                             *)
LEMMA StretchTypes ==
  ASSUME NEW its \in Seq(WindowItems), NEW a \in Nat, NEW b \in 0 .. Len(its), NEW visible
  PROVE  Stretch(its, a, b, visible) \in Seq(ItemRows)
<1>1. PICK l \in Nat : l = Len(its) OBVIOUS
<1>2. SubSeq(its, a + 1, b) \in Seq(WindowItems)
  <2>1. \A i \in a + 1 .. b : its[i] \in WindowItems BY <1>1
  <2> QED BY <2>1
<1>3. PICK s \in Seq(WindowItems) : s = SubSeq(its, a + 1, b) BY <1>2
<1>4. PICK f : Mounts(s, visible, f) BY RowsSteps
<1>5. Len(s) \in 0 .. Len(s) OBVIOUS
<1> QED BY <1>3, <1>4, <1>5 DEF Mounts, Stretch

Joined(its, a, b, c, visible) ==
  Stretch(its, a, c, visible) = Stretch(its, a, b, visible) \o Stretch(its, b, c, visible)
(* A stretch that is cut after an item that is not thinking, or cut off at   *)
(* its start.                                                                *)
LEMMA StretchJoins ==
  ASSUME NEW its \in Seq(WindowItems), NEW a \in Nat, NEW b \in Nat, NEW c \in Nat, NEW visible,
         a <= b, b <= c, c <= Len(its), b = a \/ ~its[b].thinking
  PROVE  Joined(its, a, b, c, visible)
<1> DEFINE Up(k) == Stretch(its, a, b + k, visible)
           On(k) == Stretch(its, b, b + k, visible)
           K == {k \in 0 .. c - b : Up(k) = Up(0) \o On(k)}
<1>0. PICK l \in Nat : l = Len(its) OBVIOUS
<1>1. \A k \in 0 .. c - b : Up(k) \in Seq(ItemRows) /\ On(k) \in Seq(ItemRows)
  <2> TAKE k \in 0 .. c - b
  <2>1. b + k \in 0 .. Len(its) BY <1>0
  <2> QED BY <2>1, StretchTypes
<1>2. 0 \in K
  <2>1. On(0) = << >>
    <3>1. b \in 0 .. Len(its) /\ b \in 0 .. b /\ b + 0 = b BY <1>0
    <3> QED BY <3>1, StretchNone
  <2>2. PICK p \in Seq(ItemRows) : p = Up(0)
    <3>1. 0 \in 0 .. c - b OBVIOUS
    <3> QED BY <1>1, <3>1
  <2>3. p \o << >> = p OBVIOUS
  <2>4. Up(0) = Up(0) \o On(0) BY <2>1, <2>2, <2>3
  <2>5. 0 \in 0 .. c - b OBVIOUS
  <2> QED BY <2>4, <2>5
<1>3. ASSUME NEW k \in 1 .. c - b, k - 1 \in K PROVE k \in K
  <2>1. PICK d \in Nat : d = b + (k - 1) /\ d + 1 = b + k /\ b <= d /\ a <= d /\ d < Len(its)
    BY <1>0
  <2>2. StretchGrows(its, a, d, visible) BY <2>1, StretchStep
  <2>3. StretchGrows(its, b, d, visible) BY <2>1, StretchStep
  <2>4. ShowsNext(its, a, d, visible) <=> ShowsNext(its, b, d, visible)
    BY <2>1 DEF ShowsNext
  <2>5. W!Row(its[d + 1]) \in ItemRows
    <3>1. its[d + 1] \in WindowItems BY <1>0, <2>1
    <3> QED BY <3>1 DEF W!Row, ItemRows, WindowItems
  <2>6. Up(k - 1) = Up(0) \o On(k - 1) BY <1>3
  <2>7. PICK p \in Seq(ItemRows), q \in Seq(ItemRows), x \in ItemRows :
          p = Up(0) /\ q = On(k - 1) /\ x = W!Row(its[d + 1])
    <3>1. 0 \in 0 .. c - b /\ k - 1 \in 0 .. c - b OBVIOUS
    <3> QED BY <1>1, <2>5, <3>1
  <2>8. p \o Append(q, x) = Append(p \o q, x) BY AppendConcat
  <2>9. Up(k) = IF ShowsNext(its, a, d, visible) THEN Append(p \o q, x) ELSE p \o q
    BY <2>1, <2>2, <2>6, <2>7 DEF StretchGrows
  <2>10. On(k) = IF ShowsNext(its, b, d, visible) THEN Append(q, x) ELSE q
    BY <2>1, <2>3, <2>7 DEF StretchGrows
  <2>11. Up(k) = Up(0) \o On(k) BY <2>4, <2>7, <2>8, <2>9, <2>10
  <2> QED BY <2>11
<1> HIDE DEF K
<1>4. \A k \in 0 .. c - b : k \in K
  <2>1. c - b \in Nat OBVIOUS
  <2> QED BY <1>2, <1>3, <2>1, UpTo
<1>5. c - b \in K /\ b + (c - b) = c /\ b + 0 = b
  <2>1. c - b \in 0 .. c - b OBVIOUS
  <2> QED BY <1>4, <2>1
<1>6. Up(c - b) = Up(0) \o On(c - b) BY <1>5 DEF K
<1> QED BY <1>5, <1>6 DEF Joined

(* Items outside of a stretch do not matter to it.                           *)
LEMMA StretchSame ==
  ASSUME NEW its \in Seq(WindowItems), NEW others \in Seq(WindowItems), NEW a \in Nat, NEW b \in Nat,
         b <= Len(its), b <= Len(others), \A i \in 1 .. b : its[i] = others[i], NEW visible
  PROVE  Stretch(its, a, b, visible) = Stretch(others, a, b, visible)
<1>1. CASE b < a
  <2>1. SubSeq(its, a + 1, b) = << >> /\ SubSeq(others, a + 1, b) = << >> BY <1>1
  <2> QED BY <2>1 DEF Stretch
<1>2. CASE a <= b
  <2>1. Slice(its, a, b) /\ SubSeq(its, a + 1, b) \in Seq(WindowItems) BY <1>2, SliceIs
  <2>2. Slice(others, a, b) /\ SubSeq(others, a + 1, b) \in Seq(WindowItems) BY <1>2, SliceIs
  <2>3. PICK s \in Seq(WindowItems) : s = SubSeq(its, a + 1, b) BY <2>1
  <2>4. PICK t \in Seq(WindowItems) : t = SubSeq(others, a + 1, b) BY <2>2
  <2>5. \A i \in 1 .. b - a : a + i \in 1 .. b OBVIOUS
  <2>6. Len(s) = b - a /\ Len(t) = b - a /\ \A i \in 1 .. b - a : s[i] = t[i]
    BY <2>1, <2>2, <2>3, <2>4, <2>5 DEF Slice
  <2>7. s = t BY <2>6
  <2> QED BY <2>3, <2>4, <2>7 DEF Stretch
<1> QED BY <1>1, <1>2

(* What is picked from the rows is what is picked from items.                *)
LEMMA PicksAlike ==
  ASSUME NEW s, NEW T
  PROVE  W!Among(s, T) = I!Among(s, T)
BY Zenon DEF W!Among, I!Among

(* Sets that agree on the elements pick the same ones.                       *)
LEMMA AmongAgrees ==
  ASSUME NEW D, NEW s \in Seq(D), NEW T, NEW E,
         \A i \in 1 .. Len(s) : s[i] \in T <=> s[i] \in E
  PROVE  I!Among(s, T) = I!Among(s, E)
<1>1. PICK f : Picks(D, s, T, f) BY AmongSteps
<1>2. PICK g : Picks(D, s, E, g) BY AmongSteps
<1>3. PICK n \in Nat : n = Len(s) OBVIOUS
<1> DEFINE K == {k \in 0 .. n : f[k] = g[k]}
<1>4. 0 \in K BY <1>1, <1>2, <1>3 DEF Picks
<1>5. ASSUME NEW k \in 1 .. n, k - 1 \in K PROVE k \in K
  <2>1. f[k - 1] = g[k - 1] /\ k \in 1 .. Len(s) /\ k \in 0 .. n BY <1>3, <1>5
  <2>2. f[k] = IF s[k] \in T THEN Append(f[k - 1], s[k]) ELSE f[k - 1] BY <1>1, <2>1 DEF Picks
  <2>3. g[k] = IF s[k] \in E THEN Append(g[k - 1], s[k]) ELSE g[k - 1] BY <1>2, <2>1 DEF Picks
  <2> QED BY <2>1, <2>2, <2>3
<1> HIDE DEF K
<1>6. \A k \in 0 .. n : k \in K BY <1>4, <1>5, UpTo
<1>7. f[n] = g[n] BY <1>6 DEF K
<1> QED BY <1>1, <1>2, <1>3, <1>7 DEF Picks

(* Nothing is picked of elements that are not in the set.                    *)
LEMMA AmongNone ==
  ASSUME NEW D, NEW s \in Seq(D), NEW T, \A i \in 1 .. Len(s) : s[i] \notin T
  PROVE  I!Among(s, T) = << >>
<1>1. PICK f : Picks(D, s, T, f) BY AmongSteps
<1>3. PICK n \in Nat : n = Len(s) OBVIOUS
<1> DEFINE K == {k \in 0 .. n : f[k] = << >>}
<1>4. 0 \in K BY <1>1, <1>3 DEF Picks
<1>5. ASSUME NEW k \in 1 .. n, k - 1 \in K PROVE k \in K
  <2>1. f[k - 1] = << >> /\ k \in 1 .. Len(s) /\ k \in 0 .. n BY <1>3, <1>5
  <2>2. f[k] = IF s[k] \in T THEN Append(f[k - 1], s[k]) ELSE f[k - 1] BY <1>1, <2>1 DEF Picks
  <2> QED BY <2>1, <2>2
<1> HIDE DEF K
<1>6. \A k \in 0 .. n : k \in K BY <1>4, <1>5, UpTo
<1>7. f[n] = << >> BY <1>6 DEF K
<1> QED BY <1>1, <1>3, <1>7 DEF Picks

(* Rows of items, and then rows that are active: without the active ones.    *)
LEMMA ActiveGo ==
  ASSUME NEW kept \in Seq(ItemRows), NEW all \in Seq(WindowRows), Len(kept) <= Len(all),
         \A i \in 1 .. Len(kept) : all[i] = kept[i],
         \A i \in Len(kept) + 1 .. Len(all) : all[i].active
  PROVE  W!Among(all, {r \in W!Range(all) : ~r.active}) = kept
<1> DEFINE T == {r \in W!Range(all) : ~r.active}
<1>0. PICK n \in Nat, l \in Nat : n = Len(kept) /\ l = Len(all) OBVIOUS
<1>1. PICK s \in Seq(WindowRows) : s = kept
  <2>1. ItemRows \subseteq WindowRows BY DEF ItemRows, WindowRows
  <2> QED BY <2>1
<1>2. PICK t \in Seq(WindowRows) : t = SubSeq(all, n + 1, l) /\ Slice(all, n, l)
  <2>1. Slice(all, n, l) /\ SubSeq(all, n + 1, l) \in Seq(WindowRows) BY <1>0, SliceIs
  <2> QED BY <2>1
<1>3. Len(t) = l - n /\ \A i \in 1 .. l - n : t[i] = all[n + i] BY <1>2 DEF Slice
<1>4. s \o t = all
  <2>5. /\ s \o t \in Seq(WindowRows) /\ Len(s \o t) = Len(s) + Len(t)
        /\ \A i \in 1 .. Len(s) + Len(t) :
             (s \o t)[i] = IF i <= Len(s) THEN s[i] ELSE t[i - Len(s)]
    BY ConcatProperties
  <2>1. PICK u \in Seq(WindowRows) : /\ u = s \o t /\ Len(u) = Len(s) + Len(t)
                                     /\ \A i \in 1 .. Len(s) + Len(t) :
                                          u[i] = IF i <= Len(s) THEN s[i] ELSE t[i - Len(s)]
    BY <2>5
  <2>2. Len(u) = l BY <1>0, <1>1, <1>3, <2>1
  <2>3. ASSUME NEW i \in 1 .. l PROVE u[i] = all[i]
    <3>1. CASE i <= n BY <1>0, <1>1, <1>3, <2>1, <3>1
    <3>2. CASE i > n
      <4>1. i - n \in 1 .. l - n /\ n + (i - n) = i BY <3>2
      <4> QED BY <1>0, <1>1, <1>3, <2>1, <3>2, <4>1
    <3> QED BY <3>1, <3>2
  <2>4. u = all BY <1>0, <2>2, <2>3
  <2> QED BY <2>1, <2>4
<1>5. \A i \in 1 .. l : all[i] \in W!Range(all)
  BY <1>0 DEF W!Range
<1>6. s \in Seq(T)
  <2>1. \A i \in 1 .. n : s[i] \in T
    <3> TAKE i \in 1 .. n
    <3>1. s[i] \in ItemRows /\ s[i] = all[i] /\ i \in 1 .. l BY <1>0, <1>1
    <3> QED BY <1>5, <3>1 DEF ItemRows
  <2> HIDE DEF T
  <2> QED BY <1>0, <1>1, <2>1
<1>7. \A i \in 1 .. Len(t) : t[i] \notin T
  <2> TAKE i \in 1 .. Len(t)
  <2>1. t[i] = all[n + i] /\ n + i \in Len(kept) + 1 .. Len(all) BY <1>0, <1>3
  <2> QED BY <2>1
<1> HIDE DEF T
<1>8. I!Among(s, T) = s BY <1>6, AmongAll
<1>9. I!Among(t, T) = << >> BY <1>7, AmongNone
<1>10. Splits(WindowRows, s, t, T) BY AmongConcat
<1>11. I!Among(all, T) = s \o << >> BY <1>4, <1>8, <1>9, <1>10 DEF Splits
<1>12. s \o << >> = s OBVIOUS
<1>13. W!Among(all, T) = kept BY <1>1, <1>11, <1>12, PicksAlike
<1> QED BY <1>13 DEF T

\* rows that are not thinking
Spoken == {r \in ItemRows : ~r.thinking}
\* those of the first k items
Others(t, k, visible) == I!Among(Stretch(t, 0, k, visible), Spoken)

(* A step of the stretch that starts with the first item.                    *)
FirstsGrow(t, k, visible) ==
  /\ Stretch(t, 0, k - 1, visible) \in Seq(ItemRows) /\ Stretch(t, 0, k, visible) \in Seq(ItemRows)
  /\ W!Row(t[k]) \in ItemRows
  /\ Stretch(t, 0, k, visible) =
       IF W!Shows(t, k, visible) THEN Append(Stretch(t, 0, k - 1, visible), W!Row(t[k]))
       ELSE Stretch(t, 0, k - 1, visible)
(* The first items, item by item.                                            *)
LEMMA FirstsStep ==
  ASSUME NEW t \in Seq(WindowItems), NEW k \in 1 .. Len(t), NEW visible
  PROVE  FirstsGrow(t, k, visible)
<1>1. PICK b \in Nat : b = k - 1 /\ b < Len(t) /\ b + 1 = k OBVIOUS
<1>2. StretchGrows(t, 0, b, visible) BY <1>1, StretchStep
<1>3. ShowsNext(t, 0, b, visible) <=> W!Shows(t, k, visible)
  BY <1>1 DEF ShowsNext, W!Shows
<1>4. W!Row(t[k]) \in ItemRows
  <2>1. t[k] \in WindowItems OBVIOUS
  <2> QED BY <2>1 DEF W!Row, ItemRows, WindowItems
<1> QED BY <1>1, <1>2, <1>3, <1>4 DEF StretchGrows, FirstsGrow

(* An item that is not thinking has one row more.                            *)
OthersGrow(t, k, visible) ==
  /\ Others(t, k - 1, visible) \in Seq(Spoken) /\ Others(t, k, visible) \in Seq(Spoken)
  /\ Others(t, k, visible) =
       IF t[k].thinking THEN Others(t, k - 1, visible)
       ELSE Append(Others(t, k - 1, visible), W!Row(t[k]))
(* Whether thinking is shown does not matter to the others.                  *)
LEMMA OthersStep ==
  ASSUME NEW t \in Seq(WindowItems), NEW k \in 1 .. Len(t), NEW visible
  PROVE  OthersGrow(t, k, visible)
<1>1. FirstsGrow(t, k, visible) BY FirstsStep
<1>2. PICK p \in Seq(ItemRows), q \in Seq(ItemRows), x \in ItemRows :
        p = Stretch(t, 0, k - 1, visible) /\ q = Stretch(t, 0, k, visible) /\ x = W!Row(t[k])
  BY <1>1 DEF FirstsGrow
<1>3. q = IF W!Shows(t, k, visible) THEN Append(p, x) ELSE p BY <1>1, <1>2 DEF FirstsGrow
<1>4. Adds(p, x, Spoken) BY AmongAppend
<1>5. x \in Spoken <=> ~t[k].thinking
  <2>1. x.thinking = t[k].thinking BY <1>2 DEF W!Row
  <2> QED BY <2>1 DEF Spoken
<1>6. ~t[k].thinking => W!Shows(t, k, visible) BY DEF W!Shows
<1>7. ItemRows \intersect Spoken = Spoken BY DEF Spoken
<1>8. I!Among(p, Spoken) \in Seq(Spoken)
  <2>1. PICK f : Picks(ItemRows, p, Spoken, f) BY AmongSteps
  <2>2. Len(p) \in 0 .. Len(p) OBVIOUS
  <2> QED BY <1>7, <2>1, <2>2 DEF Picks
<1>9. I!Among(q, Spoken) = IF t[k].thinking THEN I!Among(p, Spoken) ELSE Append(I!Among(p, Spoken), x)
  <2>1. CASE t[k].thinking
    <3>1. x \notin Spoken BY <1>5, <2>1
    <3>2. I!Among(Append(p, x), Spoken) = I!Among(p, Spoken) BY <1>4, <3>1, Zenon DEF Adds
    <3> QED BY <1>3, <2>1, <3>2
  <2>2. CASE ~t[k].thinking
    <3>1. x \in Spoken /\ q = Append(p, x) BY <1>3, <1>5, <1>6, <2>2
    <3>2. I!Among(Append(p, x), Spoken) = Append(I!Among(p, Spoken), x) BY <1>4, <3>1, Zenon DEF Adds
    <3> QED BY <2>2, <3>1, <3>2
  <2> QED BY <2>1, <2>2
<1>10. PICK m \in Seq(Spoken) : m = I!Among(p, Spoken) BY <1>8
<1>11. I!Among(q, Spoken) \in Seq(Spoken)
  <2>1. x \in Spoken => Append(m, x) \in Seq(Spoken) OBVIOUS
  <2> QED BY <1>5, <1>9, <1>10, <2>1
<1> QED BY <1>2, <1>8, <1>9, <1>11 DEF OthersGrow, Others

(* The rows of the first items come first.                                   *)
FirstOf(t, k, m, visible) ==
  /\ Others(t, m, visible) \in Seq(Spoken)
  /\ Len(Others(t, k, visible)) <= Len(Others(t, m, visible))
  /\ \A i \in 1 .. Len(Others(t, k, visible)) : Others(t, m, visible)[i] = Others(t, k, visible)[i]
(* By induction over the items that follow.                                  *)
LEMMA OthersBegin ==
  ASSUME NEW t \in Seq(WindowItems), NEW k \in 0 .. Len(t), NEW n \in k .. Len(t), NEW visible
  PROVE  FirstOf(t, k, n, visible)
<1> DEFINE K == {d \in 0 .. n - k : FirstOf(t, k, k + d, visible)}
<1>0. PICK l \in Nat : l = Len(t) OBVIOUS
<1>1. Others(t, k, visible) \in Seq(Spoken)
  <2>1. CASE k = 0
    <3>1. Stretch(t, 0, 0, visible) = << >>
      <4>1. 0 \in 0 .. Len(t) /\ 0 \in 0 .. 0 BY <1>0
      <4> QED BY <4>1, StretchNone
    <3>2. << >> \in Seq(Spoken) OBVIOUS
    <3>3. I!Among(<< >>, Spoken) = << >> BY <3>2, AmongAll
    <3> QED BY <2>1, <3>1, <3>2, <3>3 DEF Others
  <2>2. CASE k # 0
    <3>1. k \in 1 .. Len(t) BY <2>2
    <3> QED BY <3>1, OthersStep DEF OthersGrow
  <2> QED BY <2>1, <2>2
<1>2. 0 \in K
  <2>1. 0 \in 0 .. n - k /\ k + 0 = k OBVIOUS
  <2>2. Len(Others(t, k, visible)) \in Nat BY <1>1
  <2>3. FirstOf(t, k, k, visible) BY <1>1, <2>2 DEF FirstOf
  <2> QED BY <2>1, <2>3
<1>3. ASSUME NEW d \in 1 .. n - k, d - 1 \in K PROVE d \in K
  <2>1. PICK m \in 1 .. Len(t) : m = k + d /\ m - 1 = k + (d - 1) BY <1>0
  <2>2. OthersGrow(t, m, visible) BY OthersStep
  <2>3. FirstOf(t, k, m - 1, visible) BY <1>3, <2>1
  <2>4. PICK a \in Seq(Spoken), b \in Seq(Spoken), c \in Seq(Spoken) :
          a = Others(t, k, visible) /\ b = Others(t, m - 1, visible) /\ c = Others(t, m, visible)
    BY <1>1, <2>2 DEF OthersGrow
  <2>5. CASE t[m].thinking
    <3>1. c = b BY <2>2, <2>4, <2>5 DEF OthersGrow
    <3>2. FirstOf(t, k, m, visible) BY <2>3, <2>4, <3>1 DEF FirstOf
    <3> QED BY <2>1, <3>2
  <2>6. CASE ~t[m].thinking
    <3>1. c = Append(b, W!Row(t[m])) BY <2>2, <2>4, <2>6 DEF OthersGrow
    <3>2. PICK x \in Spoken : x = W!Row(t[m])
      <4>1. t[m] \in WindowItems OBVIOUS
      <4> QED BY <2>6, <4>1 DEF W!Row, Spoken, ItemRows, WindowItems
    <3>3. Len(c) = Len(b) + 1 /\ \A i \in 1 .. Len(b) : c[i] = b[i]
      BY <3>1, <3>2, AppendProperties
    <3>4. Len(a) <= Len(b) /\ \A i \in 1 .. Len(a) : b[i] = a[i] BY <2>3, <2>4 DEF FirstOf
    <3>5. Len(a) <= Len(c) /\ \A i \in 1 .. Len(a) : c[i] = a[i] BY <3>3, <3>4
    <3>6. FirstOf(t, k, m, visible) BY <2>4, <3>5 DEF FirstOf
    <3> QED BY <2>1, <3>6
  <2> QED BY <2>5, <2>6
<1> HIDE DEF K
<1>4. \A d \in 0 .. n - k : d \in K
  <2>1. n - k \in Nat OBVIOUS
  <2> QED BY <1>2, <1>3, <2>1, UpTo
<1>5. n - k \in K
  <2>1. n - k \in 0 .. n - k OBVIOUS
  <2> QED BY <1>4, <2>1
<1>6. k + (n - k) = n OBVIOUS
<1> QED BY <1>5, <1>6 DEF K

(* A set of numbers has a least one.                                         *)
LEMMA LeastIs ==
  ASSUME NEW N \in SUBSET Nat, N # {}
  PROVE  \E j \in N : \A i \in N : j <= i
<1> DEFINE R == OpToRel(<, Nat)
<1>1. IsWellFoundedOn(R, Nat) BY NatLessThanWellFounded
<1>2. \A x, y \in Nat : y < x => <<y, x>> \in R BY DEF OpToRel
<1> HIDE DEF R
<1>3. PICK x \in N : \A y \in N : ~(<<y, x>> \in R) BY <1>1, WFMin
<1>4. ASSUME NEW i \in N PROVE x <= i
  <2>1. ~(i < x) BY <1>2, <1>3, Zenon
  <2>2. i \in Nat /\ x \in Nat OBVIOUS
  <2> QED BY <2>1, <2>2
<1> QED BY <1>4

(* The state of the loop of update_thinking_visibility.                      *)
Placing == [n : Nat, placed : Seq(ItemRows), pending : Seq(ItemRows)]
Unplaced == [n |-> 0, placed |-> << >>, pending |-> << >>]

\* the candidates for an item's row
Hits(its, others, so, k) == {j \in so.n + 1 .. Len(others) : others[j].of = its[k].id}

ReplacedIs(its, others, so, k, again) ==
  IF its[k].thinking
  THEN again = [n |-> so.n, placed |-> so.placed,
                pending |-> IF W!Shows(its, k, ~show) THEN Append(so.pending, W!Row(its[k]))
                            ELSE so.pending]
  ELSE IF Hits(its, others, so, k) = {}
  THEN again = [n |-> Len(others), pending |-> so.pending,
                placed |-> so.placed \o SubSeq(others, so.n + 1, Len(others))]
  ELSE \E hit \in Hits(its, others, so, k) :
         /\ \A i \in Hits(its, others, so, k) : hit <= i
         /\ again = [n |-> hit, pending |-> << >>,
                     placed |-> so.placed \o SubSeq(others, so.n + 1, hit - 1) \o so.pending
                                  \o <<others[hit]>>]
(* An item's turn in the loop.                                               *)
LEMMA ReplacedCases ==
  ASSUME NEW its, NEW others \in Seq(ItemRows), NEW so \in Placing, NEW k
  PROVE  ReplacedIs(its, others, so, k, W!Replaced(its, others, so, k))
<1> DEFINE hits == Hits(its, others, so, k)
           hit == CHOOSE j \in hits : \A i \in hits : j <= i
           again == W!Replaced(its, others, so, k)
<1>1. so = [n |-> so.n, placed |-> so.placed, pending |-> so.pending] /\ so.n \in Nat BY DEF Placing
<1>2. again =
     IF its[k].thinking
     THEN [so EXCEPT !.pending = IF W!Shows(its, k, ~show) THEN Append(@, W!Row(its[k])) ELSE @]
     ELSE IF hits = {}
     THEN [so EXCEPT !.placed = @ \o SubSeq(others, so.n + 1, Len(others)), !.n = Len(others)]
     ELSE [n |-> hit, pending |-> <<>>,
           placed |-> so.placed \o SubSeq(others, so.n + 1, hit - 1) \o so.pending \o <<others[hit]>>]
  BY Zenon DEF W!Replaced, Hits
<1>3. hits # {} => hit \in hits /\ \A i \in hits : hit <= i
  <2>1. hits \in SUBSET Nat
    <3>1. Len(others) \in Nat OBVIOUS
    <3> QED BY <1>1, <3>1 DEF Hits
  <2> HIDE DEF hits
  <2>2. hits # {} => \E j \in hits : \A i \in hits : j <= i BY <2>1, LeastIs
  <2> QED BY <2>2, Zenon
<1> HIDE DEF hits, hit
<1>4. CASE its[k].thinking
  <2>1. again = [so EXCEPT !.pending = IF W!Shows(its, k, ~show) THEN Append(@, W!Row(its[k])) ELSE @]
    BY <1>2, <1>4
  <2> HIDE DEF again
  <2>2. again = [n |-> so.n, placed |-> so.placed,
                 pending |-> IF W!Shows(its, k, ~show) THEN Append(so.pending, W!Row(its[k]))
                             ELSE so.pending]
    BY <1>1, <2>1 DEF Placing
  <2> QED BY <1>4, <2>2, Zenon DEF ReplacedIs, again
<1>5. CASE ~its[k].thinking /\ hits = {}
  <2>1. again = [so EXCEPT !.placed = @ \o SubSeq(others, so.n + 1, Len(others)), !.n = Len(others)]
    BY <1>2, <1>5
  <2> HIDE DEF again
  <2>2. again = [n |-> Len(others), pending |-> so.pending,
                 placed |-> so.placed \o SubSeq(others, so.n + 1, Len(others))]
    BY <1>1, <2>1 DEF Placing
  <2> QED BY <1>5, <2>2, Zenon DEF ReplacedIs, hits, again
<1>6. CASE ~its[k].thinking /\ hits # {}
  <2>1. again = [n |-> hit, pending |-> <<>>,
           placed |-> so.placed \o SubSeq(others, so.n + 1, hit - 1) \o so.pending \o <<others[hit]>>]
    BY <1>2, <1>6
  <2> HIDE DEF again
  <2> QED BY <1>3, <1>6, <2>1, Zenon DEF ReplacedIs, hits, again
<1> QED BY <1>4, <1>5, <1>6

(* It keeps to rows of items.                                                *)
LEMMA ReplacedTypes ==
  ASSUME NEW its \in Seq(WindowItems), NEW others \in Seq(ItemRows), NEW so \in Placing,
         NEW k \in 1 .. Len(its)
  PROVE  W!Replaced(its, others, so, k) \in Placing
<1>1. PICK again : /\ again = W!Replaced(its, others, so, k)
                   /\ ReplacedIs(its, others, so, k, again)
  BY ReplacedCases
<1>2. PICK l \in Nat : l = Len(others) OBVIOUS
<1>3. so.n \in Nat /\ so.placed \in Seq(ItemRows) /\ so.pending \in Seq(ItemRows) BY DEF Placing
<1>4. \A m \in 0 .. l : SubSeq(others, so.n + 1, m) \in Seq(ItemRows)
  <2> TAKE m \in 0 .. l
  <2>1. \A i \in so.n + 1 .. m : others[i] \in ItemRows
    <3> TAKE i \in so.n + 1 .. m
    <3>1. i \in 1 .. Len(others) BY <1>2, <1>3
    <3> QED BY <3>1
  <2> QED BY <1>3, <2>1, SubSeqProperties
<1>5. CASE its[k].thinking
  <2>1. W!Row(its[k]) \in ItemRows
    <3>1. its[k] \in WindowItems OBVIOUS
    <3> QED BY <3>1 DEF W!Row, ItemRows, WindowItems
  <2>2. Append(so.pending, W!Row(its[k])) \in Seq(ItemRows) BY <1>3, <2>1
  <2>3. PICK q \in Seq(ItemRows) :
          q = IF W!Shows(its, k, ~show) THEN Append(so.pending, W!Row(its[k])) ELSE so.pending
    BY <1>3, <2>2
  <2>4. again = [n |-> so.n, placed |-> so.placed, pending |-> q]
    BY <1>1, <1>5, <2>3, Zenon DEF ReplacedIs
  <2> QED BY <1>1, <1>3, <2>4 DEF Placing
<1>6. CASE ~its[k].thinking /\ Hits(its, others, so, k) = {}
  <2>1. SubSeq(others, so.n + 1, l) \in Seq(ItemRows) BY <1>4
  <2>2. so.placed \o SubSeq(others, so.n + 1, l) \in Seq(ItemRows) BY <1>3, <2>1, ConcatProperties
  <2>3. again = [n |-> Len(others), pending |-> so.pending,
                 placed |-> so.placed \o SubSeq(others, so.n + 1, Len(others))]
    BY <1>1, <1>6, Zenon DEF ReplacedIs
  <2> QED BY <1>1, <1>2, <1>3, <2>2, <2>3 DEF Placing
<1>7. CASE ~its[k].thinking /\ Hits(its, others, so, k) # {}
  <2>1. PICK hit \in Hits(its, others, so, k) :
           again = [n |-> hit, pending |-> << >>,
                    placed |-> so.placed \o SubSeq(others, so.n + 1, hit - 1) \o so.pending
                                 \o <<others[hit]>>]
    BY <1>1, <1>7 DEF ReplacedIs
  <2>2. hit \in 1 .. l /\ hit - 1 \in 0 .. l BY <1>2, <1>3 DEF Hits
  <2>3. SubSeq(others, so.n + 1, hit - 1) \in Seq(ItemRows) BY <1>4, <2>2
  <2>4. others[hit] \in ItemRows BY <1>2, <2>2
  <2>5. so.placed \o SubSeq(others, so.n + 1, hit - 1) \in Seq(ItemRows) BY <1>3, <2>3, ConcatProperties
  <2>6. so.placed \o SubSeq(others, so.n + 1, hit - 1) \o so.pending \in Seq(ItemRows)
    BY <1>3, <2>5, ConcatProperties
  <2>7. <<others[hit]>> \in Seq(ItemRows) BY <2>4
  <2>8. so.placed \o SubSeq(others, so.n + 1, hit - 1) \o so.pending \o <<others[hit]>> \in Seq(ItemRows)
    BY <2>6, <2>7, ConcatProperties
  <2>9. << >> \in Seq(ItemRows) /\ hit \in Nat BY <2>2
  <2> QED BY <1>1, <2>1, <2>8, <2>9 DEF Placing
<1> QED BY <1>5, <1>6, <1>7

(* The loop, item by item.                                                   *)
Loops(its, others, f) ==
  /\ f \in [0 .. Len(its) -> Placing]
  /\ f[0] = Unplaced
  /\ \A k \in 1 .. Len(its) : f[k] = W!Replaced(its, others, f[k - 1], k)
  /\ W!Remounted(its, others) =
       f[Len(its)].placed \o SubSeq(others, f[Len(its)].n + 1, Len(others)) \o f[Len(its)].pending

(* Remounted takes one item after another.                                   *)
LEMMA LoopSteps ==
  ASSUME NEW its \in Seq(WindowItems), NEW others \in Seq(ItemRows)
  PROVE  \E f : Loops(its, others, f)
<1> DEFINE n == Len(its)
           none == [n |-> 0, placed |-> << >>, pending |-> << >>]
           Unfolds(g) == g = [k \in 0 .. Len(its) |->
                          IF k = 0 THEN none ELSE W!Replaced(its, others, g[k - 1], k)]
           F == CHOOSE g : Unfolds(g)
           st == [x \in (1 .. n) \X Placing |-> W!Replaced(its, others, x[2], x[1])]
<1>0. n \in Nat OBVIOUS
<1>1. \A k \in 1 .. n : \A v \in Placing : W!Replaced(its, others, v, k) \in Placing
  BY ReplacedTypes
<1>2. \A k \in 1 .. n : \A v \in Placing : st[<<k, v>>] = W!Replaced(its, others, v, k)
  OBVIOUS
<1>3. none \in Placing
  <2>1. << >> \in Seq(ItemRows) OBVIOUS
  <2> QED BY <2>1 DEF Placing
<1>4. \A k \in 1 .. n : \A v \in Placing : st[<<k, v>>] \in Placing BY <1>1, <1>2
<1> HIDE DEF st, n, none
<1>5. Stepwise(n, Placing, none, st) BY <1>0, <1>3, <1>4, Recursion, Zenon
<1>6. PICK f \in [0 .. n -> Placing] : f[0] = none /\ \A k \in 1 .. n : f[k] = st[<<k, f[k - 1]>>]
  BY <1>5 DEF Stepwise
<1>7. \A k \in 0 .. n : f[k] = IF k = 0 THEN none ELSE W!Replaced(its, others, f[k - 1], k)
  <2> TAKE k \in 0 .. n
  <2>1. CASE k = 0 BY <1>6, <2>1
  <2>2. CASE k # 0
    <3>1. k \in 1 .. n /\ k - 1 \in 0 .. n BY <1>0, <2>2
    <3>2. f[k] = st[<<k, f[k - 1]>>] /\ f[k - 1] \in Placing BY <1>6, <3>1
    <3> QED BY <1>2, <2>2, <3>1, <3>2
  <2> QED BY <2>1, <2>2
<1>8. Unfolds(f) BY <1>6, <1>7 DEF n
<1> HIDE DEF Unfolds
<1>9. Unfolds(F) BY <1>8, Zenon
<1> HIDE DEF F
<1>10. F = [j \in 0 .. n |-> IF j = 0 THEN none ELSE W!Replaced(its, others, F[j - 1], j)]
  BY <1>9 DEF Unfolds, n
<1>11. F[0] = none BY <1>0, <1>10
<1>12. \A k \in 1 .. n : F[k] = W!Replaced(its, others, F[k - 1], k)
  <2> TAKE k \in 1 .. n
  <2>1. k \in 0 .. n /\ k # 0 BY <1>0
  <2> QED BY <1>10, <2>1
<1> DEFINE K == {k \in 0 .. n : F[k] \in Placing}
<1>13. 0 \in K BY <1>0, <1>3, <1>11
<1>14. ASSUME NEW k \in 1 .. n, k - 1 \in K PROVE k \in K
  <2>1. k \in 0 .. n BY <1>0
  <2>2. PICK v \in Placing : v = F[k - 1] BY <1>14
  <2>3. F[k] = W!Replaced(its, others, v, k) BY <1>12, <2>2
  <2> QED BY <1>1, <2>1, <2>3
<1> HIDE DEF K
<1>15. \A k \in 0 .. n : k \in K BY <1>0, <1>13, <1>14, UpTo
<1>16. F \in [0 .. n -> Placing] BY <1>10, <1>15 DEF K
<1>17. W!Remounted(its, others) = F[n].placed \o SubSeq(others, F[n].n + 1, Len(others)) \o F[n].pending
  BY Zenon DEF W!Remounted, F, Unfolds, n, none
<1>18. none = Unplaced BY DEF none, Unplaced
<1>19. Loops(its, others, F) BY <1>11, <1>12, <1>16, <1>17, <1>18 DEF Loops, n
<1> QED BY <1>19

(* How far the loop has come after k items.                                  *)
Placed(t, k, so) ==
  /\ so \in Placing /\ so.n = Len(Others(t, k, show))
  /\ so.placed \o so.pending = Stretch(t, 0, k, ~show)
  /\ k = 0 \/ ~t[k].thinking => so.pending = << >>

(* An item that is not thinking finds its row, the next one.                 *)
LEMMA ItemFinds ==
  ASSUME NEW t \in Seq(WindowItems), NEW k \in 1 .. Len(t), ~t[k].thinking,
         NEW so \in Placing, so.n = Len(Others(t, k - 1, show)),
         NEW others \in Seq(ItemRows), others = Others(t, Len(t), show)
  PROVE  /\ so.n + 1 \in 1 .. Len(others) /\ others[so.n + 1] = W!Row(t[k])
         /\ Len(Others(t, k, show)) = so.n + 1
<1>1. OthersGrow(t, k, show) BY OthersStep
<1>2. PICK b \in Seq(Spoken), c \in Seq(Spoken) : b = Others(t, k - 1, show) /\ c = Others(t, k, show)
  BY <1>1 DEF OthersGrow
<1>3. c = Append(b, W!Row(t[k])) BY <1>1, <1>2 DEF OthersGrow
<1>4. W!Row(t[k]) \in Spoken
  <2>1. t[k] \in WindowItems OBVIOUS
  <2> QED BY <2>1 DEF W!Row, Spoken, ItemRows, WindowItems
<1>5. PICK x \in Spoken : x = W!Row(t[k]) BY <1>4
<1>6. Len(c) = Len(b) + 1 /\ c[Len(b) + 1] = x BY <1>3, <1>5, AppendProperties
<1>7. FirstOf(t, k, Len(t), show)
  <2>1. k \in 0 .. Len(t) /\ Len(t) \in k .. Len(t) OBVIOUS
  <2> QED BY <2>1, OthersBegin
<1>8. Len(c) <= Len(others) /\ \A i \in 1 .. Len(c) : others[i] = c[i] BY <1>2, <1>7 DEF FirstOf
<1>9. Len(b) \in Nat /\ so.n = Len(b) /\ Len(others) \in Nat BY <1>2
<1>10. so.n + 1 \in 1 .. Len(c) BY <1>6, <1>9
<1> QED BY <1>2, <1>5, <1>6, <1>8, <1>9, <1>10

(* The loop keeps it so.                                                     *)
LEMMA PlacedStep ==
  ASSUME NEW t \in Seq(WindowItems), NEW k \in 1 .. Len(t),
         NEW its \in Seq(WindowItems), k <= Len(its), \A i \in 1 .. k : its[i] = t[i],
         NEW others \in Seq(ItemRows), others = Others(t, Len(t), show),
         NEW so, Placed(t, k - 1, so)
  PROVE  Placed(t, k, W!Replaced(its, others, so, k))
<1>1. so \in Placing /\ so.n = Len(Others(t, k - 1, show))
      /\ so.placed \o so.pending = Stretch(t, 0, k - 1, ~show)
  BY DEF Placed
<1>2. PICK again : again = W!Replaced(its, others, so, k) /\ ReplacedIs(its, others, so, k, again)
  BY <1>1, ReplacedCases
<1>3. k \in 1 .. Len(its) OBVIOUS
<1>4. again \in Placing BY <1>1, <1>2, <1>3, ReplacedTypes
<1>5. its[k] = t[k] OBVIOUS
<1>6. W!Shows(its, k, ~show) <=> W!Shows(t, k, ~show)
  <2>1. CASE k = 1 BY <1>5, <2>1 DEF W!Shows
  <2>2. CASE k # 1
    <3>1. k - 1 \in 1 .. k BY <2>2
    <3>2. its[k - 1] = t[k - 1] BY <3>1
    <3> QED BY <1>5, <3>2 DEF W!Shows
  <2> QED BY <2>1, <2>2
<1>7. FirstsGrow(t, k, ~show) BY FirstsStep
<1>8. PICK x \in ItemRows, p \in Seq(ItemRows), q \in Seq(ItemRows) :
        x = W!Row(t[k]) /\ p = so.placed /\ q = so.pending
  BY <1>1, <1>7 DEF FirstsGrow, Placing
<1>9. p \o q \in Seq(ItemRows) BY ConcatProperties
<1>10. Stretch(t, 0, k, ~show) = IF W!Shows(t, k, ~show) THEN Append(p \o q, x) ELSE p \o q
  BY <1>1, <1>7, <1>8 DEF FirstsGrow
<1>11. p \o Append(q, x) = Append(p \o q, x) BY AppendConcat
<1>12. CASE t[k].thinking
  <2>1. again = [n |-> so.n, placed |-> p, pending |-> IF W!Shows(t, k, ~show) THEN Append(q, x) ELSE q]
    BY <1>2, <1>5, <1>6, <1>8, <1>12, Zenon DEF ReplacedIs
  <2>2. again.placed \o again.pending = Stretch(t, 0, k, ~show)
    <3>1. CASE W!Shows(t, k, ~show)
      <4>1. again.placed = p /\ again.pending = Append(q, x) BY <2>1, <3>1
      <4> QED BY <1>10, <1>11, <3>1, <4>1
    <3>2. CASE ~W!Shows(t, k, ~show)
      <4>1. again.placed = p /\ again.pending = q BY <2>1, <3>2
      <4> QED BY <1>10, <3>2, <4>1
    <3> QED BY <3>1, <3>2
  <2>3. again.n = so.n BY <2>1
  <2>4. Others(t, k, show) = Others(t, k - 1, show) BY <1>12, OthersStep DEF OthersGrow
  <2>5. k # 0 OBVIOUS
  <2> QED BY <1>1, <1>2, <1>4, <1>12, <2>2, <2>3, <2>4, <2>5 DEF Placed
<1>13. CASE ~t[k].thinking
  <2>1. /\ so.n + 1 \in 1 .. Len(others) /\ others[so.n + 1] = W!Row(t[k])
        /\ Len(Others(t, k, show)) = so.n + 1
    BY <1>1, <1>13, ItemFinds
  <2>2. PICK m \in Nat : m = so.n BY <1>1 DEF Placing
  <2>3. m + 1 \in Hits(its, others, so, k)
    <3>1. others[m + 1].of = its[k].id BY <1>5, <2>1, <2>2 DEF W!Row
    <3>2. m + 1 \in so.n + 1 .. Len(others) BY <2>1, <2>2
    <3> QED BY <3>1, <3>2 DEF Hits
  <2>4. \A j \in Hits(its, others, so, k) : j >= m + 1 /\ j \in Nat BY <2>1, <2>2 DEF Hits
  <2>5. PICK hit \in Hits(its, others, so, k) :
          /\ \A i \in Hits(its, others, so, k) : hit <= i
          /\ again = [n |-> hit, pending |-> << >>,
                      placed |-> so.placed \o SubSeq(others, so.n + 1, hit - 1) \o so.pending
                                   \o <<others[hit]>>]
    <3>1. Hits(its, others, so, k) # {} BY <2>3
    <3> QED BY <1>2, <1>5, <1>13, <3>1, Zenon DEF ReplacedIs
  <2>6. hit = m + 1
    <3>1. hit <= m + 1 BY <2>3, <2>5
    <3>2. hit >= m + 1 /\ hit \in Nat BY <2>4
    <3> QED BY <3>1, <3>2
  <2>7. SubSeq(others, so.n + 1, hit - 1) = << >>
    <3>1. hit - 1 = m /\ so.n + 1 = m + 1 BY <2>2, <2>6
    <3> QED BY <3>1, SubSeqEmpty
  <2>8. p \o << >> = p OBVIOUS
  <2>9. (p \o q) \o <<x>> = Append(p \o q, x) BY <1>9, AppendIsConcat
  <2>10. others[hit] = x BY <1>8, <2>1, <2>2, <2>6
  <2>11. again.placed = Append(p \o q, x) /\ again.pending = << >> /\ again.n = hit
    BY <1>8, <2>5, <2>7, <2>8, <2>9, <2>10
  <2>12. W!Shows(t, k, ~show) BY <1>13 DEF W!Shows
  <2>13. Append(p \o q, x) \in Seq(ItemRows) BY <1>9
  <2>14. Append(p \o q, x) \o << >> = Append(p \o q, x) BY <2>13
  <2>15. again.placed \o again.pending = Stretch(t, 0, k, ~show) BY <1>10, <2>11, <2>12, <2>14
  <2>16. again.n = Len(Others(t, k, show)) BY <2>1, <2>2, <2>6, <2>11
  <2> QED BY <1>2, <1>4, <2>11, <2>15, <2>16 DEF Placed
<1> QED BY <1>12, <1>13

(* Thinking is dropped and mounted again: the rows of the window as they are *)
(* with the other visibility, and what is left of the others after them.     *)
LEMMA RemountedIs ==
  ASSUME NEW t \in Seq(WindowItems), NEW n \in 0 .. Len(t),
         \/ n = Len(t)
         \/ Len(t) = n + 1 /\ ~t[n + 1].thinking /\ (n = 0 \/ ~t[n].thinking)
  PROVE  W!Remounted(SubSeq(t, 1, n), Others(t, Len(t), show)) = Stretch(t, 0, Len(t), ~show)
<1>0. PICK l \in Nat : l = Len(t) OBVIOUS
<1>1. PICK its \in Seq(WindowItems) :
        its = SubSeq(t, 1, n) /\ Len(its) = n /\ \A i \in 1 .. n : its[i] = t[i]
  <2>1. 0 \in Nat /\ n \in Nat /\ 0 <= n /\ n <= Len(t) BY <1>0
  <2>2. Slice(t, 0, n) /\ SubSeq(t, 0 + 1, n) \in Seq(WindowItems) BY <2>1, SliceIs
  <2>3. 0 + 1 = 1 /\ n - 0 = n /\ \A i \in 1 .. n : 0 + i = i OBVIOUS
  <2> QED BY <2>2, <2>3 DEF Slice
<1>2. FirstOf(t, 0, l, show) /\ Others(t, 0, show) = << >>
  <2>1. 0 \in 0 .. Len(t) /\ l \in 0 .. Len(t) /\ 0 \in 0 .. 0 BY <1>0
  <2>2. Stretch(t, 0, 0, show) = << >> BY <2>1, StretchNone
  <2>3. << >> \in Seq(Spoken) OBVIOUS
  <2>4. I!Among(<< >>, Spoken) = << >> BY <2>3, AmongAll
  <2> QED BY <2>1, <2>2, <2>4, OthersBegin DEF Others
<1>3. PICK others \in Seq(ItemRows) : others = Others(t, Len(t), show)
  <2>1. Others(t, l, show) \in Seq(Spoken) BY <1>2 DEF FirstOf
  <2>2. Spoken \subseteq ItemRows BY DEF Spoken
  <2> QED BY <1>0, <2>1, <2>2
<1>4. PICK f : Loops(its, others, f) BY LoopSteps
<1> DEFINE K == {k \in 0 .. n : Placed(t, k, f[k])}
<1>5. 0 \in K
  <2>1. f[0] = Unplaced BY <1>4 DEF Loops
  <2>2. Stretch(t, 0, 0, ~show) = << >>
    <3>1. 0 \in 0 .. Len(t) /\ 0 \in 0 .. 0 BY <1>0
    <3> QED BY <3>1, StretchNone
  <2>3. << >> \o << >> = << >> /\ << >> \in Seq(ItemRows) /\ Len(<< >>) = 0 OBVIOUS
  <2>4. Placed(t, 0, Unplaced) BY <1>2, <2>2, <2>3 DEF Placed, Unplaced, Placing
  <2> QED BY <2>1, <2>4
<1>6. ASSUME NEW k \in 1 .. n, k - 1 \in K PROVE k \in K
  <2>1. k \in 1 .. Len(t) /\ k <= Len(its) /\ \A i \in 1 .. k : its[i] = t[i] BY <1>0, <1>1
  <2>2. Placed(t, k - 1, f[k - 1]) BY <1>6
  <2>3. f[k] = W!Replaced(its, others, f[k - 1], k)
    <3>1. k \in 1 .. Len(its) BY <1>1
    <3> QED BY <1>4, <3>1 DEF Loops
  <2>4. Placed(t, k, f[k]) BY <1>3, <2>1, <2>2, <2>3, PlacedStep
  <2> QED BY <2>4
<1> HIDE DEF K
<1>7. \A k \in 0 .. n : k \in K
  <2>1. n \in Nat OBVIOUS
  <2> QED BY <1>5, <1>6, <2>1, UpTo
<1>8. n \in K BY <1>7
<1>9. PICK so : so = f[n] /\ Placed(t, n, so) BY <1>8 DEF K
<1>10. W!Remounted(its, others) = so.placed \o SubSeq(others, so.n + 1, Len(others)) \o so.pending
  BY <1>1, <1>4, <1>9 DEF Loops
<1>11. PICK p \in Seq(ItemRows), q \in Seq(ItemRows) : p = so.placed /\ q = so.pending
  BY <1>9 DEF Placed, Placing
<1>12. p \o q = Stretch(t, 0, n, ~show) /\ so.n = Len(Others(t, n, show)) BY <1>9, <1>11 DEF Placed
<1>13. CASE n = Len(t)
  <2>1. so.n = Len(others) /\ Len(others) \in Nat BY <1>3, <1>12, <1>13
  <2>2. SubSeq(others, so.n + 1, Len(others)) = << >> BY <2>1, SubSeqEmpty
  <2>3. p \o << >> = p OBVIOUS
  <2> QED BY <1>1, <1>3, <1>10, <1>11, <1>12, <1>13, <2>2, <2>3
<1>14. CASE Len(t) = n + 1 /\ ~t[n + 1].thinking /\ (n = 0 \/ ~t[n].thinking)
  <2>1. q = << >> BY <1>9, <1>11, <1>14 DEF Placed
  <2>2. PICK k \in 1 .. Len(t) : k = n + 1 /\ k - 1 = n /\ k = Len(t) BY <1>14
  <2>3. /\ so.n + 1 \in 1 .. Len(others) /\ others[so.n + 1] = W!Row(t[k])
        /\ Len(others) = so.n + 1
    <3>1. so \in Placing BY <1>9 DEF Placed
    <3>2. ~t[k].thinking /\ so.n = Len(Others(t, k - 1, show)) BY <1>12, <1>14, <2>2
    <3>3. /\ so.n + 1 \in 1 .. Len(others) /\ others[so.n + 1] = W!Row(t[k])
          /\ Len(Others(t, k, show)) = so.n + 1
      BY <1>3, <3>1, <3>2, ItemFinds
    <3> QED BY <1>3, <2>2, <3>3
  <2>4. FirstsGrow(t, k, ~show) BY FirstsStep
  <2>5. PICK x \in ItemRows : x = W!Row(t[k]) BY <2>4 DEF FirstsGrow
  <2>6. SubSeq(others, so.n + 1, Len(others)) = <<x>>
    <3>1. PICK m \in 1 .. Len(others) : m = so.n + 1 /\ m = Len(others) BY <2>3
    <3>2. \A i \in m .. m : others[i] \in ItemRows BY <3>1
    <3>3. SubSeq(others, m, m) \in Seq(ItemRows) /\ Len(SubSeq(others, m, m)) = 1
          /\ SubSeq(others, m, m)[1] = others[m]
      BY <3>2, SubSeqProperties
    <3>4. PICK u \in Seq(ItemRows) : u = SubSeq(others, m, m) BY <3>3
    <3>5. others[m] = x /\ <<x>> \in Seq(ItemRows) /\ Len(<<x>>) = 1 /\ <<x>>[1] = x
      BY <2>3, <2>5, <3>1
    <3>7. PICK z \in Seq(ItemRows) : z = <<x>> BY <3>5
    <3>8. Len(u) = 1 /\ Len(z) = 1 /\ u[1] = z[1] BY <3>3, <3>4, <3>5, <3>7
    <3>9. \A i \in 1 .. Len(u) : u[i] = z[i] BY <3>8
    <3>6. u = <<x>> BY <3>7, <3>8, <3>9
    <3> QED BY <3>1, <3>4, <3>6
  <2>7. W!Shows(t, k, ~show) BY <1>14, <2>2 DEF W!Shows
  <2>8. p \o << >> = p OBVIOUS
  <2>9. Stretch(t, 0, k, ~show) = Append(p, x)
    <3>1. Stretch(t, 0, k - 1, ~show) = p BY <1>12, <2>1, <2>2, <2>8
    <3> QED BY <2>4, <2>5, <2>7, <3>1 DEF FirstsGrow
  <2>10. p \o <<x>> = Append(p, x) BY AppendIsConcat
  <2>11. Append(p, x) \in Seq(ItemRows) OBVIOUS
  <2>12. Append(p, x) \o << >> = Append(p, x) BY <2>11
  <2>13. W!Remounted(its, others) = Append(p, x)
    BY <1>10, <1>11, <2>1, <2>6, <2>10, <2>12
  <2> QED BY <1>1, <1>3, <2>2, <2>9, <2>13
<1> QED BY <1>13, <1>14

Kinds == {"text", "thinking"}

WindowTypes ==
  /\ windowItems \in Seq(WindowItems) /\ windowMade \in Nat
  /\ first \in Nat /\ end \in Nat /\ first <= end /\ end <= Len(windowItems)
  /\ follow \in BOOLEAN /\ show \in BOOLEAN /\ stale \in BOOLEAN
  /\ shift \in {"none", "earlier", "later", "anchoring"}
  /\ windowPhase \in {"idle", "asked", "streaming"} /\ windowStart \in Nat
  /\ windowSaid \in Seq(Kinds) /\ takes \subseteq W!Range(windowSaid)

(* A message follows an item that is not thinking, and until it ends has at  *)
(* most one item, its thinking.                                              *)
SpeechInv ==
  /\ windowPhase # "streaming" => windowSaid = << >>
  /\ windowPhase = "asked" =>
       windowItems # << >> /\ ~windowItems[Len(windowItems)].thinking
  /\ windowPhase = "streaming" =>
       /\ windowStart \in 1 .. Len(windowItems) /\ ~windowItems[windowStart].thinking
       /\ Len(windowItems) = windowStart + (IF "thinking" \in W!Range(windowSaid) THEN 1 ELSE 0)
       /\ \A i \in windowStart + 1 .. Len(windowItems) : windowItems[i].thinking

(* Between messages the rows are those of the window; a message of text      *)
(* leaves its row, and the window does not know of the item.                 *)
SettledInv ==
  windowPhase # "streaming" /\ ~stale =>
    /\ end - first <= Window + Overscan
    /\ \/ /\ rows = Stretch(windowItems, first, end, show)
          /\ follow /\ shift # "anchoring" => end = Len(windowItems)
       \/ /\ windowPhase = "idle" /\ rows = Stretch(windowItems, first, end + 1, show)
          /\ Len(windowItems) = end + 1 /\ end >= 1
          /\ ~windowItems[end].thinking /\ ~windowItems[end + 1].thinking

(* While a message streams its rows come after those that were there: kept,  *)
(* the rows of items, then active ones.                                      *)
Streamed(kept, all, spoken, taken) ==
  /\ kept \in Seq(ItemRows) /\ all \in Seq(WindowRows) /\ Len(kept) <= Len(all)
  /\ \A i \in 1 .. Len(kept) : all[i] = kept[i]
  /\ \A i \in Len(kept) + 1 .. Len(all) : all[i].active
  /\ spoken = << >> => Len(all) = Len(kept) /\ taken = {}
  /\ spoken = <<"text">> => Len(all) = Len(kept) + 1 /\ taken = {"text"}
  /\ "text" \in taken => \E i \in Len(kept) + 1 .. Len(all) : all[i] = W!StreamRow(FALSE)

LiveInv ==
  windowPhase = "streaming" /\ ~stale =>
    \/ end < windowStart
    \/ /\ end = Len(windowItems) /\ first <= windowStart /\ windowStart - first <= Window + Overscan
       /\ Streamed(Stretch(windowItems, first, windowStart, show), rows, windowSaid, takes)

WindowInv == WindowTypes /\ SpeechInv /\ SettledInv /\ LiveInv

(* What a redraw mounts.                                                     *)
Redrawn(its, keep, b, typing) ==
  /\ first' \in Nat /\ end' \in Nat /\ first' <= end' /\ end' <= Len(its) /\ end' - first' <= Window
  /\ ~keep \/ b >= Len(its) => end' = Len(its)
  /\ takes' \subseteq {"text"}
  /\ ~typing => takes' = {} /\ rows' = Stretch(its, first', end', show)
(* A window of items, of at most its size.                                   *)
LEMMA RedrawIs ==
  ASSUME W!WindowAssumption, NEW its \in Seq(WindowItems), NEW keep \in BOOLEAN, NEW a \in Nat, NEW b \in Nat,
         NEW typing \in BOOLEAN, W!Redraw(its, keep, a, b, typing)
  PROVE  Redrawn(its, keep, b, typing)
<1>1. PICK total \in Nat : total = Len(its) OBVIOUS
<1>2. Window \in Nat \ {0} BY DEF W!WindowAssumption
<1> DEFINE e == IF keep /\ b > a THEN W!Least(b, total) ELSE total
           f == IF keep /\ b > a THEN (IF e - W!Least(a, e) > Window THEN e - Window ELSE W!Least(a, e))
                ELSE W!Less(total, Window)
           tail == e = total /\ typing
<1>3. /\ first' = f /\ end' = e
      /\ rows' = W!RowsOf(SubSeq(its, f + 1, e), show) \o (IF tail THEN <<W!StreamRow(FALSE)>> ELSE << >>)
      /\ takes' = IF tail THEN {"text"} ELSE {}
  BY <1>1, Zenon DEF W!Redraw
<1>4. e \in Nat /\ e <= total /\ (~keep \/ b >= total => e = total)
  BY <1>1 DEF W!Least
<1>5. f \in Nat /\ f <= e /\ e - f <= Window
  <2> HIDE DEF e
  <2>1. CASE keep /\ b > a
    BY <1>2, <1>4, <2>1 DEF W!Least
  <2>2. CASE ~(keep /\ b > a)
    <3>1. e = total BY <2>2 DEF e
    <3> QED BY <1>2, <2>2, <3>1 DEF W!Less
  <2> QED BY <2>1, <2>2
<1> HIDE DEF e, f
<1>6. takes' \subseteq {"text"} /\ (~typing => takes' = {})
  BY <1>3
<1>7. ASSUME ~typing PROVE rows' = Stretch(its, first', end', show)
  <2>1. rows' = W!RowsOf(SubSeq(its, f + 1, e), show) \o << >> BY <1>3, <1>7
  <2>2. Stretch(its, f, e, show) \in Seq(ItemRows)
    <3>1. e \in 0 .. Len(its) BY <1>1, <1>4
    <3> QED BY <1>5, <3>1, StretchTypes
  <2>3. PICK s \in Seq(ItemRows) : s = Stretch(its, f, e, show) BY <2>2
  <2>4. s \o << >> = s OBVIOUS
  <2> QED BY <1>3, <2>1, <2>3, <2>4 DEF Stretch
<1> QED BY <1>1, <1>3, <1>4, <1>5, <1>6, <1>7 DEF Redrawn

(* A sequence of one text.                                                   *)
LEMMA OnlyText ==
  ASSUME NEW s \in Seq(Kinds)
  PROVE  s = <<"text">> <=> Len(s) = 1 /\ s[1] = "text"
<1>0. PICK x \in Kinds : x = "text" BY DEF Kinds
<1>3. <<x>> \in Seq(Kinds) /\ Len(<<x>>) = 1 /\ <<x>>[1] = x OBVIOUS
<1>1. PICK z \in Seq(Kinds) : z = <<"text">> /\ Len(z) = 1 /\ z[1] = "text" BY <1>0, <1>3
<1>2. ASSUME Len(s) = 1, s[1] = "text" PROVE s = z
  <2>1. \A i \in 1 .. Len(s) : s[i] = z[i] BY <1>1, <1>2
  <2> QED BY <1>1, <1>2, <2>1
<1> QED BY <1>1, <1>2

(* What is said after one delta more.                                        *)
SaidAdds(kind) ==
  /\ W!Said(kind) \in Seq(Kinds) /\ W!Said(kind) # << >>
  /\ W!Range(W!Said(kind)) = W!Range(windowSaid) \union {kind}
  /\ W!Said(kind) = <<"text">> => kind = "text" /\ (windowSaid = << >> \/ windowSaid = <<"text">>)
(* A delta continues the last block or opens one.                            *)
LEMMA SaidIs ==
  ASSUME windowSaid \in Seq(Kinds), NEW kind \in Kinds
  PROVE  SaidAdds(kind)
<1>1. PICK s \in Seq(Kinds) : s = windowSaid OBVIOUS
<1>2. CASE s # << >> /\ s[Len(s)] = kind
  <2>1. W!Said(kind) = s BY <1>1, <1>2 DEF W!Said
  <2>2. Len(s) \in DOMAIN s /\ Len(s) \in Nat BY <1>2
  <2>3. W!Range(s) = W!Range(s) \union {kind} BY <1>2, <2>2 DEF W!Range
  <2>4. s = <<"text">> => kind = "text" BY <1>2, OnlyText
  <2> QED BY <1>1, <1>2, <2>1, <2>3, <2>4 DEF SaidAdds
<1>3. CASE ~(s # << >> /\ s[Len(s)] = kind)
  <2>1. W!Said(kind) = Append(s, kind) BY <1>1, <1>3 DEF W!Said
  <2>2. PICK t \in Seq(Kinds) : /\ t = Append(s, kind) /\ t # << >> /\ Len(t) = Len(s) + 1
                                /\ \A i \in 1 .. Len(s) : t[i] = s[i] /\ t[Len(s) + 1] = kind
    <3>1. /\ Append(s, kind) \in Seq(Kinds) /\ Append(s, kind) # << >>
          /\ Len(Append(s, kind)) = Len(s) + 1
          /\ \A i \in 1 .. Len(s) : Append(s, kind)[i] = s[i]
          /\ Append(s, kind)[Len(s) + 1] = kind
      BY AppendProperties
    <3> QED BY <3>1
  <2>3. t[Len(s) + 1] = kind BY <2>2, AppendProperties
  <2>4. W!Range(t) = W!Range(s) \union {kind}
    <3>1. DOMAIN t = 1 .. Len(s) + 1 /\ DOMAIN s = 1 .. Len(s) /\ Len(s) \in Nat BY <2>2
    <3>2. ASSUME NEW x \in W!Range(t) PROVE x \in W!Range(s) \union {kind}
      <4>1. PICK i \in 1 .. Len(s) + 1 : x = t[i] BY <3>1 DEF W!Range
      <4>2. CASE i = Len(s) + 1 BY <2>3, <4>1, <4>2
      <4>3. CASE i # Len(s) + 1
        <5>1. i \in 1 .. Len(s) BY <3>1, <4>3
        <5>2. x = s[i] /\ i \in DOMAIN s BY <2>2, <3>1, <4>1, <5>1
        <5> QED BY <5>2 DEF W!Range
      <4> QED BY <4>2, <4>3
    <3>3. ASSUME NEW x \in W!Range(s) PROVE x \in W!Range(t)
      <4>1. PICK i \in 1 .. Len(s) : x = s[i] BY <3>1 DEF W!Range
      <4>2. x = t[i] /\ i \in DOMAIN t BY <2>2, <3>1, <4>1
      <4> QED BY <4>2 DEF W!Range
    <3>4. kind \in W!Range(t)
      <4>1. Len(s) + 1 \in DOMAIN t BY <3>1
      <4> QED BY <2>3, <4>1 DEF W!Range
    <3> QED BY <3>2, <3>3, <3>4
  <2>5. t = <<"text">> => kind = "text" /\ s = << >>
    <3> SUFFICES ASSUME t = <<"text">> PROVE kind = "text" /\ s = << >> OBVIOUS
    <3>1. Len(t) = 1 /\ t[1] = "text" BY OnlyText
    <3>2. Len(s) = 0 BY <2>2, <3>1
    <3>3. s = << >> BY <3>2
    <3>4. Len(s) + 1 = 1 BY <3>2
    <3> QED BY <2>3, <3>1, <3>3, <3>4
  <2> QED BY <1>1, <2>1, <2>2, <2>4, <2>5 DEF SaidAdds
<1> QED BY <1>2, <1>3

\* x stands at the place i, the rest around it
Inserted(s, i, x, t) ==
  /\ Len(t) = Len(s) + 1 /\ t[i] = x
  /\ \A j \in 1 .. i - 1 : t[j] = s[j]
  /\ \A j \in i + 1 .. Len(s) + 1 : t[j] = s[j - 1]
(* An element put in.                                                        *)
LEMMA InsertIs ==
  ASSUME NEW V, NEW s \in Seq(V), NEW x \in V, NEW i \in 1 .. Len(s)
  PROVE  W!InsertAt(s, i, x) \in Seq(V) /\ Inserted(s, i, x, W!InsertAt(s, i, x))
<1>1. PICK l \in Nat : l = Len(s) OBVIOUS
<1>2. \A j \in 1 .. l : s[j] \in V BY <1>1
<1>3. PICK a \in Seq(V) : /\ a = SubSeq(s, 1, i - 1) /\ Len(a) = i - 1
                          /\ \A j \in 1 .. i - 1 : a[j] = s[j]
  <2>1. 0 \in Nat /\ i - 1 \in Nat /\ 0 <= i - 1 /\ i - 1 <= Len(s) BY <1>1
  <2>2. Slice(s, 0, i - 1) /\ SubSeq(s, 0 + 1, i - 1) \in Seq(V) BY <2>1, SliceIs
  <2>3. 0 + 1 = 1 /\ (i - 1) - 0 = i - 1 /\ \A j \in 1 .. i - 1 : 0 + j = j OBVIOUS
  <2>4. PICK a \in Seq(V) : a = SubSeq(s, 0 + 1, i - 1) BY <2>2
  <2>5. Len(a) = i - 1 /\ \A j \in 1 .. i - 1 : a[j] = s[j] BY <2>2, <2>3, <2>4 DEF Slice
  <2> QED BY <2>3, <2>4, <2>5
<1>4. PICK c \in Seq(V) : /\ c = SubSeq(s, i, l) /\ Len(c) = l - i + 1
                          /\ \A j \in 1 .. l - i + 1 : c[j] = s[i + j - 1]
  <2>1. i - 1 \in Nat /\ l \in Nat /\ i - 1 <= l /\ l <= Len(s) BY <1>1
  <2>2. Slice(s, i - 1, l) /\ SubSeq(s, (i - 1) + 1, l) \in Seq(V) BY <2>1, SliceIs
  <2>3. (i - 1) + 1 = i /\ l - (i - 1) = l - i + 1 /\ \A j \in 1 .. l - i + 1 : (i - 1) + j = i + j - 1
    OBVIOUS
  <2>4. PICK c \in Seq(V) : c = SubSeq(s, (i - 1) + 1, l) BY <2>2
  <2>5. Len(c) = l - i + 1 /\ \A j \in 1 .. l - i + 1 : c[j] = s[i + j - 1]
    BY <2>2, <2>3, <2>4 DEF Slice
  <2> QED BY <2>3, <2>4, <2>5
<1>5. PICK d \in Seq(V) : d = a \o <<x>> /\ Len(d) = i /\ d[i] = x /\ \A j \in 1 .. i - 1 : d[j] = s[j]
  <2>1. a \o <<x>> = Append(a, x) BY AppendIsConcat
  <2>2. /\ Append(a, x) \in Seq(V) /\ Len(Append(a, x)) = Len(a) + 1
        /\ \A j \in 1 .. Len(a) : Append(a, x)[j] = a[j]
        /\ Append(a, x)[Len(a) + 1] = x
    BY AppendProperties
  <2>3. Len(a) + 1 = i BY <1>1, <1>3
  <2> QED BY <1>3, <2>1, <2>2, <2>3
<1>6. /\ d \o c \in Seq(V) /\ Len(d \o c) = Len(d) + Len(c)
      /\ \A j \in 1 .. Len(d) + Len(c) : (d \o c)[j] = IF j <= Len(d) THEN d[j] ELSE c[j - Len(d)]
  BY ConcatProperties
<1>7. PICK t \in Seq(V) : /\ t = W!InsertAt(s, i, x) /\ Len(t) = l + 1
                          /\ \A j \in 1 .. l + 1 : t[j] = IF j <= i THEN d[j] ELSE c[j - i]
  <2>1. W!InsertAt(s, i, x) = d \o c BY <1>1, <1>3, <1>4, <1>5 DEF W!InsertAt
  <2>2. Len(d) + Len(c) = l + 1 BY <1>1, <1>4, <1>5
  <2> QED BY <1>5, <1>6, <2>1, <2>2
<1>8. \A j \in 1 .. i - 1 : t[j] = s[j]
  <2> TAKE j \in 1 .. i - 1
  <2>1. j \in 1 .. l + 1 /\ j <= i BY <1>1
  <2>2. t[j] = d[j] BY <1>7, <2>1
  <2> QED BY <1>5, <2>2
<1>9. t[i] = x BY <1>1, <1>5, <1>7
<1>10. \A j \in i + 1 .. l + 1 : t[j] = s[j - 1]
  <2> TAKE j \in i + 1 .. l + 1
  <2>1. j \in 1 .. l + 1 /\ j > i /\ j - i \in 1 .. l - i + 1 /\ i + (j - i) - 1 = j - 1
    BY <1>1
  <2>2. t[j] = c[j - i] BY <1>7, <2>1
  <2>3. c[j - i] = s[i + (j - i) - 1] BY <1>4, <2>1
  <2> QED BY <2>1, <2>2, <2>3
<1> QED BY <1>1, <1>7, <1>8, <1>9, <1>10 DEF Inserted

(* Streamed rows are rows, and tell text from thinking.                      *)
LEMMA StreamRows ==
  ASSUME NEW thinking \in BOOLEAN
  PROVE  W!StreamRow(thinking) \in WindowRows /\ W!StreamRow(thinking).active
BY DEF W!StreamRow, WindowRows

(* An active row more at the end.                                            *)
LEMMA StreamAppends ==
  ASSUME NEW kept, NEW all, NEW spoken, NEW taken, Streamed(kept, all, spoken, taken),
         NEW thinking \in BOOLEAN, NEW more, more = Append(all, W!StreamRow(thinking)),
         NEW said2, said2 # << >>, NEW takes2,
         said2 = <<"text">> => spoken = << >> /\ takes2 = {"text"},
         "text" \in takes2 => ~thinking \/ "text" \in taken
  PROVE  Streamed(kept, more, said2, takes2)
<1>1. PICK s \in Seq(WindowRows), k \in Seq(ItemRows), x \in WindowRows :
        s = all /\ k = kept /\ x = W!StreamRow(thinking) /\ x.active
  BY StreamRows DEF Streamed
<1>2. PICK n \in Nat, m \in Nat : n = Len(s) /\ m = Len(k) OBVIOUS
<1>3. PICK t \in Seq(WindowRows) : /\ t = Append(s, x) /\ Len(t) = n + 1 /\ t[n + 1] = x
                                   /\ \A i \in 1 .. n : t[i] = s[i]
  <2>1. /\ Append(s, x) \in Seq(WindowRows) /\ Len(Append(s, x)) = Len(s) + 1
        /\ \A i \in 1 .. Len(s) : Append(s, x)[i] = s[i]
        /\ Append(s, x)[Len(s) + 1] = x
    BY AppendProperties
  <2> QED BY <1>2, <2>1
<1>4. m <= n /\ \A i \in 1 .. m : s[i] = k[i] BY <1>1, <1>2 DEF Streamed
<1>5. \A i \in m + 1 .. n : s[i].active BY <1>1, <1>2 DEF Streamed
<1>6. \A i \in 1 .. m : t[i] = k[i] BY <1>3, <1>4
<1>7. \A i \in m + 1 .. n + 1 : t[i].active
  <2> TAKE i \in m + 1 .. n + 1
  <2>1. CASE i = n + 1 BY <1>1, <1>3, <2>1
  <2>2. CASE i # n + 1 BY <1>3, <1>5, <2>2
  <2> QED BY <2>1, <2>2
<1>8. said2 = <<"text">> => n + 1 = m + 1 /\ takes2 = {"text"}
  BY <1>1, <1>2 DEF Streamed
<1>9. "text" \in takes2 => \E i \in m + 1 .. n + 1 : t[i] = W!StreamRow(FALSE)
  <2> SUFFICES ASSUME "text" \in takes2 PROVE \E i \in m + 1 .. n + 1 : t[i] = W!StreamRow(FALSE)
    OBVIOUS
  <2>1. CASE ~thinking
    <3>1. x = W!StreamRow(FALSE) BY <1>1, <2>1
    <3>2. n + 1 \in m + 1 .. n + 1 BY <1>4
    <3> QED BY <1>3, <3>1, <3>2
  <2>2. CASE "text" \in taken
    <3>1. PICK i \in m + 1 .. n : s[i] = W!StreamRow(FALSE) BY <1>1, <1>2, <2>2 DEF Streamed
    <3>2. i \in m + 1 .. n + 1 /\ t[i] = s[i] BY <1>3, <1>4
    <3> QED BY <3>1, <3>2
  <2> QED BY <2>1, <2>2
<1>10. more = t BY <1>1, <1>3
<1>11. Len(k) <= Len(t) BY <1>2, <1>3, <1>4
<1>12. Streamed(k, t, said2, takes2)
  <2>1. Len(t) = n + 1 /\ Len(k) = m BY <1>2, <1>3
  <2> QED BY <1>6, <1>7, <1>8, <1>9, <1>11, <2>1 DEF Streamed
<1> QED BY <1>1, <1>10, <1>12

(* A streamed thinking row is put above the streamed text, or comes last.    *)
LEMMA StreamInserts ==
  ASSUME NEW kept, Streamed(kept, rows, windowSaid, takes),
         NEW said2, said2 # << >>, said2 # <<"text">>, NEW takes2, "text" \in takes2 => "text" \in takes
  PROVE  Streamed(kept, W!Mounted(W!StreamRow(TRUE)), said2, takes2)
<1>1. CASE "text" \notin takes
  <2>1. W!Mounted(W!StreamRow(TRUE)) = Append(rows, W!StreamRow(TRUE)) BY <1>1 DEF W!Mounted
  <2> QED BY <1>1, <2>1, StreamAppends
<1>2. CASE "text" \in takes
  <2>1. PICK s \in Seq(WindowRows), k \in Seq(ItemRows), x \in WindowRows :
          s = rows /\ k = kept /\ x = W!StreamRow(TRUE) /\ x.active
    BY StreamRows DEF Streamed
  <2>2. PICK n \in Nat, m \in Nat : n = Len(s) /\ m = Len(k) OBVIOUS
  <2>3. m <= n /\ \A i \in 1 .. m : s[i] = k[i] BY <2>1, <2>2 DEF Streamed
  <2>4. \A i \in m + 1 .. n : s[i].active BY <2>1, <2>2 DEF Streamed
  <2>5. \E j \in DOMAIN rows : rows[j] = W!StreamRow(FALSE)
    <3>1. PICK j \in m + 1 .. n : s[j] = W!StreamRow(FALSE) BY <1>2, <2>1, <2>2 DEF Streamed
    <3>2. j \in DOMAIN s BY <2>2
    <3> QED BY <2>1, <3>1, <3>2
  <2> DEFINE spot == CHOOSE j \in DOMAIN rows : rows[j] = W!StreamRow(FALSE)
  <2>6. spot \in DOMAIN rows /\ rows[spot] = W!StreamRow(FALSE) BY <2>5, Zenon
  <2>7. W!Mounted(W!StreamRow(TRUE)) = W!InsertAt(rows, spot, W!StreamRow(TRUE))
    BY <1>2, Zenon DEF W!Mounted
  <2> HIDE DEF spot
  <2>8. PICK i \in 1 .. n : i = spot /\ s[i].active /\ s[i] = W!StreamRow(FALSE)
    <3>1. DOMAIN s = 1 .. n BY <2>2
    <3>2. W!StreamRow(FALSE).active BY StreamRows
    <3> QED BY <2>1, <2>6, <3>1, <3>2
  <2>9. i > m
    <3> SUFFICES ASSUME i <= m PROVE FALSE BY <2>8
    <3>1. i \in 1 .. m OBVIOUS
    <3>2. s[i] = k[i] /\ k[i] \in ItemRows BY <2>2, <2>3, <3>1
    <3> QED BY <2>8, <3>2 DEF ItemRows
  <2>10. W!InsertAt(s, i, x) \in Seq(WindowRows) /\ Inserted(s, i, x, W!InsertAt(s, i, x))
    BY <2>2, InsertIs
  <2>11. PICK t \in Seq(WindowRows) : t = W!InsertAt(s, i, x) BY <2>10
  <2>12. /\ Len(t) = n + 1 /\ t[i] = x /\ \A j \in 1 .. i - 1 : t[j] = s[j]
         /\ \A j \in i + 1 .. n + 1 : t[j] = s[j - 1]
    BY <2>2, <2>10, <2>11 DEF Inserted
  <2>13. \A j \in 1 .. m : t[j] = k[j] BY <2>3, <2>9, <2>12
  <2>14. \A j \in m + 1 .. n + 1 : t[j].active
    <3> TAKE j \in m + 1 .. n + 1
    <3>1. CASE j < i
      <4>1. j \in 1 .. i - 1 /\ j \in m + 1 .. n BY <3>1
      <4> QED BY <2>4, <2>12, <4>1
    <3>2. CASE j = i BY <2>1, <2>12, <3>2
    <3>3. CASE j > i
      <4>1. j \in i + 1 .. n + 1 /\ j - 1 \in m + 1 .. n BY <2>9, <3>3
      <4> QED BY <2>4, <2>12, <4>1
    <3> QED BY <3>1, <3>2, <3>3
  <2>15. \E j \in m + 1 .. n + 1 : t[j] = W!StreamRow(FALSE)
    <3>1. i + 1 \in m + 1 .. n + 1 /\ i + 1 \in i + 1 .. n + 1 /\ (i + 1) - 1 = i BY <2>9
    <3>2. t[i + 1] = s[i] BY <2>12, <3>1
    <3> QED BY <2>8, <3>1, <3>2
  <2>16. W!Mounted(W!StreamRow(TRUE)) = t BY <2>1, <2>7, <2>8, <2>11
  <2>17. Len(k) <= Len(t) BY <2>2, <2>3, <2>12
  <2> QED BY <2>1, <2>2, <2>12, <2>13, <2>14, <2>15, <2>16, <2>17 DEF Streamed
<1> QED BY <1>1, <1>2

(* The rows are settled, nothing streams, and the window is one of items.    *)
Settled(total) ==
  /\ SettledInv' /\ takes' = {}
  /\ first' \in Nat /\ end' \in Nat /\ first' <= end' /\ end' <= total
(* A redraw settles the rows.                                                *)
LEMMA RedrawSettles ==
  ASSUME W!WindowAssumption, NEW its, its = windowItems', NEW keep \in BOOLEAN, NEW b,
         Redrawn(its, keep, b, FALSE), show' = show,
         follow' /\ shift' # "anchoring" => ~keep \/ b >= Len(its)
  PROVE  Settled(Len(its))
<1>1. /\ first' \in Nat /\ end' \in Nat /\ first' <= end' /\ end' <= Len(its) /\ end' - first' <= Window
      /\ ~keep \/ b >= Len(its) => end' = Len(its)
      /\ takes' = {} /\ rows' = Stretch(its, first', end', show)
  BY DEF Redrawn
<1>2. PICK w \in Nat, o \in Nat : w = Window /\ o = Overscan BY DEF W!WindowAssumption
<1>3. PICK f \in Nat, e \in Nat : f = first' /\ e = end' BY <1>1
<1>4. e - f <= w + o
  <2>1. e - f <= w BY <1>1, <1>2, <1>3
  <2> QED BY <2>1
<1>5. rows' = Stretch(windowItems', first', end', show') BY <1>1
<1>6. end' - first' <= Window + Overscan BY <1>2, <1>3, <1>4
<1> QED BY <1>1, <1>5, <1>6 DEF SettledInv, Settled

(* A new item that is not thinking has a row of its own.                     *)
LEMMA StretchAppends ==
  ASSUME NEW its \in Seq(WindowItems), NEW more \in Seq(WindowItems), Len(more) = Len(its) + 1,
         \A i \in 1 .. Len(its) : more[i] = its[i], ~more[Len(its) + 1].thinking,
         NEW a \in Nat, a <= Len(its), NEW visible
  PROVE  /\ Stretch(its, a, Len(its), visible) \in Seq(ItemRows)
         /\ Stretch(more, a, Len(its) + 1, visible)
              = Append(Stretch(its, a, Len(its), visible), W!Row(more[Len(its) + 1]))
<1>1. PICK l \in Nat : l = Len(its) OBVIOUS
<1>2. StretchGrows(more, a, l, visible) BY <1>1, StretchStep
<1>3. ShowsNext(more, a, l, visible) BY <1>1 DEF ShowsNext
<1>4. Stretch(its, a, l, visible) = Stretch(more, a, l, visible)
  <2>1. l <= Len(its) /\ l <= Len(more) /\ \A i \in 1 .. l : its[i] = more[i] BY <1>1
  <2> QED BY <2>1, StretchSame
<1> QED BY <1>1, <1>2, <1>3, <1>4 DEF StretchGrows

(* Rows of items are not active, so making them inactive changes nothing.    *)
LEMMA RowsStay ==
  ASSUME rows \in Seq(ItemRows)
  PROVE  [i \in DOMAIN rows |-> [rows[i] EXCEPT !.active = FALSE]] = rows
<1>1. \A i \in DOMAIN rows : rows[i] \in ItemRows OBVIOUS
<1>2. \A r \in ItemRows : [r EXCEPT !.active = FALSE] = r BY DEF ItemRows
<1>3. \A i \in DOMAIN rows : [rows[i] EXCEPT !.active = FALSE] = rows[i] BY <1>1, <1>2
<1>4. rows = [i \in DOMAIN rows |-> rows[i]] OBVIOUS
<1> QED BY <1>3, <1>4

(* An item that is made.                                                     *)
LEMMA MadeIs ==
  ASSUME windowMade \in Nat
  PROVE  \A thinking \in BOOLEAN : [id |-> windowMade + 1, thinking |-> thinking] \in WindowItems
<1>1. windowMade + 1 \in Nat OBVIOUS
<1> QED BY <1>1 DEF WindowItems

(* An item more: what is sent, a tool's row or a status line.                *)
LEMMA WindowItemKeeps ==
  ASSUME W!WindowAssumption, WindowInv, NEW forced \in BOOLEAN, W!Item(forced)
  PROVE  WindowInv'
<1>0. WindowTypes /\ SpeechInv /\ SettledInv BY DEF WindowInv
<1>1. PICK l \in Nat : l = Len(windowItems) BY <1>0 DEF WindowTypes
<1>2. PICK x \in WindowItems : x = [id |-> windowMade + 1, thinking |-> FALSE]
  BY <1>0, MadeIs DEF WindowTypes
<1>3. PICK its \in Seq(WindowItems) : /\ its = Append(windowItems, x) /\ Len(its) = l + 1 /\ its[l + 1] = x
                                      /\ \A i \in 1 .. l : its[i] = windowItems[i]
  <2>1. /\ Append(windowItems, x) \in Seq(WindowItems) /\ Len(Append(windowItems, x)) = Len(windowItems) + 1
        /\ \A i \in 1 .. Len(windowItems) : Append(windowItems, x)[i] = windowItems[i]
        /\ Append(windowItems, x)[Len(windowItems) + 1] = x
    BY <1>0, AppendProperties DEF WindowTypes
  <2> QED BY <1>1, <2>1
<1>4. /\ windowItems' = its /\ W!AppendItem(its, forced) /\ windowPhase # "streaming"
      /\ windowMade' = windowMade + 1 /\ windowPhase' = "asked"
      /\ windowStart' = windowStart /\ windowSaid' = windowSaid
      /\ stale' = IF end < l /\ (forced \/ W!ShouldFollow) THEN FALSE
                  ELSE stale \/ ~(forced \/ W!ShouldFollow) \/ end < l
  BY <1>1, <1>2, <1>3 DEF W!Item, W!Streaming
<1>5. its # << >> /\ ~its[Len(its)].thinking
  BY <1>2, <1>3
<1>6. windowSaid' = << >> BY <1>0, <1>4 DEF SpeechInv
<1>7. first \in Nat /\ end \in Nat /\ first <= end /\ end <= l /\ l = Len(windowItems)
  BY <1>0, <1>1 DEF WindowTypes
<1>8. follow' = (follow \/ forced) /\ shift' = shift /\ show' = show
  BY <1>4 DEF W!AppendItem
<1>9. Window \in Nat \ {0} /\ Overscan \in Nat BY DEF W!WindowAssumption
<1>10. ASSUME end < l, forced \/ W!ShouldFollow PROVE Settled(l + 1)
  <2>1. W!Redraw(its, FALSE, first, end, FALSE)
    <3>1. Len(its) - 1 = l BY <1>3
    <3> QED BY <1>4, <1>10, <3>1 DEF W!AppendItem
  <2>2. Redrawn(its, FALSE, end, FALSE)
    <3>1. FALSE \in BOOLEAN OBVIOUS
    <3> QED BY <1>7, <2>1, <3>1, RedrawIs
  <2>3. its = windowItems' /\ show' = show BY <1>4, <1>8
  <2>4. Settled(Len(its)) BY <2>2, <2>3, RedrawSettles
  <2> QED BY <1>3, <2>4
<1>11. ASSUME ~(end < l /\ (forced \/ W!ShouldFollow)), l > end PROVE Settled(l + 1)
  <2>1. Len(its) - 1 = l BY <1>3
  <2>2. takes' = {} /\ first' = first /\ end' = end
    BY <1>4, <1>11, <2>1 DEF W!AppendItem
  <2>3. stale' BY <1>4, <1>7, <1>11
  <2>4. SettledInv' BY <2>3 DEF SettledInv
  <2> QED BY <1>7, <2>2, <2>4 DEF Settled
<1>12. ASSUME end = l PROVE Settled(l + 1)
  <2>0. Len(its) - 1 = l /\ ~(end < l) /\ ~(l > end) BY <1>3, <1>7, <1>12
  <2>1. IF (l + 1) - first > Window + Overscan
        THEN W!Redraw(its, TRUE, W!Less(l + 1, Window), l + 1, FALSE)
        ELSE /\ end' = l + 1 /\ takes' = {} /\ first' = first
             /\ rows' = Append([i \in DOMAIN rows |-> [rows[i] EXCEPT !.active = FALSE]], W!Row(its[Len(its)]))
    BY <1>4, <2>0 DEF W!AppendItem
  <2>2. CASE (l + 1) - first > Window + Overscan
    <3>1. W!Less(l + 1, Window) \in Nat BY <1>9 DEF W!Less
    <3>2. Redrawn(its, TRUE, l + 1, FALSE)
      <4>1. TRUE \in BOOLEAN /\ FALSE \in BOOLEAN /\ l + 1 \in Nat OBVIOUS
      <4>2. W!Redraw(its, TRUE, W!Less(l + 1, Window), l + 1, FALSE) BY <2>1, <2>2
      <4> QED BY <3>1, <4>1, <4>2, RedrawIs
    <3>3. l + 1 >= Len(its) BY <1>3
    <3>4. its = windowItems' /\ show' = show BY <1>4, <1>8
    <3>5. Settled(Len(its)) BY <3>2, <3>3, <3>4, RedrawSettles
    <3> QED BY <1>3, <3>5
  <2>3. CASE ~((l + 1) - first > Window + Overscan)
    <3>1. /\ end' = l + 1 /\ takes' = {} /\ first' = first
          /\ rows' = Append([i \in DOMAIN rows |-> [rows[i] EXCEPT !.active = FALSE]], W!Row(its[Len(its)]))
      BY <2>1, <2>3
    <3>2. ASSUME ~stale' PROVE rows' = Stretch(its, first, l + 1, show)
      <4>1. ~stale BY <1>4, <2>0, <3>2
      <4>2. rows = Stretch(windowItems, first, l, show)
        <5>1. ~(Len(windowItems) = end + 1) BY <1>7, <1>12
        <5> QED BY <1>0, <1>4, <1>12, <4>1, <5>1 DEF SettledInv
      <4>3. /\ Stretch(windowItems, first, l, show) \in Seq(ItemRows)
            /\ Stretch(its, first, l + 1, show)
                 = Append(Stretch(windowItems, first, l, show), W!Row(its[l + 1]))
        <5>1. windowItems \in Seq(WindowItems) BY <1>0 DEF WindowTypes
        <5>2. ~its[l + 1].thinking BY <1>2, <1>3
        <5>3. /\ Len(its) = Len(windowItems) + 1 /\ \A i \in 1 .. Len(windowItems) : its[i] = windowItems[i]
              /\ ~its[Len(windowItems) + 1].thinking /\ first <= Len(windowItems)
          BY <1>3, <1>7, <1>12, <5>2
        <5> QED BY <1>1, <1>7, <5>1, <5>3, StretchAppends
      <4>4. [i \in DOMAIN rows |-> [rows[i] EXCEPT !.active = FALSE]] = rows BY <4>2, <4>3, RowsStay
      <4>5. rows' = Append(rows, W!Row(its[l + 1])) BY <1>3, <3>1, <4>4
      <4> QED BY <4>2, <4>3, <4>5
    <3>3. SettledInv'
      <4> SUFFICES ASSUME ~stale' PROVE SettledInv' BY DEF SettledInv
      <4>1. end' - first' <= Window + Overscan
        <5>1. PICK w \in Nat, o \in Nat, a \in Nat : w = Window /\ o = Overscan /\ a = first BY <1>7, <1>9
        <5>2. (l + 1) - a <= w + o BY <2>3, <5>1
        <5> QED BY <3>1, <5>1, <5>2
      <4>2. rows' = Stretch(windowItems', first', end', show') BY <1>4, <1>8, <3>1, <3>2
      <4>3. end' = Len(windowItems') BY <1>3, <1>4, <3>1
      <4> QED BY <4>1, <4>2, <4>3 DEF SettledInv
    <3>4. first <= l + 1 BY <1>7
    <3> QED BY <1>7, <3>1, <3>3, <3>4 DEF Settled
  <2> QED BY <2>2, <2>3
<1>13. Settled(l + 1)
  <2>1. CASE end < l /\ (forced \/ W!ShouldFollow) BY <1>10, <2>1
  <2>2. CASE ~(end < l /\ (forced \/ W!ShouldFollow)) /\ end < l
    <3>1. l > end BY <1>7, <2>2
    <3> QED BY <1>11, <2>2, <3>1
  <2>3. CASE ~(end < l)
    <3>1. end = l BY <1>7, <2>3
    <3> QED BY <1>12, <3>1
  <2> QED BY <2>1, <2>2, <2>3
<1>14. WindowTypes'
  <2>1. follow' \in BOOLEAN BY <1>8
  <2>2. stale' \in BOOLEAN BY <1>0, <1>4 DEF WindowTypes
  <2>3. windowMade' \in Nat /\ windowStart' \in Nat /\ shift' \in {"none", "earlier", "later", "anchoring"}
        /\ show' \in BOOLEAN /\ windowSaid' \in Seq(Kinds)
    BY <1>0, <1>4, <1>8 DEF WindowTypes
  <2>4. takes' = {} /\ windowItems' \in Seq(WindowItems) /\ Len(windowItems') = l + 1
    BY <1>3, <1>4, <1>13 DEF Settled
  <2>5. windowPhase' \in {"idle", "asked", "streaming"} BY <1>4
  <2> QED BY <1>13, <2>1, <2>2, <2>3, <2>4, <2>5 DEF WindowTypes, Settled
<1>15. SpeechInv' BY <1>4, <1>5, <1>6 DEF SpeechInv
<1>16. LiveInv' BY <1>4 DEF LiveInv
<1> QED BY <1>13, <1>14, <1>15, <1>16 DEF WindowInv, Settled

(* A message starts: its rows will come after those that are there.          *)
LEMMA WindowStartKeeps ==
  ASSUME W!WindowAssumption, WindowInv, W!MessageStart
  PROVE  WindowInv'
<1>0. WindowTypes /\ SpeechInv /\ SettledInv BY DEF WindowInv
<1>1. /\ windowPhase = "asked" /\ windowPhase' = "streaming" /\ windowStart' = Len(windowItems)
      /\ windowSaid' = << >> /\ windowItems' = windowItems /\ windowMade' = windowMade /\ rows' = rows
      /\ first' = first /\ end' = end /\ follow' = follow /\ shift' = shift /\ show' = show
      /\ takes' = takes /\ stale' = stale
  BY DEF W!MessageStart, W!reader
<1>2. windowSaid = << >> BY <1>0, <1>1 DEF SpeechInv
<1>3. WindowTypes'
  <2>1. Len(windowItems) \in Nat BY <1>0 DEF WindowTypes
  <2>2. /\ windowItems \in Seq(WindowItems) /\ windowMade \in Nat
        /\ first \in Nat /\ end \in Nat /\ first <= end /\ end <= Len(windowItems)
        /\ follow \in BOOLEAN /\ show \in BOOLEAN /\ stale \in BOOLEAN
        /\ shift \in {"none", "earlier", "later", "anchoring"}
        /\ windowSaid \in Seq(Kinds) /\ takes \subseteq W!Range(windowSaid)
    BY <1>0 DEF WindowTypes
  <2> QED BY <1>1, <1>2, <2>1, <2>2 DEF WindowTypes
<1>4. PICK l \in Nat : l = Len(windowItems) /\ l # 0 /\ ~windowItems[l].thinking
  BY <1>0, <1>1 DEF WindowTypes, SpeechInv
<1>5. takes = {} /\ W!Range(<< >>) = {}
  <2>1. W!Range(<< >>) = {} BY DEF W!Range
  <2> QED BY <1>0, <1>2, <2>1 DEF WindowTypes
<1>6. SpeechInv'
  <2>1. "thinking" \notin W!Range(windowSaid') BY <1>1, <1>5
  <2>2. \A i \in windowStart' + 1 .. Len(windowItems') : FALSE BY <1>1, <1>4
  <2>3. windowStart' \in 1 .. Len(windowItems') /\ ~windowItems'[windowStart'].thinking
        /\ Len(windowItems') = windowStart' + 0
    BY <1>1, <1>4
  <2> QED BY <1>1, <2>1, <2>2, <2>3 DEF SpeechInv
<1>7. SettledInv' BY <1>1 DEF SettledInv
<1>8. LiveInv'
  <2> SUFFICES ASSUME ~stale, ~(end < l)
               PROVE  /\ end = l /\ first <= l /\ l - first <= Window + Overscan
                      /\ Streamed(Stretch(windowItems, first, l, show), rows, << >>, takes)
    BY <1>1, <1>4 DEF LiveInv
  <2>1. end = l /\ first <= l /\ first \in Nat BY <1>0, <1>4 DEF WindowTypes
  <2>2. end - first <= Window + Overscan /\ rows = Stretch(windowItems, first, l, show)
    BY <1>0, <1>1, <2>1 DEF SettledInv
  <2>3. rows \in Seq(ItemRows)
    <3>1. windowItems \in Seq(WindowItems) /\ l \in 0 .. Len(windowItems) BY <1>0, <1>4 DEF WindowTypes
    <3> QED BY <2>1, <2>2, <3>1, StretchTypes
  <2>4. Streamed(rows, rows, << >>, takes)
    <3>1. ItemRows \subseteq WindowRows BY DEF ItemRows, WindowRows
    <3>2. rows \in Seq(WindowRows) BY <2>3, <3>1
    <3>3. PICK n \in Nat : n = Len(rows) BY <2>3
    <3>4. n + 1 .. n = {} BY <3>3
    <3>5. << >> # <<"text">> OBVIOUS
    <3> QED BY <1>5, <2>3, <3>2, <3>3, <3>4, <3>5 DEF Streamed
  <2> QED BY <2>1, <2>2, <2>4
<1> QED BY <1>3, <1>6, <1>7, <1>8 DEF WindowInv

(* What the reader's steps leave alone.                                      *)
Framed ==
  /\ windowItems' = windowItems /\ windowMade' = windowMade /\ windowPhase' = windowPhase
  /\ windowStart' = windowStart /\ windowSaid' = windowSaid
(* Types and speech are kept by what only moves the window.                  *)
LEMMA FrameKeeps ==
  ASSUME WindowTypes, SpeechInv, Framed, follow' \in BOOLEAN, show' \in BOOLEAN, stale' \in BOOLEAN,
         shift' \in {"none", "earlier", "later", "anchoring"}, takes' \subseteq W!Range(windowSaid),
         first' \in Nat, end' \in Nat, first' <= end', end' <= Len(windowItems)
  PROVE  WindowTypes' /\ SpeechInv'
<1>1. WindowTypes' BY DEF WindowTypes, Framed
<1>2. SpeechInv' BY DEF SpeechInv, Framed
<1> QED BY <1>1, <1>2

(* A streamed message follows an item of its own.                            *)
StreamPlace(l, s) ==
  /\ l \in Nat /\ l = Len(windowItems) /\ s \in Nat /\ s = windowStart /\ s >= 1 /\ s <= l /\ l <= s + 1
  /\ ~windowItems[s].thinking /\ windowItems \in Seq(WindowItems)
  /\ l = s <=> "thinking" \notin W!Range(windowSaid)
  /\ \A i \in s + 1 .. l : windowItems[i].thinking
(* The item a streamed message follows, and what came after it.              *)
LEMMA StreamPlaces ==
  ASSUME WindowTypes, SpeechInv, windowPhase = "streaming"
  PROVE  \E l, s \in Nat : StreamPlace(l, s)
<1>1. PICK l \in Nat, s \in Nat : l = Len(windowItems) /\ s = windowStart BY DEF WindowTypes
<1>2. s \in 1 .. l /\ ~windowItems[s].thinking /\ \A i \in s + 1 .. l : windowItems[i].thinking
  BY <1>1 DEF SpeechInv
<1>3. l = s + (IF "thinking" \in W!Range(windowSaid) THEN 1 ELSE 0) BY <1>1 DEF SpeechInv
<1>4. windowItems \in Seq(WindowItems) BY DEF WindowTypes
<1>5. StreamPlace(l, s) BY <1>1, <1>2, <1>3, <1>4 DEF StreamPlace
<1> QED BY <1>5

(* The streamed rows as they were, with more said.                           *)
LEMMA StreamStays ==
  ASSUME NEW kept, NEW all, NEW spoken, NEW taken, Streamed(kept, all, spoken, taken),
         NEW said2, said2 # << >>, NEW takes2,
         said2 = <<"text">> => spoken = <<"text">> /\ takes2 = taken,
         "text" \in takes2 => "text" \in taken
  PROVE  Streamed(kept, all, said2, takes2)
BY DEF Streamed

(* A text's fragment.                                                        *)
LEMMA WindowTextKeeps ==
  ASSUME W!WindowAssumption, WindowInv, W!TextDelta
  PROVE  WindowInv'
<1>0. WindowTypes /\ SpeechInv /\ LiveInv BY DEF WindowInv
<1>1. /\ windowPhase = "streaming" /\ windowPhase' = "streaming" /\ windowSaid' = W!Said("text")
      /\ windowItems' = windowItems /\ windowMade' = windowMade /\ windowStart' = windowStart
      /\ first' = first /\ end' = end /\ follow' = follow /\ shift' = shift /\ show' = show
      /\ stale' = stale
  BY DEF W!TextDelta, W!Streaming
<1>2. IF W!Latest
      THEN /\ takes' = {"text"} \union (IF "text" \in takes THEN takes ELSE {})
           /\ rows' = IF "text" \in takes THEN rows ELSE Append(rows, W!StreamRow(FALSE))
      ELSE takes' = takes /\ rows' = rows
  BY DEF W!TextDelta
<1>3. PICK l \in Nat, s \in Nat : StreamPlace(l, s) BY <1>0, <1>1, StreamPlaces
<1>4. SaidAdds("text")
  <2>1. "text" \in Kinds /\ windowSaid \in Seq(Kinds) BY <1>0 DEF Kinds, WindowTypes
  <2> QED BY <2>1, SaidIs
<1>5. /\ windowSaid' \in Seq(Kinds) /\ windowSaid' # << >>
      /\ W!Range(windowSaid') = W!Range(windowSaid) \union {"text"}
      /\ windowSaid' = <<"text">> => windowSaid = << >> \/ windowSaid = <<"text">>
  <2>1. PICK z : z = W!Said("text") OBVIOUS
  <2>2. /\ z \in Seq(Kinds) /\ z # << >> /\ W!Range(z) = W!Range(windowSaid) \union {"text"}
        /\ z = <<"text">> => windowSaid = << >> \/ windowSaid = <<"text">>
    BY <1>4, <2>1 DEF SaidAdds
  <2>3. windowSaid' = z BY <1>1, <2>1
  <2> QED BY <2>2, <2>3
<1>6. takes' \subseteq W!Range(windowSaid) \union {"text"}
  <2>1. takes \subseteq W!Range(windowSaid) BY <1>0 DEF WindowTypes
  <2> QED BY <1>2, <2>1
<1>7. WindowTypes'
  <2>1. /\ windowItems \in Seq(WindowItems) /\ windowMade \in Nat
        /\ first \in Nat /\ end \in Nat /\ first <= end /\ end <= Len(windowItems)
        /\ follow \in BOOLEAN /\ show \in BOOLEAN /\ stale \in BOOLEAN
        /\ shift \in {"none", "earlier", "later", "anchoring"} /\ windowStart \in Nat
    BY <1>0 DEF WindowTypes
  <2> QED BY <1>1, <1>5, <1>6, <2>1 DEF WindowTypes
<1>8. SpeechInv'
  <2>1. "thinking" \in W!Range(windowSaid') <=> "thinking" \in W!Range(windowSaid) BY <1>5
  <2>2. /\ windowStart \in 1 .. Len(windowItems) /\ ~windowItems[windowStart].thinking
        /\ Len(windowItems) = windowStart + (IF "thinking" \in W!Range(windowSaid) THEN 1 ELSE 0)
        /\ \A i \in windowStart + 1 .. Len(windowItems) : windowItems[i].thinking
    BY <1>0, <1>1 DEF SpeechInv
  <2> QED BY <1>1, <2>1, <2>2 DEF SpeechInv
<1>9. SettledInv' BY <1>1 DEF SettledInv
<1>10. LiveInv'
  <2> SUFFICES ASSUME ~stale, ~(end < s)
               PROVE  /\ end = l /\ first <= s /\ s - first <= Window + Overscan
                      /\ Streamed(Stretch(windowItems, first, s, show), rows', windowSaid', takes')
    BY <1>1, <1>3 DEF LiveInv, StreamPlace
  <2>1. /\ end = l /\ first <= s /\ s - first <= Window + Overscan
        /\ Streamed(Stretch(windowItems, first, s, show), rows, windowSaid, takes)
    BY <1>0, <1>1, <1>3 DEF LiveInv, StreamPlace
  <2>2. W!Latest BY <1>3, <2>1 DEF W!Latest, StreamPlace
  <2>3. PICK kept : kept = Stretch(windowItems, first, s, show) OBVIOUS
  <2>4. Streamed(kept, rows, windowSaid, takes) BY <2>1, <2>3
  <2>5. CASE "text" \in takes
    <3>1. takes' = takes /\ rows' = rows BY <1>2, <2>2, <2>5
    <3>2. windowSaid' = <<"text">> => windowSaid = <<"text">>
      <4>1. windowSaid = << >> => takes = {} BY <2>4 DEF Streamed
      <4> QED BY <1>5, <2>5, <4>1
    <3>3. Streamed(kept, rows, windowSaid', takes') BY <1>5, <2>4, <3>1, <3>2, StreamStays
    <3> QED BY <2>1, <2>3, <3>1, <3>3
  <2>6. CASE "text" \notin takes
    <3>1. takes' = {"text"} /\ rows' = Append(rows, W!StreamRow(FALSE)) BY <1>2, <2>2, <2>6
    <3>2. windowSaid' = <<"text">> => windowSaid = << >>
      <4>1. windowSaid = <<"text">> => takes = {"text"} BY <2>4 DEF Streamed
      <4> QED BY <1>5, <2>6, <4>1
    <3>3. FALSE \in BOOLEAN OBVIOUS
    <3>4. Streamed(kept, rows', windowSaid', takes')
      BY <1>5, <2>4, <3>1, <3>2, <3>3, StreamAppends
    <3> QED BY <2>1, <2>3, <3>4
  <2> QED BY <2>5, <2>6
<1> QED BY <1>7, <1>8, <1>9, <1>10 DEF WindowInv

(* A thinking's fragment.                                                    *)
LEMMA WindowThinkingKeeps ==
  ASSUME W!WindowAssumption, WindowInv, W!ThinkingDelta
  PROVE  WindowInv'
<1>0. WindowTypes /\ SpeechInv /\ LiveInv BY DEF WindowInv
<1> DEFINE new == ~\E i \in (windowStart + 1)..Len(windowItems) : windowItems[i].thinking
           total == Len(windowItems) + (IF new THEN 1 ELSE 0)
<1>1. /\ windowPhase = "streaming" /\ windowPhase' = "streaming" /\ windowSaid' = W!Said("thinking")
      /\ windowStart' = windowStart
      /\ first' = first /\ follow' = follow /\ shift' = shift /\ show' = show /\ stale' = stale
  BY DEF W!ThinkingDelta, W!Streaming
<1>2. /\ windowItems' = IF new THEN Append(windowItems, [id |-> windowMade + 1, thinking |-> TRUE])
                        ELSE windowItems
      /\ windowMade' = IF new THEN windowMade + 1 ELSE windowMade
      /\ IF end < W!Less(total, 1) THEN rows' = rows /\ end' = end /\ takes' = takes
         ELSE /\ end' = total
              /\ rows' = IF (show /\ "thinking" \in takes) \/ (~show /\ placeholder)
                         THEN rows ELSE W!Mounted(W!StreamRow(TRUE))
              /\ takes' = IF show THEN takes \union {"thinking"}
                          ELSE IF placeholder THEN takes ELSE takes \ {"thinking"}
  BY DEF W!ThinkingDelta
<1>3. PICK l \in Nat, s \in Nat : StreamPlace(l, s) BY <1>0, <1>1, StreamPlaces
<1>4. new <=> l = s
  <2>1. CASE l = s
    <3>1. (windowStart + 1)..Len(windowItems) = {} BY <1>3, <2>1 DEF StreamPlace
    <3> QED BY <2>1, <3>1
  <2>2. CASE l # s
    <3>1. s + 1 \in s + 1 .. l /\ windowItems[s + 1].thinking BY <1>3, <2>2 DEF StreamPlace
    <3> QED BY <1>3, <2>2, <3>1 DEF StreamPlace
  <2> QED BY <2>1, <2>2
<1>5. total = s + 1 /\ W!Less(total, 1) = s
  <2>1. total = s + 1 BY <1>3, <1>4 DEF StreamPlace
  <2> HIDE DEF total
  <2>2. s >= 1 BY <1>3 DEF StreamPlace
  <2> QED BY <2>1, <2>2 DEF W!Less
<1>6. PICK its \in Seq(WindowItems) :
        /\ its = windowItems' /\ Len(its) = s + 1 /\ its[s + 1].thinking
        /\ \A i \in 1 .. s : its[i] = windowItems[i]
  <2>1. CASE new
    <3>1. PICK x \in WindowItems : x = [id |-> windowMade + 1, thinking |-> TRUE] /\ x.thinking
      BY <1>0, MadeIs DEF WindowTypes
    <3>2. windowItems' = Append(windowItems, x) BY <1>2, <2>1, <3>1
    <3>3. /\ Append(windowItems, x) \in Seq(WindowItems) /\ Len(Append(windowItems, x)) = Len(windowItems) + 1
          /\ \A i \in 1 .. Len(windowItems) : Append(windowItems, x)[i] = windowItems[i]
          /\ Append(windowItems, x)[Len(windowItems) + 1] = x
      BY <1>0, AppendProperties DEF WindowTypes
    <3>4. Len(windowItems) = s BY <1>3, <1>4, <2>1 DEF StreamPlace
    <3>5. PICK z \in Seq(WindowItems) : z = Append(windowItems, x) BY <3>3
    <3> QED BY <3>1, <3>2, <3>3, <3>4, <3>5
  <2>2. CASE ~new
    <3>1. l = s + 1 BY <1>3, <1>4, <2>2 DEF StreamPlace
    <3>2. s + 1 \in s + 1 .. l /\ windowItems[s + 1].thinking BY <1>3, <3>1 DEF StreamPlace
    <3> QED BY <1>2, <1>3, <2>2, <3>1, <3>2 DEF StreamPlace
  <2> QED BY <2>1, <2>2
<1>7. windowMade' \in Nat
  <2>1. windowMade \in Nat BY <1>0 DEF WindowTypes
  <2> QED BY <1>2, <2>1
<1> HIDE DEF new, total
<1>8. IF end < s THEN rows' = rows /\ end' = end /\ takes' = takes
      ELSE /\ end' = s + 1
           /\ rows' = rows \/ rows' = W!Mounted(W!StreamRow(TRUE))
           /\ takes' \subseteq takes \union {"thinking"}
  BY <1>2, <1>5
<1>9. /\ windowSaid' \in Seq(Kinds) /\ windowSaid' # << >> /\ windowSaid' # <<"text">>
      /\ W!Range(windowSaid') = W!Range(windowSaid) \union {"thinking"}
  <2>1. "thinking" \in Kinds /\ windowSaid \in Seq(Kinds) BY <1>0 DEF Kinds, WindowTypes
  <2>2. SaidAdds("thinking") BY <2>1, SaidIs
  <2>3. PICK z : z = W!Said("thinking") OBVIOUS
  <2>4. /\ z \in Seq(Kinds) /\ z # << >> /\ z # <<"text">> /\ W!Range(z) = W!Range(windowSaid) \union {"thinking"}
    BY <2>2, <2>3 DEF SaidAdds
  <2> QED BY <1>1, <2>3, <2>4
<1>10. /\ first \in Nat /\ end \in Nat /\ first <= end /\ end <= s + 1
       /\ takes \subseteq W!Range(windowSaid)
  <2>1. end <= l /\ l <= s + 1 BY <1>0, <1>3 DEF WindowTypes, StreamPlace
  <2>2. end \in Nat BY <1>0 DEF WindowTypes
  <2> QED BY <1>0, <2>1, <2>2 DEF WindowTypes
<1>11. WindowTypes'
  <2>1. /\ follow \in BOOLEAN /\ show \in BOOLEAN /\ stale \in BOOLEAN
        /\ shift \in {"none", "earlier", "later", "anchoring"} /\ windowStart \in Nat
    BY <1>0 DEF WindowTypes
  <2>2. takes' \subseteq W!Range(windowSaid') BY <1>8, <1>9, <1>10
  <2>3. end' \in Nat /\ first' <= end' /\ end' <= Len(windowItems')
    <3>1. s >= 1 /\ Len(windowItems') = s + 1 BY <1>3, <1>6 DEF StreamPlace
    <3>2. PICK f \in Nat, d \in Nat : f = first /\ d = end /\ f <= d /\ d <= s + 1 BY <1>10
    <3>3. CASE end < s BY <1>1, <1>8, <3>1, <3>2, <3>3
    <3>4. CASE ~(end < s) BY <1>1, <1>8, <3>1, <3>2, <3>4
    <3> QED BY <3>3, <3>4
  <2>4. windowItems' \in Seq(WindowItems) /\ first' \in Nat BY <1>1, <1>6, <1>10
  <2> QED BY <1>1, <1>7, <1>9, <2>1, <2>2, <2>3, <2>4 DEF WindowTypes
<1>12. SpeechInv'
  <2>1. s >= 1 /\ s = windowStart /\ ~windowItems[s].thinking BY <1>3 DEF StreamPlace
  <2>2. s \in 1 .. Len(its) /\ ~its[s].thinking BY <1>6, <2>1
  <2>3. \A i \in s + 1 .. Len(its) : its[i].thinking BY <1>6
  <2>4. Len(its) = s + (IF "thinking" \in W!Range(windowSaid') THEN 1 ELSE 0) BY <1>6, <1>9
  <2> QED BY <1>1, <1>6, <2>1, <2>2, <2>3, <2>4 DEF SpeechInv
<1>13. SettledInv' BY <1>1 DEF SettledInv
<1>14. LiveInv'
  <2>0. s = windowStart /\ windowItems \in Seq(WindowItems) /\ l = Len(windowItems) /\ s <= l
    BY <1>3 DEF StreamPlace
  <2>1. CASE end < s
    <3>1. end' < windowStart' BY <1>1, <1>8, <2>0, <2>1
    <3> QED BY <3>1 DEF LiveInv
  <2>2. CASE ~(end < s)
    <3> SUFFICES ASSUME ~stale
                 PROVE  /\ first <= s /\ s - first <= Window + Overscan
                        /\ Streamed(Stretch(its, first, s, show), rows', windowSaid', takes')
      BY <1>1, <1>6, <1>8, <2>0, <2>2 DEF LiveInv
    <3>1. /\ first <= s /\ s - first <= Window + Overscan
          /\ Streamed(Stretch(windowItems, first, s, show), rows, windowSaid, takes)
      BY <1>0, <1>1, <2>0, <2>2 DEF LiveInv
    <3>2. Stretch(its, first, s, show) = Stretch(windowItems, first, s, show)
      <4>1. s <= Len(its) /\ s <= Len(windowItems) /\ \A i \in 1 .. s : its[i] = windowItems[i]
        BY <1>6, <2>0
      <4> QED BY <1>10, <2>0, <4>1, StretchSame
    <3>3. PICK kept : kept = Stretch(windowItems, first, s, show) OBVIOUS
    <3>4. Streamed(kept, rows, windowSaid, takes) BY <3>1, <3>3
    <3>5. "text" \in takes' => "text" \in takes BY <1>8, <2>2
    <3>6. CASE rows' = rows
      <4>1. Streamed(kept, rows, windowSaid', takes') BY <1>9, <3>4, <3>5, StreamStays
      <4> QED BY <3>1, <3>2, <3>3, <3>6, <4>1
    <3>7. CASE rows' = W!Mounted(W!StreamRow(TRUE))
      <4>1. Streamed(kept, W!Mounted(W!StreamRow(TRUE)), windowSaid', takes')
        BY <1>9, <3>4, <3>5, StreamInserts
      <4> QED BY <3>1, <3>2, <3>3, <3>7, <4>1
    <3> QED BY <1>8, <2>2, <3>6, <3>7
  <2> QED BY <2>1, <2>2
<1> QED BY <1>11, <1>12, <1>13, <1>14 DEF WindowInv

(* The message's blocks in the place of its provisional items.               *)
EndedAs(its, l, s, n) ==
  /\ its = W!Ended /\ n = Len(windowSaid) /\ n \in Nat /\ Len(its) = s + n
  /\ \A i \in 1 .. s : its[i] = windowItems[i]
  /\ \A i \in 1 .. n : its[s + i].thinking <=> windowSaid[i] = "thinking"
(* A message's blocks follow the items there were before it.                 *)
LEMMA EndedIs ==
  ASSUME WindowTypes, NEW l \in Nat, NEW s \in Nat, StreamPlace(l, s)
  PROVE  \E its \in Seq(WindowItems) : EndedAs(its, l, s, Len(windowSaid))
<1>1. /\ l = Len(windowItems) /\ s = windowStart /\ s >= 1 /\ s <= l
      /\ windowItems \in Seq(WindowItems) /\ windowSaid \in Seq(Kinds) /\ windowMade \in Nat
  BY DEF StreamPlace, WindowTypes
<1>2. PICK n \in Nat : n = Len(windowSaid) BY <1>1
<1>3. PICK a \in Seq(WindowItems) : /\ a = SubSeq(windowItems, 1, s) /\ Len(a) = s
                                    /\ \A i \in 1 .. s : a[i] = windowItems[i]
  <2>1. 0 \in Nat /\ 0 <= s /\ s <= Len(windowItems) BY <1>1
  <2>2. Slice(windowItems, 0, s) /\ SubSeq(windowItems, 0 + 1, s) \in Seq(WindowItems) BY <1>1, <2>1, SliceIs
  <2>3. 0 + 1 = 1 /\ s - 0 = s /\ \A j \in 1 .. s : 0 + j = j OBVIOUS
  <2>4. PICK a \in Seq(WindowItems) : a = SubSeq(windowItems, 0 + 1, s) BY <2>2
  <2>5. Len(a) = s /\ \A j \in 1 .. s : a[j] = windowItems[j] BY <2>2, <2>3, <2>4 DEF Slice
  <2> QED BY <2>3, <2>4, <2>5
<1> DEFINE bs == [i \in 1 .. n |-> [id |-> windowMade + i, thinking |-> windowSaid[i] = "thinking"]]
<1>4. \A i \in 1 .. n : bs[i] \in WindowItems
  <2> TAKE i \in 1 .. n
  <2>1. windowMade + i \in Nat BY <1>1
  <2>2. (windowSaid[i] = "thinking") \in BOOLEAN OBVIOUS
  <2> QED BY <2>1, <2>2 DEF WindowItems
<1>5. \A i \in 1 .. n : bs[i].thinking <=> windowSaid[i] = "thinking" OBVIOUS
<1>6. DOMAIN bs = 1 .. n /\ bs = [i \in 1 .. n |-> bs[i]] OBVIOUS
<1>7. W!Ended = a \o bs
  <2>1. DOMAIN windowSaid = 1 .. n BY <1>1, <1>2
  <2>2. W!Ended = SubSeq(windowItems, 1, windowStart) \o
                    [i \in DOMAIN windowSaid |-> [id |-> windowMade + i, thinking |-> windowSaid[i] = "thinking"]]
    BY Zenon DEF W!Ended
  <2> QED BY <1>1, <1>3, <2>1, <2>2
<1> HIDE DEF bs
<1>8. PICK c \in Seq(WindowItems) : c = bs /\ Len(c) = n
  <2>1. bs \in Seq(WindowItems) BY <1>4, <1>6
  <2>2. Len(bs) = n BY <1>2, <1>6
  <2> QED BY <2>1, <2>2
<1>9. /\ a \o c \in Seq(WindowItems) /\ Len(a \o c) = Len(a) + Len(c)
      /\ \A i \in 1 .. Len(a) + Len(c) : (a \o c)[i] = IF i <= Len(a) THEN a[i] ELSE c[i - Len(a)]
  BY ConcatProperties
<1>10. PICK its \in Seq(WindowItems) :
         /\ its = a \o c /\ Len(its) = s + n
         /\ \A i \in 1 .. s + n : its[i] = IF i <= s THEN a[i] ELSE c[i - s]
  <2>1. Len(a) = s /\ Len(c) = n BY <1>3, <1>8
  <2>2. PICK its \in Seq(WindowItems) : its = a \o c BY <1>9
  <2> QED BY <1>9, <2>1, <2>2
<1>11. \A i \in 1 .. s : its[i] = windowItems[i]
  <2> TAKE i \in 1 .. s
  <2>1. i \in 1 .. s + n /\ i <= s OBVIOUS
  <2> QED BY <1>3, <1>10, <2>1
<1>12. \A i \in 1 .. n : its[s + i].thinking <=> windowSaid[i] = "thinking"
  <2> TAKE i \in 1 .. n
  <2>1. s + i \in 1 .. s + n /\ ~(s + i <= s) /\ (s + i) - s = i OBVIOUS
  <2>2. its[s + i] = c[i] BY <1>10, <2>1
  <2> QED BY <1>5, <1>8, <2>2
<1>13. EndedAs(its, l, s, n) BY <1>2, <1>7, <1>8, <1>10, <1>11, <1>12 DEF EndedAs
<1> QED BY <1>2, <1>13

(* The rows that were there, then what the message streamed.                 *)
LEMMA LiveIs ==
  ASSUME WindowTypes, LiveInv, windowPhase = "streaming", ~stale,
         NEW l \in Nat, NEW s \in Nat, StreamPlace(l, s), ~(end < l)
  PROVE  /\ first \in Nat /\ first <= s /\ s - first <= Window + Overscan /\ end = l
         /\ Streamed(Stretch(windowItems, first, s, show), rows, windowSaid, takes)
BY DEF WindowTypes, LiveInv, StreamPlace

(* A text that streamed becomes its item's row.                              *)
LEMMA TextSettles ==
  ASSUME NEW its \in Seq(WindowItems), NEW s \in Nat, Len(its) = s + 1, ~its[s + 1].thinking,
         windowItems \in Seq(WindowItems), Len(windowItems) = s,
         \A i \in 1 .. s : its[i] = windowItems[i],
         NEW kept, Streamed(kept, rows, <<"text">>, takes),
         NEW a \in Nat, a <= s, kept = Stretch(windowItems, a, s, show)
  PROVE  [i \in DOMAIN rows |-> IF rows[i] = W!StreamRow(FALSE) THEN W!Row(its[Len(its)]) ELSE rows[i]]
           = Stretch(its, a, s + 1, show)
<1>1. PICK x \in ItemRows : x = W!Row(its[s + 1])
  <2>1. s + 1 \in 1 .. Len(its) OBVIOUS
  <2>2. its[s + 1] \in WindowItems BY <2>1
  <2> QED BY <2>2 DEF W!Row, WindowItems, ItemRows
<1>2. PICK k \in Seq(ItemRows), r \in Seq(WindowRows), n \in Nat :
        /\ k = kept /\ r = rows /\ n = Len(k) /\ Len(r) = n + 1
        /\ \A i \in 1 .. n : r[i] = k[i]
  BY DEF Streamed
<1>3. r[n + 1] = W!StreamRow(FALSE)
  <2>0. takes = {"text"} BY DEF Streamed
  <2>1. PICK i \in n + 1 .. n + 1 : r[i] = W!StreamRow(FALSE) BY <1>2, <2>0 DEF Streamed
  <2>2. i = n + 1 OBVIOUS
  <2> QED BY <2>1, <2>2
<1>4. \A i \in 1 .. n : r[i] # W!StreamRow(FALSE)
  <2> TAKE i \in 1 .. n
  <2>1. r[i] \in ItemRows BY <1>2
  <2>2. ~r[i].active BY <2>1 DEF ItemRows
  <2>3. FALSE \in BOOLEAN OBVIOUS
  <2>4. W!StreamRow(FALSE).active BY <2>3, StreamRows
  <2> QED BY <2>2, <2>4
<1>5. Stretch(its, a, s + 1, show) = Append(k, x)
  <2>1. /\ Len(its) = Len(windowItems) + 1 /\ \A i \in 1 .. Len(windowItems) : its[i] = windowItems[i]
        /\ ~its[Len(windowItems) + 1].thinking /\ a <= Len(windowItems)
    OBVIOUS
  <2>2. Stretch(its, a, Len(windowItems) + 1, show)
          = Append(Stretch(windowItems, a, Len(windowItems), show), W!Row(its[Len(windowItems) + 1]))
    BY <2>1, StretchAppends
  <2> QED BY <1>1, <1>2, <2>2
<1>6. PICK m \in Seq(ItemRows) : /\ m = Append(k, x) /\ Len(m) = n + 1 /\ m[n + 1] = x
                                 /\ \A i \in 1 .. n : m[i] = k[i]
  <2>1. /\ Append(k, x) \in Seq(ItemRows) /\ Len(Append(k, x)) = Len(k) + 1
        /\ \A i \in 1 .. Len(k) : Append(k, x)[i] = k[i]
        /\ Append(k, x)[Len(k) + 1] = x
    BY AppendProperties
  <2> QED BY <1>2, <2>1
<1>7. [i \in DOMAIN rows |-> IF rows[i] = W!StreamRow(FALSE) THEN W!Row(its[Len(its)]) ELSE rows[i]]
        = [i \in 1 .. n + 1 |-> IF r[i] = W!StreamRow(FALSE) THEN x ELSE r[i]]
  <2>1. DOMAIN rows = 1 .. n + 1 BY <1>2
  <2> QED BY <1>1, <1>2, <2>1
<1>8. \A i \in 1 .. n + 1 : (IF r[i] = W!StreamRow(FALSE) THEN x ELSE r[i]) = m[i]
  <2> TAKE i \in 1 .. n + 1
  <2>1. CASE i = n + 1 BY <1>3, <1>6, <2>1
  <2>2. CASE i # n + 1
    <3>1. i \in 1 .. n BY <2>2
    <3> QED BY <1>2, <1>4, <1>6, <3>1
  <2> QED BY <2>1, <2>2
<1>9. m = [i \in 1 .. n + 1 |-> m[i]]
  <2>1. DOMAIN m = 1 .. n + 1 BY <1>6
  <2>2. m = [i \in DOMAIN m |-> m[i]] OBVIOUS
  <2> QED BY <2>1, <2>2
<1> QED BY <1>5, <1>6, <1>7, <1>8, <1>9

(* What ends with a message of text.                                         *)
LEMMA FinishTextSettles ==
  ASSUME W!WindowAssumption, WindowTypes, LiveInv, windowPhase = "streaming", windowPhase' = "idle",
         NEW l \in Nat, NEW s \in Nat, StreamPlace(l, s), windowSaid = <<"text">>,
         NEW its \in Seq(WindowItems), EndedAs(its, l, s, 1), windowItems' = its,
         W!FinishText(its), stale' = (stale \/ ~W!ShouldFollow \/ end < l)
  PROVE  /\ Settled(Len(its)) /\ show' = show /\ follow' \in BOOLEAN
         /\ shift' \in {"none", "earlier", "later", "anchoring"}
<1>1. /\ first \in Nat /\ end \in Nat /\ first <= end /\ end <= l /\ l = Len(windowItems) /\ follow \in BOOLEAN
      /\ shift \in {"none", "earlier", "later", "anchoring"} /\ windowItems \in Seq(WindowItems)
  BY DEF WindowTypes, StreamPlace
<1>2. "thinking" \notin W!Range(windowSaid) /\ windowSaid[1] = "text" /\ W!Range(windowSaid) = {"text"}
  <2>1. windowSaid \in Seq(Kinds) BY DEF WindowTypes
  <2>2. Len(windowSaid) = 1 /\ windowSaid[1] = "text" BY <2>1, OnlyText
  <2>3. DOMAIN windowSaid = {1} BY <2>1, <2>2
  <2> QED BY <2>2, <2>3 DEF W!Range
<1>3. /\ l = s /\ Len(its) = s + 1 /\ ~its[s + 1].thinking /\ s >= 1 /\ ~windowItems[s].thinking
      /\ \A i \in 1 .. s : its[i] = windowItems[i]
  BY <1>2 DEF StreamPlace, EndedAs
<1>4. Window \in Nat \ {0} /\ Overscan \in Nat BY DEF W!WindowAssumption
<1>5. CASE "text" \in takes
  <2>1. /\ rows' = [i \in DOMAIN rows |->
                     IF rows[i] = W!StreamRow(FALSE) THEN W!Row(its[Len(its)]) ELSE rows[i]]
        /\ takes' = takes \ {"text"} /\ first' = first /\ end' = end
        /\ follow' = follow /\ shift' = shift /\ show' = show
    BY <1>5 DEF W!FinishText, W!reader
  <2>2. takes' = {}
    <3>1. takes \subseteq {"text"} BY <1>2 DEF WindowTypes
    <3> QED BY <2>1, <3>1
  <2>3. SettledInv'
    <3> SUFFICES ASSUME ~stale' PROVE SettledInv' BY DEF SettledInv
    <3>1. ~stale /\ ~(end < l) OBVIOUS
    <3>2. /\ first <= s /\ s - first <= Window + Overscan /\ end = l
          /\ Streamed(Stretch(windowItems, first, s, show), rows, windowSaid, takes)
      BY <3>1, LiveIs
    <3>3. PICK kept : kept = Stretch(windowItems, first, s, show) OBVIOUS
    <3>4. rows' = Stretch(its, first, s + 1, show)
      <4>1. Streamed(kept, rows, <<"text">>, takes) BY <3>2, <3>3
      <4>2. Len(windowItems) = s BY <1>1, <1>3
      <4> QED BY <1>1, <1>3, <2>1, <3>2, <3>3, <4>1, <4>2, TextSettles
    <3>5. end' - first' <= Window + Overscan BY <1>3, <2>1, <3>2
    <3>6. rows' = Stretch(windowItems', first', end' + 1, show') BY <1>3, <2>1, <3>2, <3>4
    <3>7. /\ Len(windowItems') = end' + 1 /\ end' >= 1
          /\ ~windowItems'[end'].thinking /\ ~windowItems'[end' + 1].thinking
      <4>1. s \in 1 .. s BY <1>3
      <4>2. ~its[s].thinking BY <1>3, <4>1
      <4> QED BY <1>3, <2>1, <3>2, <4>2
    <3> QED BY <3>5, <3>6, <3>7 DEF SettledInv
  <2>4. first' <= end' /\ end' <= Len(its) BY <1>1, <1>3, <2>1
  <2> QED BY <1>1, <2>1, <2>2, <2>3, <2>4 DEF Settled
<1>6. CASE "text" \notin takes
  <2>1. W!AppendItem(its, FALSE) BY <1>6 DEF W!FinishText
  <2>2. stale'
    <3> SUFFICES ASSUME ~stale, ~(end < l) PROVE FALSE OBVIOUS
    <3>1. Streamed(Stretch(windowItems, first, s, show), rows, windowSaid, takes) BY LiveIs
    <3>2. takes = {"text"} BY <3>1 DEF Streamed
    <3> QED BY <1>6, <3>2
  <2>3. SettledInv' BY <2>2 DEF SettledInv
  <2>4. follow' = (follow \/ FALSE) /\ shift' = shift /\ show' = show BY <2>1 DEF W!AppendItem
  <2>5. Len(its) - 1 = s /\ Len(its) = s + 1 BY <1>3
  <2>6. \/ W!Redraw(its, FALSE, first, end, FALSE)
        \/ takes' = {} /\ first' = first /\ end' = end
        \/ end = s /\ W!Redraw(its, TRUE, W!Less(s + 1, Window), s + 1, FALSE)
        \/ takes' = {} /\ first' = first /\ end' = s + 1
    <3>1. ~(end < s) /\ ~(s > end) => end = s BY <1>1, <1>3
    <3> QED BY <2>1, <2>5, <3>1 DEF W!AppendItem
  <2>7. /\ takes' = {} /\ first' \in Nat /\ end' \in Nat /\ first' <= end' /\ end' <= Len(its)
    <3>0. TRUE \in BOOLEAN /\ FALSE \in BOOLEAN /\ s + 1 \in Nat OBVIOUS
    <3>1. CASE W!Redraw(its, FALSE, first, end, FALSE)
      <4>1. Redrawn(its, FALSE, end, FALSE) BY <1>1, <3>0, <3>1, RedrawIs
      <4> QED BY <4>1 DEF Redrawn
    <3>2. CASE W!Redraw(its, TRUE, W!Less(s + 1, Window), s + 1, FALSE)
      <4>1. W!Less(s + 1, Window) \in Nat BY <1>4 DEF W!Less
      <4>2. Redrawn(its, TRUE, s + 1, FALSE) BY <3>0, <3>2, <4>1, RedrawIs
      <4> QED BY <4>2 DEF Redrawn
    <3>3. CASE takes' = {} /\ first' = first /\ end' = end BY <1>1, <1>3, <3>3
    <3>4. CASE takes' = {} /\ first' = first /\ end' = s + 1 BY <1>1, <1>3, <3>4
    <3> QED BY <2>6, <3>1, <3>2, <3>3, <3>4
  <2> QED BY <1>1, <2>3, <2>4, <2>7 DEF Settled
<1> QED BY <1>5, <1>6

(* What ends with any other message.                                         *)
LEMMA FinishStructuredSettles ==
  ASSUME W!WindowAssumption, WindowTypes, LiveInv, windowPhase = "streaming", windowPhase' = "idle",
         NEW l \in Nat, NEW s \in Nat, StreamPlace(l, s), NEW n \in Nat, n # 0,
         NEW its \in Seq(WindowItems), EndedAs(its, l, s, n), windowItems' = its,
         W!FinishStructured(its), stale' = (stale \/ ~W!ShouldFollow \/ end < l)
  PROVE  /\ Settled(Len(its)) /\ show' = show /\ follow' \in BOOLEAN
         /\ shift' \in {"none", "earlier", "later", "anchoring"}
<1>1. /\ first \in Nat /\ end \in Nat /\ first <= end /\ end <= l /\ l = Len(windowItems) /\ follow \in BOOLEAN
      /\ shift \in {"none", "earlier", "later", "anchoring"} /\ windowItems \in Seq(WindowItems)
      /\ s = windowStart /\ s >= 1 /\ l <= s + 1 /\ s <= l /\ ~windowItems[s].thinking
  BY DEF WindowTypes, StreamPlace
<1>2. Len(its) = s + n /\ \A i \in 1 .. s : its[i] = windowItems[i] BY DEF EndedAs
<1>3. /\ IF (s + n) - first > Window + Overscan
         THEN W!Redraw(its, TRUE, W!Less(s + n, Window), s + n, FALSE)
         ELSE /\ rows' = W!Among(rows, {r \in W!Range(rows) : ~r.active})
                           \o W!RowsOf(SubSeq(its, s + 1, s + n), show)
              /\ end' = s + n /\ takes' = {} /\ first' = first
      /\ follow' = follow /\ shift' = shift /\ show' = show
  BY <1>1, <1>2 DEF W!FinishStructured
<1>4. Window \in Nat \ {0} /\ Overscan \in Nat BY DEF W!WindowAssumption
<1>5. CASE (s + n) - first > Window + Overscan
  <2>1. W!Less(s + n, Window) \in Nat BY <1>4 DEF W!Less
  <2>2. TRUE \in BOOLEAN /\ FALSE \in BOOLEAN /\ s + n \in Nat OBVIOUS
  <2>3. W!Redraw(its, TRUE, W!Less(s + n, Window), s + n, FALSE) BY <1>3, <1>5
  <2>4. Redrawn(its, TRUE, s + n, FALSE) BY <2>1, <2>2, <2>3, RedrawIs
  <2>5. s + n >= Len(its) BY <1>2
  <2>6. its = windowItems' /\ show' = show BY <1>3
  <2>7. Settled(Len(its)) BY <2>4, <2>5, <2>6, RedrawSettles
  <2> QED BY <1>1, <1>3, <2>7
<1>6. CASE ~((s + n) - first > Window + Overscan)
  <2>1. /\ rows' = W!Among(rows, {r \in W!Range(rows) : ~r.active})
                     \o W!RowsOf(SubSeq(its, s + 1, s + n), show)
        /\ end' = s + n /\ takes' = {} /\ first' = first
    BY <1>3, <1>6
  <2>2. SettledInv'
    <3> SUFFICES ASSUME ~stale' PROVE SettledInv' BY DEF SettledInv
    <3>1. ~stale /\ ~(end < l) OBVIOUS
    <3>2. /\ first <= s
          /\ Streamed(Stretch(windowItems, first, s, show), rows, windowSaid, takes)
      BY <3>1, LiveIs
    <3>3. PICK kept \in Seq(ItemRows) : kept = Stretch(windowItems, first, s, show)
      BY <3>2 DEF Streamed
    <3>4. W!Among(rows, {r \in W!Range(rows) : ~r.active}) = kept
      <4>1. /\ rows \in Seq(WindowRows) /\ Len(kept) <= Len(rows)
            /\ \A i \in 1 .. Len(kept) : rows[i] = kept[i]
            /\ \A i \in Len(kept) + 1 .. Len(rows) : rows[i].active
        BY <3>2, <3>3 DEF Streamed
      <4> QED BY <4>1, ActiveGo
    <3>5. kept = Stretch(its, first, s, show)
      <4>1. s <= Len(its) /\ s <= Len(windowItems) /\ \A i \in 1 .. s : its[i] = windowItems[i]
        BY <1>1, <1>2
      <4> QED BY <1>1, <3>3, <4>1, StretchSame
    <3>6. Stretch(its, first, s + n, show) = Stretch(its, first, s, show) \o Stretch(its, s, s + n, show)
      <4>1. ~its[s].thinking
        <5>1. s \in 1 .. s BY <1>1
        <5> QED BY <1>1, <1>2, <5>1
      <4>2. first <= s /\ s <= s + n /\ s + n <= Len(its) /\ s + n \in Nat BY <1>2, <3>2
      <4>3. PICK c \in Nat, a \in Nat : c = s + n /\ a = first BY <1>1, <4>2
      <4>4. a <= s /\ s <= c /\ c <= Len(its) /\ (s = a \/ ~its[s].thinking) BY <4>1, <4>2, <4>3
      <4>5. Stretch(its, a, c, show) = Stretch(its, a, s, show) \o Stretch(its, s, c, show)
        <5>1. Joined(its, a, s, c, show) BY <4>4, StretchJoins
        <5> QED BY <5>1 DEF Joined
      <4> QED BY <4>3, <4>5
    <3>7. Stretch(its, s, s + n, show) = W!RowsOf(SubSeq(its, s + 1, s + n), show) BY DEF Stretch
    <3>8. rows' = Stretch(its, first, s + n, show) BY <2>1, <3>4, <3>5, <3>6, <3>7
    <3>9. end' - first' <= Window + Overscan
      <4>1. PICK w \in Nat, o \in Nat, a \in Nat : w = Window /\ o = Overscan /\ a = first BY <1>1, <1>4
      <4>2. (s + n) - a <= w + o BY <1>6, <4>1
      <4> QED BY <2>1, <4>1, <4>2
    <3>10. rows' = Stretch(windowItems', first', end', show') BY <1>3, <2>1, <3>8
    <3>11. end' = Len(windowItems') BY <1>2, <2>1
    <3> QED BY <3>9, <3>10, <3>11 DEF SettledInv
  <2>3. first <= s + n BY <1>1
  <2> QED BY <1>1, <1>2, <1>3, <2>1, <2>2, <2>3 DEF Settled
<1> QED BY <1>5, <1>6

(* A message ends.                                                           *)
LEMMA WindowEndKeeps ==
  ASSUME W!WindowAssumption, WindowInv, W!MessageEnd
  PROVE  WindowInv'
<1>0. WindowTypes /\ SpeechInv /\ LiveInv BY DEF WindowInv
<1>1. /\ windowPhase = "streaming" /\ windowSaid # << >>
      /\ windowItems' = W!Ended /\ windowMade' = windowMade + Len(windowSaid)
      /\ windowPhase' = "idle" /\ windowStart' = 0 /\ windowSaid' = << >>
      /\ IF windowSaid = <<"text">> THEN W!FinishText(W!Ended) ELSE W!FinishStructured(W!Ended)
      /\ stale' = (stale \/ ~W!ShouldFollow \/ end < Len(windowItems))
  BY DEF W!MessageEnd, W!Streaming
<1>2. PICK l \in Nat, s \in Nat : StreamPlace(l, s) BY <1>0, <1>1, StreamPlaces
<1>3. PICK its \in Seq(WindowItems) : EndedAs(its, l, s, Len(windowSaid)) BY <1>0, <1>2, EndedIs
<1>4. PICK n \in Nat : n = Len(windowSaid) /\ n # 0
  <2>1. windowSaid \in Seq(Kinds) BY <1>0 DEF WindowTypes
  <2> QED BY <1>1, <2>1
<1>5. /\ windowItems' = its /\ EndedAs(its, l, s, n)
      /\ stale' = (stale \/ ~W!ShouldFollow \/ end < l)
  BY <1>1, <1>2, <1>3, <1>4 DEF EndedAs, StreamPlace
<1>6. /\ Settled(Len(its)) /\ show' = show /\ follow' \in BOOLEAN
      /\ shift' \in {"none", "earlier", "later", "anchoring"}
  <2>1. CASE windowSaid = <<"text">>
    <3>1. W!FinishText(its) BY <1>1, <1>5, <2>1
    <3>2. n = 1
      <4>1. windowSaid \in Seq(Kinds) BY <1>0 DEF WindowTypes
      <4> QED BY <1>4, <2>1, <4>1, OnlyText
    <3>3. EndedAs(its, l, s, 1) BY <1>5, <3>2
    <3> QED BY <1>0, <1>1, <1>2, <1>5, <2>1, <3>1, <3>3, FinishTextSettles
  <2>2. CASE windowSaid # <<"text">>
    <3>1. W!FinishStructured(its) BY <1>1, <1>5, <2>2
    <3> QED BY <1>0, <1>1, <1>2, <1>4, <1>5, <3>1, FinishStructuredSettles
  <2> QED BY <2>1, <2>2
<1>7. WindowTypes'
  <2>1. windowMade' \in Nat
    <3>1. windowMade \in Nat BY <1>0 DEF WindowTypes
    <3> QED BY <1>1, <1>4, <3>1
  <2>2. /\ first' \in Nat /\ end' \in Nat /\ first' <= end' /\ end' <= Len(its) /\ takes' = {}
    BY <1>6 DEF Settled
  <2>3. show' \in BOOLEAN BY <1>0, <1>6 DEF WindowTypes
  <2>4. stale' \in BOOLEAN BY <1>0, <1>1 DEF WindowTypes
  <2>5. windowSaid' \in Seq(Kinds) BY <1>1
  <2> QED BY <1>1, <1>5, <1>6, <2>1, <2>2, <2>3, <2>4, <2>5 DEF WindowTypes
<1>8. SpeechInv' BY <1>1 DEF SpeechInv
<1>9. LiveInv' BY <1>1 DEF LiveInv
<1> QED BY <1>6, <1>7, <1>8, <1>9 DEF WindowInv, Settled

(* What a refresh with nothing streaming settles, and what any leaves.       *)
LEMMA RefreshSettles ==
  ASSUME W!WindowAssumption, WindowTypes, NEW its \in Seq(WindowItems), its = windowItems',
         NEW typing \in BOOLEAN, W!UpdateFromState(its, typing)
  PROVE  /\ ~typing => Settled(Len(its))
         /\ first' \in Nat /\ end' \in Nat /\ first' <= end' /\ end' <= Len(its)
         /\ takes' \subseteq {"text"} /\ (~typing => takes' = {})
         /\ show' = show /\ follow' \in BOOLEAN /\ shift' \in {"none", "earlier", "later", "anchoring"}
<1> DEFINE retained == \E r \in W!Range(rows), i \in DOMAIN its : r.of = its[i].id
<1>1. PICK keep \in BOOLEAN : keep <=> retained /\ ~(W!ShouldFollow \/ ~retained) OBVIOUS
<1>2. /\ follow' = (follow \/ ~retained) /\ shift' = shift /\ show' = show
      /\ W!Redraw(its, retained /\ ~(W!ShouldFollow \/ ~retained), first, end, typing)
  BY Zenon DEF W!UpdateFromState
<1>3. follow' => ~keep BY <1>1, <1>2 DEF W!ShouldFollow
<1>4. follow' \in BOOLEAN BY <1>2
<1>5. keep = (retained /\ ~(W!ShouldFollow \/ ~retained))
  <2> HIDE DEF retained
  <2> QED BY <1>1 DEF W!ShouldFollow
<1>6. W!Redraw(its, keep, first, end, typing)
  <2> HIDE DEF retained
  <2> QED BY <1>2, <1>5
<1>7. first \in Nat /\ end \in Nat /\ shift \in {"none", "earlier", "later", "anchoring"}
  BY DEF WindowTypes
<1>8. Redrawn(its, keep, end, typing) BY <1>6, <1>7, RedrawIs
<1> HIDE DEF retained
<1>9. ~typing => Settled(Len(its))
  <2> SUFFICES ASSUME ~typing PROVE Settled(Len(its)) OBVIOUS
  <2>1. Redrawn(its, keep, end, FALSE) BY <1>8
  <2> QED BY <1>2, <1>3, <2>1, RedrawSettles
<1> QED BY <1>2, <1>4, <1>7, <1>8, <1>9 DEF Redrawn

(* A message that fails.                                                     *)
LEMMA WindowFailsKeeps ==
  ASSUME W!WindowAssumption, WindowInv, W!MessageFails
  PROVE  WindowInv'
<1>0. WindowTypes /\ SpeechInv BY DEF WindowInv
<1>1. PICK x \in WindowItems : x = [id |-> windowMade + 1, thinking |-> FALSE]
  BY <1>0, MadeIs DEF WindowTypes
<1>2. /\ windowPhase = "streaming" /\ windowItems' = Append(SubSeq(windowItems, 1, windowStart), x)
      /\ W!UpdateFromState(Append(SubSeq(windowItems, 1, windowStart), x), FALSE)
      /\ windowMade' = windowMade + 1 /\ windowPhase' = "idle" /\ windowStart' = 0
      /\ windowSaid' = << >> /\ stale' = FALSE
  BY <1>1 DEF W!MessageFails, W!Streaming
<1>3. PICK l \in Nat, s \in Nat : StreamPlace(l, s) BY <1>0, <1>2, StreamPlaces
<1>4. SubSeq(windowItems, 1, windowStart) \in Seq(WindowItems)
  <2>1. 0 \in Nat /\ 0 <= s /\ s <= Len(windowItems) /\ windowItems \in Seq(WindowItems) /\ s = windowStart
    BY <1>3 DEF StreamPlace
  <2>2. SubSeq(windowItems, 0 + 1, s) \in Seq(WindowItems) BY <2>1, SliceIs
  <2>3. 0 + 1 = 1 OBVIOUS
  <2> QED BY <2>1, <2>2, <2>3
<1>5. PICK its \in Seq(WindowItems) : its = Append(SubSeq(windowItems, 1, windowStart), x)
  BY <1>1, <1>4, AppendProperties
<1>6. windowItems' = its /\ W!UpdateFromState(its, FALSE) /\ FALSE \in BOOLEAN BY <1>2, <1>5
<1>7. /\ Settled(Len(its)) /\ show' = show
      /\ follow' \in BOOLEAN /\ shift' \in {"none", "earlier", "later", "anchoring"}
  BY <1>0, <1>6, RefreshSettles
<1>8. WindowTypes'
  <2>1. windowMade' \in Nat
    <3>1. windowMade \in Nat BY <1>0 DEF WindowTypes
    <3> QED BY <1>2, <3>1
  <2>2. /\ first' \in Nat /\ end' \in Nat /\ first' <= end' /\ end' <= Len(its) /\ takes' = {}
    BY <1>7 DEF Settled
  <2>3. show' \in BOOLEAN BY <1>0, <1>7 DEF WindowTypes
  <2>4. windowSaid' \in Seq(Kinds) BY <1>2
  <2> QED BY <1>2, <1>6, <1>7, <2>1, <2>2, <2>3, <2>4 DEF WindowTypes
<1>9. SpeechInv' BY <1>2 DEF SpeechInv
<1>10. LiveInv' BY <1>2 DEF LiveInv
<1> QED BY <1>7, <1>8, <1>9, <1>10 DEF WindowInv, Settled

(* Whether the streamed message has text.                                    *)
LEMMA TypingIs ==
  ASSUME WindowTypes
  PROVE  W!Contains(windowSaid, "text") <=> "text" \in W!Range(windowSaid)
<1>1. windowSaid \in Seq(Kinds) BY DEF WindowTypes
<1>2. DOMAIN windowSaid = 1 .. Len(windowSaid) BY <1>1
<1> QED BY <1>2 DEF W!Contains, W!Range

(* A refresh.                                                                *)
LEMMA WindowRefreshKeeps ==
  ASSUME W!WindowAssumption, WindowInv, W!Refresh
  PROVE  WindowInv'
<1>0. WindowTypes /\ SpeechInv BY DEF WindowInv
<1>1. PICK typing \in BOOLEAN : typing = (W!Streaming /\ W!Contains(windowSaid, "text")) OBVIOUS
<1>2. /\ W!UpdateFromState(windowItems, typing) /\ stale' = (windowPhase = "streaming")
      /\ Framed
  BY <1>1 DEF W!Refresh, W!Streaming, W!stream, Framed
<1>3. windowItems \in Seq(WindowItems) /\ windowItems = windowItems' /\ windowPhase' = windowPhase
  BY <1>0, <1>2 DEF WindowTypes, Framed
<1>4. /\ ~typing => Settled(Len(windowItems))
      /\ first' \in Nat /\ end' \in Nat /\ first' <= end' /\ end' <= Len(windowItems)
      /\ takes' \subseteq {"text"} /\ (~typing => takes' = {})
      /\ show' = show /\ follow' \in BOOLEAN /\ shift' \in {"none", "earlier", "later", "anchoring"}
  BY <1>0, <1>2, <1>3, RefreshSettles
<1>5. takes' \subseteq W!Range(windowSaid)
  <2>1. typing => "text" \in W!Range(windowSaid) BY <1>0, <1>1, TypingIs
  <2> QED BY <1>4, <2>1
<1>6. show' \in BOOLEAN /\ stale' \in BOOLEAN BY <1>0, <1>2, <1>4 DEF WindowTypes
<1>7. WindowTypes' /\ SpeechInv' BY <1>0, <1>2, <1>4, <1>5, <1>6, FrameKeeps
<1>8. SettledInv'
  <2>1. CASE windowPhase = "streaming" BY <1>3, <2>1 DEF SettledInv
  <2>2. CASE windowPhase # "streaming"
    <3>1. ~typing BY <1>1, <2>2 DEF W!Streaming
    <3> QED BY <1>4, <3>1 DEF Settled
  <2> QED BY <2>1, <2>2
<1>9. LiveInv' BY <1>2, <1>3 DEF LiveInv
<1> QED BY <1>7, <1>8, <1>9 DEF WindowInv

(* The reader scrolls, or is put back to the anchor.                         *)
LEMMA WindowScrollKeeps ==
  ASSUME WindowInv,
         \/ \E toTop \in BOOLEAN : W!ScrollUp(toTop)
         \/ W!ScrollToEnd
         \/ W!RestoreAnchor
  PROVE  WindowInv'
<1>0. WindowTypes /\ SpeechInv /\ SettledInv /\ LiveInv BY DEF WindowInv
<1>1. /\ Framed /\ rows' = rows /\ first' = first /\ end' = end /\ show' = show /\ takes' = takes
      /\ stale' = stale
  BY DEF W!ScrollUp, W!ScrollToEnd, W!RestoreAnchor, W!stream, Framed
<1>2. /\ first \in Nat /\ end \in Nat /\ first <= end /\ end <= Len(windowItems) /\ Len(windowItems) \in Nat
      /\ shift \in {"none", "earlier", "later", "anchoring"}
      /\ show \in BOOLEAN /\ stale \in BOOLEAN /\ takes \subseteq W!Range(windowSaid)
  BY <1>0 DEF WindowTypes
<1>3. follow' \in BOOLEAN /\ (follow' => end = Len(windowItems))
      /\ shift' \in {"none", "earlier", "later", "anchoring"}
  <2>1. CASE \E toTop \in BOOLEAN : W!ScrollUp(toTop) BY <1>2, <2>1 DEF W!ScrollUp
  <2>2. CASE W!ScrollToEnd
    <3>1. shift' \in {"none", "earlier", "later", "anchoring"} BY <1>2, <2>2 DEF W!ScrollToEnd
    <3>2. follow' = W!Latest BY <2>2, Zenon DEF W!ScrollToEnd
    <3>3. W!Latest \in BOOLEAN /\ (W!Latest => end = Len(windowItems)) BY <1>2 DEF W!Latest
    <3> QED BY <3>1, <3>2, <3>3, Zenon
  <2>3. CASE W!RestoreAnchor BY <2>3 DEF W!RestoreAnchor
  <2> QED BY <2>1, <2>2, <2>3
<1>4. WindowTypes' /\ SpeechInv' BY <1>0, <1>1, <1>2, <1>3, FrameKeeps
<1>5. SettledInv' BY <1>0, <1>1, <1>3 DEF SettledInv, Framed
<1>6. LiveInv' BY <1>0, <1>1 DEF LiveInv, Framed
<1> QED BY <1>4, <1>5, <1>6 DEF WindowInv

(* The window moves to earlier or later items.                               *)
LEMMA WindowShiftKeeps ==
  ASSUME W!WindowAssumption, WindowInv, NEW d \in {"earlier", "later"}, W!Shift(d)
  PROVE  WindowInv'
<1>0. WindowTypes /\ SpeechInv /\ SettledInv /\ LiveInv BY DEF WindowInv
<1> DEFINE earlier == d = "earlier"
           f == IF earlier THEN W!Less(first, Page)
                ELSE W!Less(W!Least(Len(windowItems), end + Page), Window)
           e == IF earlier THEN W!Least(Len(windowItems), f + Window)
                ELSE W!Least(Len(windowItems), end + Page)
<1>1. /\ shift = d /\ Framed /\ follow' = follow /\ show' = show
      /\ \/ /\ shift' = "anchoring" /\ stale' = W!Streaming
            /\ W!Redraw(windowItems, TRUE, f, e, W!Streaming /\ W!Contains(windowSaid, "text"))
         \/ /\ shift' = "none" /\ rows' = rows /\ first' = first /\ end' = end
            /\ takes' = takes /\ stale' = stale
  BY DEF W!Shift, W!stream, Framed
<1>2. /\ first \in Nat /\ end \in Nat /\ first <= end /\ end <= Len(windowItems) /\ Len(windowItems) \in Nat
      /\ show \in BOOLEAN /\ stale \in BOOLEAN /\ follow \in BOOLEAN
      /\ takes \subseteq W!Range(windowSaid) /\ windowItems \in Seq(WindowItems)
  BY <1>0 DEF WindowTypes
<1>3. f \in Nat /\ e \in Nat
  <2>1. Window \in Nat /\ Page \in Nat
    <3>1. PICK w \in Nat : w = Window BY DEF W!WindowAssumption
    <3> QED BY <3>1 DEF W!WindowAssumption
  <2>2. f \in Nat BY <1>2, <2>1 DEF W!Less, W!Least
  <2> HIDE DEF f
  <2>3. e \in Nat BY <1>2, <2>1, <2>2 DEF W!Least
  <2> QED BY <2>2, <2>3
<1> HIDE DEF f, e, earlier
<1>4. windowItems' = windowItems /\ windowPhase' = windowPhase BY <1>1 DEF Framed
<1>5. CASE /\ shift' = "anchoring" /\ stale' = W!Streaming
           /\ W!Redraw(windowItems, TRUE, f, e, W!Streaming /\ W!Contains(windowSaid, "text"))
  <2>1. PICK typing \in BOOLEAN : typing = (W!Streaming /\ W!Contains(windowSaid, "text")) OBVIOUS
  <2>2. Redrawn(windowItems, TRUE, e, typing)
    <3>1. TRUE \in BOOLEAN /\ W!Redraw(windowItems, TRUE, f, e, typing) BY <1>5, <2>1
    <3> QED BY <1>2, <1>3, <3>1, RedrawIs
  <2>3. takes' \subseteq W!Range(windowSaid)
    <3>1. typing => "text" \in W!Range(windowSaid) BY <1>0, <2>1, TypingIs
    <3> QED BY <2>2, <3>1 DEF Redrawn
  <2>4. first' \in Nat /\ end' \in Nat /\ first' <= end' /\ end' <= Len(windowItems)
    BY <2>2 DEF Redrawn
  <2>5. follow' \in BOOLEAN /\ show' \in BOOLEAN /\ stale' \in BOOLEAN
        /\ shift' \in {"none", "earlier", "later", "anchoring"}
    BY <1>1, <1>2, <1>5 DEF W!Streaming
  <2>6. WindowTypes' /\ SpeechInv' BY <1>0, <1>1, <2>3, <2>4, <2>5, FrameKeeps
  <2>7. SettledInv'
    <3>1. CASE windowPhase = "streaming" BY <1>4, <3>1 DEF SettledInv
    <3>2. CASE windowPhase # "streaming"
      <4>1. ~typing BY <2>1, <3>2 DEF W!Streaming
      <4>2. Redrawn(windowItems, TRUE, e, FALSE) BY <2>2, <4>1
      <4>3. TRUE \in BOOLEAN /\ shift' = "anchoring" /\ show' = show BY <1>1, <1>5
      <4>4. Settled(Len(windowItems)) BY <1>4, <4>2, <4>3, RedrawSettles
      <4> QED BY <4>4 DEF Settled
    <3> QED BY <3>1, <3>2
  <2>8. LiveInv' BY <1>4, <1>5 DEF LiveInv, W!Streaming
  <2> QED BY <2>6, <2>7, <2>8 DEF WindowInv
<1>6. CASE /\ shift' = "none" /\ rows' = rows /\ first' = first /\ end' = end
           /\ takes' = takes /\ stale' = stale
  <2>1. WindowTypes' /\ SpeechInv' BY <1>0, <1>1, <1>2, <1>6, FrameKeeps
  <2>2. SettledInv' BY <1>0, <1>1, <1>4, <1>6 DEF SettledInv
  <2>3. LiveInv' BY <1>0, <1>1, <1>6 DEF LiveInv, Framed
  <2> QED BY <2>1, <2>2, <2>3 DEF WindowInv
<1> QED BY <1>1, <1>5, <1>6

(* Thinking is hidden or shown: the rows are those of the same items, the    *)
(* other way.                                                                *)
LEMMA ToggleSettles ==
  ASSUME windowItems \in Seq(WindowItems), NEW e \in Nat, e <= Len(windowItems),
         first \in Nat, end \in Nat, first <= end, show \in BOOLEAN,
         rows = Stretch(windowItems, first, e, show),
         \/ e = end
         \/ /\ e = end + 1 /\ ~windowItems[end + 1].thinking
            /\ end = first \/ ~windowItems[end].thinking
  PROVE  W!Remounted(SubSeq(windowItems, first + 1, end),
                     W!Among(rows, {r \in W!Range(rows) : ~r.thinking}))
           = Stretch(windowItems, first, e, ~show)
<1>1. PICK f \in Nat, d \in Nat : f = first /\ d = end /\ f <= d /\ d <= e OBVIOUS
<1>2. PICK n \in Nat, m \in Nat : n = d - f /\ m = e - f /\ n <= m BY <1>1
<1>3. PICK t \in Seq(WindowItems) : /\ t = SubSeq(windowItems, f + 1, e) /\ Len(t) = m
                                    /\ \A i \in 1 .. m : t[i] = windowItems[f + i]
  <2>1. f <= e BY <1>1
  <2>2. Slice(windowItems, f, e) /\ SubSeq(windowItems, f + 1, e) \in Seq(WindowItems) BY <2>1, SliceIs
  <2> QED BY <1>2, <2>2 DEF Slice
<1>4. \A visible : Stretch(t, 0, m, visible) = Stretch(windowItems, f, e, visible)
  <2>1. SubSeq(t, 0 + 1, m) = t
    <3>1. 0 \in Nat /\ 0 <= m /\ m <= Len(t) BY <1>3
    <3>2. Slice(t, 0, m) /\ SubSeq(t, 0 + 1, m) \in Seq(WindowItems) BY <3>1, SliceIs
    <3>3. PICK u \in Seq(WindowItems) : u = SubSeq(t, 0 + 1, m) BY <3>2
    <3>4. m - 0 = m /\ \A i \in 1 .. m : 0 + i = i OBVIOUS
    <3>5. Len(u) = m /\ \A i \in 1 .. m : u[i] = t[i] BY <3>2, <3>3, <3>4 DEF Slice
    <3>6. u = t BY <1>3, <3>5
    <3> QED BY <3>3, <3>6
  <2> QED BY <1>3, <2>1 DEF Stretch
<1>5. SubSeq(windowItems, first + 1, end) = SubSeq(t, 1, n)
  <2>1. f <= d /\ d <= Len(windowItems) BY <1>1
  <2>2. Slice(windowItems, f, d) /\ SubSeq(windowItems, f + 1, d) \in Seq(WindowItems) BY <2>1, SliceIs
  <2>3. PICK u \in Seq(WindowItems) : /\ u = SubSeq(windowItems, f + 1, d) /\ Len(u) = n
                                      /\ \A i \in 1 .. n : u[i] = windowItems[f + i]
    BY <1>2, <2>2 DEF Slice
  <2>4. 0 \in Nat /\ 0 <= n /\ n <= Len(t) BY <1>2, <1>3
  <2>5. Slice(t, 0, n) /\ SubSeq(t, 0 + 1, n) \in Seq(WindowItems) BY <2>4, SliceIs
  <2>6. 0 + 1 = 1 /\ n - 0 = n /\ \A i \in 1 .. n : 0 + i = i OBVIOUS
  <2>7. PICK v \in Seq(WindowItems) : v = SubSeq(t, 0 + 1, n) BY <2>5
  <2>8. Len(v) = n /\ \A i \in 1 .. n : v[i] = t[i] BY <2>5, <2>6, <2>7 DEF Slice
  <2>9. \A i \in 1 .. n : v[i] = u[i]
    <3> TAKE i \in 1 .. n
    <3>1. i \in 1 .. m BY <1>2
    <3> QED BY <1>3, <2>3, <2>8, <3>1
  <2>10. u = v BY <2>3, <2>8, <2>9
  <2> QED BY <1>1, <2>3, <2>6, <2>7, <2>10
<1>6. rows = Stretch(t, 0, m, show) BY <1>1, <1>4
<1>7. rows \in Seq(ItemRows)
  <2>1. 0 \in Nat /\ m \in 0 .. Len(t) BY <1>3
  <2> QED BY <1>6, <2>1, StretchTypes
<1>8. W!Among(rows, {r \in W!Range(rows) : ~r.thinking}) = Others(t, m, show)
  <2> DEFINE T == {r \in W!Range(rows) : ~r.thinking}
  <2>1. \A i \in 1 .. Len(rows) : rows[i] \in T <=> rows[i] \in Spoken
    <3> TAKE i \in 1 .. Len(rows)
    <3>1. rows[i] \in ItemRows /\ i \in DOMAIN rows BY <1>7
    <3>2. rows[i] \in W!Range(rows) BY <3>1 DEF W!Range
    <3> QED BY <3>1, <3>2 DEF Spoken
  <2>2. PICK X : X = T OBVIOUS
  <2> HIDE DEF T
  <2>3. W!Among(rows, X) = I!Among(rows, X) BY PicksAlike
  <2>4. I!Among(rows, X) = I!Among(rows, Spoken) BY <1>7, <2>1, <2>2, AmongAgrees
  <2>5. I!Among(rows, Spoken) = Others(t, m, show) BY <1>6 DEF Others
  <2> QED BY <2>2, <2>3, <2>4, <2>5 DEF T
<1>9. W!Remounted(SubSeq(t, 1, n), Others(t, Len(t), show)) = Stretch(t, 0, Len(t), ~show)
  <2>1. n \in 0 .. Len(t) BY <1>2, <1>3
  <2>2. CASE e = end
    <3>1. n = Len(t) BY <1>1, <1>2, <1>3, <2>2
    <3> QED BY <2>1, <3>1, RemountedIs
  <2>3. CASE e = end + 1 /\ ~windowItems[end + 1].thinking
             /\ (end = first \/ ~windowItems[end].thinking)
    <3>1. Len(t) = n + 1 /\ m = n + 1 /\ f + (n + 1) = d + 1 BY <1>1, <1>2, <1>3, <2>3
    <3>2. ~t[n + 1].thinking
      <4>1. n + 1 \in 1 .. m BY <3>1
      <4> QED BY <1>1, <1>3, <2>3, <3>1, <4>1
    <3>3. n = 0 \/ ~t[n].thinking
      <4> SUFFICES ASSUME n # 0 PROVE ~t[n].thinking OBVIOUS
      <4>1. n \in 1 .. m /\ f + n = d /\ d # f BY <1>1, <1>2
      <4> QED BY <1>1, <1>3, <2>3, <4>1
    <3> QED BY <2>1, <3>1, <3>2, <3>3, RemountedIs
  <2> QED BY <2>2, <2>3
<1> QED BY <1>1, <1>3, <1>4, <1>5, <1>8, <1>9

(* Thinking is hidden or shown.                                              *)
LEMMA WindowToggleKeeps ==
  ASSUME WindowInv, W!ToggleThinking
  PROVE  WindowInv'
<1>0. WindowTypes /\ SpeechInv /\ SettledInv /\ LiveInv BY DEF WindowInv
<1>1. /\ show' = ~show /\ takes' = takes \ {"thinking"} /\ stale' = (stale \/ W!Streaming)
      /\ rows' = W!Remounted(SubSeq(windowItems, first + 1, end),
                             W!Among(rows, {r \in W!Range(rows) : ~r.thinking}))
      /\ Framed /\ first' = first /\ end' = end /\ follow' = follow /\ shift' = shift
  BY DEF W!ToggleThinking, W!stream, Framed
<1>2. /\ first \in Nat /\ end \in Nat /\ first <= end /\ end <= Len(windowItems) /\ Len(windowItems) \in Nat
      /\ show \in BOOLEAN /\ stale \in BOOLEAN /\ follow \in BOOLEAN
      /\ shift \in {"none", "earlier", "later", "anchoring"}
      /\ takes \subseteq W!Range(windowSaid) /\ windowItems \in Seq(WindowItems)
  BY <1>0 DEF WindowTypes
<1>3. WindowTypes' /\ SpeechInv'
  <2>1. show' \in BOOLEAN /\ stale' \in BOOLEAN /\ takes' \subseteq W!Range(windowSaid) BY <1>1, <1>2
  <2> QED BY <1>0, <1>1, <1>2, <2>1, FrameKeeps
<1>4. SettledInv'
  <2> SUFFICES ASSUME windowPhase # "streaming", ~stale PROVE SettledInv'
    BY <1>1 DEF SettledInv, Framed, W!Streaming
  <2>1. end - first <= Window + Overscan BY <1>0 DEF SettledInv
  <2>2. CASE /\ rows = Stretch(windowItems, first, end, show)
             /\ follow /\ shift # "anchoring" => end = Len(windowItems)
    <3>1. rows' = Stretch(windowItems, first, end, ~show) BY <1>1, <1>2, <2>2, ToggleSettles
    <3> QED BY <1>1, <2>1, <2>2, <3>1 DEF SettledInv, Framed
  <2>3. CASE /\ windowPhase = "idle" /\ rows = Stretch(windowItems, first, end + 1, show)
             /\ Len(windowItems) = end + 1 /\ end >= 1
             /\ ~windowItems[end].thinking /\ ~windowItems[end + 1].thinking
    <3>1. end + 1 \in Nat /\ end + 1 <= Len(windowItems) BY <1>2, <2>3
    <3>2. rows' = Stretch(windowItems, first, end + 1, ~show) BY <1>1, <1>2, <2>3, <3>1, ToggleSettles
    <3> QED BY <1>1, <2>1, <2>3, <3>2 DEF SettledInv, Framed
  <2> QED BY <1>0, <2>2, <2>3 DEF SettledInv
<1>5. LiveInv' BY <1>1 DEF LiveInv, Framed, W!Streaming
<1> QED BY <1>3, <1>4, <1>5 DEF WindowInv

(* It holds at the beginning.                                                *)
LEMMA WindowInit ==
  ASSUME W!WindowAssumption, W!Init
  PROVE  WindowInv
<1>1. /\ windowItems = << >> /\ windowMade = 0 /\ rows = << >> /\ first = 0 /\ end = 0
      /\ follow = TRUE /\ shift = "none" /\ show \in BOOLEAN /\ takes = {}
      /\ windowPhase = "idle" /\ windowStart = 0 /\ windowSaid = << >> /\ stale = FALSE
  BY DEF W!Init
<1>2. WindowTypes
  <2>1. /\ << >> \in Seq(WindowItems) /\ << >> \in Seq(Kinds) /\ Len(<< >>) = 0
        /\ {} \subseteq W!Range(<< >>) /\ 0 <= 0 /\ 0 \in Nat
    OBVIOUS
  <2>2. /\ windowItems \in Seq(WindowItems) /\ windowSaid \in Seq(Kinds) /\ takes \subseteq W!Range(windowSaid)
        /\ first \in Nat /\ end \in Nat /\ first <= end /\ end <= Len(windowItems)
        /\ windowMade \in Nat /\ windowStart \in Nat
    BY <1>1, <2>1
  <2> QED BY <1>1, <2>2 DEF WindowTypes
<1>3. SpeechInv BY <1>1 DEF SpeechInv
<1>4. SettledInv
  <2>1. << >> \in Seq(WindowItems) /\ Len(<< >>) = 0 /\ 0 \in 0 .. 0 OBVIOUS
  <2>2. Stretch(<< >>, 0, 0, show) = << >> BY <2>1, StretchNone
  <2>3. 0 <= Window + Overscan
    <3>1. PICK w \in Nat, o \in Nat : w = Window /\ o = Overscan BY DEF W!WindowAssumption
    <3> QED BY <3>1
  <2>4. end - first <= Window + Overscan BY <1>1, <2>3
  <2>5. rows = Stretch(windowItems, first, end, show) /\ end = Len(windowItems) BY <1>1, <2>1, <2>2
  <2> QED BY <2>4, <2>5 DEF SettledInv
<1>5. LiveInv BY <1>1 DEF LiveInv
<1> QED BY <1>2, <1>3, <1>4, <1>5 DEF WindowInv

(* Every step keeps it.                                                      *)
LEMMA WindowNext ==
  ASSUME W!WindowAssumption, WindowInv, [W!Next]_(W!vars)
  PROVE  WindowInv'
<1>1. CASE W!vars' = W!vars
  <2>1. /\ Framed /\ rows' = rows /\ first' = first /\ end' = end /\ show' = show /\ takes' = takes
        /\ stale' = stale /\ follow' = follow /\ shift' = shift
    BY <1>1 DEF W!vars, W!reader, W!stream, Framed
  <2> QED BY <2>1 DEF WindowInv, WindowTypes, SpeechInv, SettledInv, LiveInv, Framed
<1>2. CASE W!Next
  BY <1>2, WindowItemKeeps, WindowStartKeeps, WindowTextKeeps, WindowThinkingKeeps, WindowEndKeeps,
     WindowFailsKeeps, WindowRefreshKeeps, WindowScrollKeeps, WindowShiftKeeps, WindowToggleKeeps
  DEF W!Next
<1> QED BY <1>1, <1>2

(* It says that the rows are mounted.                                        *)
LEMMA WindowShows ==
  ASSUME W!WindowAssumption, WindowInv
  PROVE  W!WindowIsMounted
<1> SUFFICES ASSUME windowPhase # "streaming", ~stale
             PROVE  \E e \in {end, Len(windowItems)} :
                      /\ W!Of(rows) = W!Of(W!RowsOf(SubSeq(windowItems, first + 1, e), show))
                      /\ follow /\ shift # "anchoring" => e = Len(windowItems)
                      /\ e - first <= Window + Overscan + 1
  BY DEF W!WindowIsMounted, W!Streaming
<1>1. PICK f \in Nat, d \in Nat, w \in Nat, o \in Nat :
        f = first /\ d = end /\ w = Window /\ o = Overscan /\ d - f <= w + o
  BY DEF WindowInv, WindowTypes, SettledInv, W!WindowAssumption
<1>2. CASE /\ rows = Stretch(windowItems, first, end, show)
           /\ follow /\ shift # "anchoring" => end = Len(windowItems)
  <2>1. end - first <= Window + Overscan + 1 BY <1>1
  <2>2. W!Of(rows) = W!Of(W!RowsOf(SubSeq(windowItems, first + 1, end), show)) BY <1>2 DEF Stretch
  <2> QED BY <1>2, <2>1, <2>2
<1>3. CASE /\ rows = Stretch(windowItems, first, end + 1, show) /\ Len(windowItems) = end + 1
  <2>1. Len(windowItems) - first <= Window + Overscan + 1 BY <1>1, <1>3
  <2>2. W!Of(rows) = W!Of(W!RowsOf(SubSeq(windowItems, first + 1, Len(windowItems)), show))
    BY <1>3 DEF Stretch
  <2> QED BY <2>1, <2>2
<1> QED BY <1>2, <1>3 DEF WindowInv, SettledInv

(* Between messages the mounted rows are those of the window's items, each   *)
(* once and in order, up to the last when the reader follows, and never many *)
(* more than a window, unless items came while the reader was elsewhere:     *)
(* TranscriptView against the items of its state.                            *)
THEOREM WindowIsAlwaysMounted == Spec => []WindowIsMounted
<1>1. Init => WindowInv
  BY PartsAssumption, WindowInit DEF Init
<1>2. ASSUME WindowInv, [Next]_vars PROVE WindowInv'
  <2>1. [W!Next]_(W!vars)
    BY <1>2 DEF Next, vars, windowVars, W!vars, W!reader, W!stream
  <2> QED BY <1>2, <2>1, PartsAssumption, WindowNext
<1>3. WindowInv => WindowIsMounted
  BY PartsAssumption, WindowShows DEF WindowIsMounted
<1> QED BY <1>1, <1>2, <1>3, PTL DEF Spec
=============================================================================
