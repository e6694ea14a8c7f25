---------------------------- MODULE PromptWorkers ----------------------------
(* How the interface runs prompts and manual compactions                    *)
(* (tau_coding/tui/app.py).  A key or a posted callback is handled to its   *)
(* end before the next one; a prompt and a compaction run in workers, and   *)
(* starting an exclusive worker cancels every other one.  A cancelled       *)
(* worker goes on until its next await gives it the cancellation: until     *)
(* then it is dying.  A prompt is its own run: the counter of run ids is    *)
(* the prompt, or the compaction, that was given the last id.               *)
EXTENDS Naturals, FiniteSets, Sequences

CONSTANTS Typed,       \* prompts the user enters
          Asked,       \* prompts an extension asks for
          Compaction,  \* manual compactions
          None

Prompt == Typed \union Asked
WorkersAssumption == /\ Prompt \intersect Compaction = {}
                     /\ None \notin Prompt \union Compaction

VARIABLES stage,       \* how far each prompt is
          pump,        \* the prompt whose handler occupies the message pump
          owner,       \* the prompt that has the current run id
          worker,      \* the prompt whose worker is _prompt_worker
          dying,       \* cancelled workers that have not unwound
          running,     \* the view shows a run
          optimistic,  \* prompts shown before the session confirmed them
          shown,       \* how often the transcript shows a prompt
          turn,        \* the prompt whose call is inside the harness
          queue,       \* prompts in the harness's queue
          history,     \* prompts in the session's messages
          interrupted, \* prompts the user cancelled
          cstage, cowner, cworker, compacting

prompts     == <<stage, pump, owner, worker, running>>
transcript  == <<optimistic, shown>>
session     == <<turn, queue, history>>
compactions == <<cstage, cowner, cworker, compacting>>
vars == <<prompts, dying, transcript, session, interrupted, compactions>>

Init == /\ stage = [p \in Prompt |-> "unsent"]
        /\ pump = None /\ owner = None /\ worker = None /\ dying = {}
        /\ running = FALSE /\ optimistic = {}
        /\ shown = [p \in Prompt |-> 0]
        /\ turn = None /\ queue = <<>> /\ history = {} /\ interrupted = {}
        /\ cstage = [c \in Compaction |-> "none"]
        /\ cowner = None /\ cworker = None /\ compacting = FALSE

Active(p)  == stage[p] \in {"hooks", "prepare", "turn", "settle"}
ByKey(p)   == pump = p /\ Active(p)
Visible(p) == ByKey(p) \/ owner = p  \* its events reach the view
To(p, s)   == stage' = [stage EXCEPT ![p] = s]

(* A compaction's worker that has neither finished nor been cancelled.       *)
Live(c) == c # None /\ cstage[c] \in {"starting", "running"} /\ c \notin dying

(* _is_compaction_active, _is_agent_or_queue_active *)
CompactionActive == Live(cworker) \/ compacting
AgentOrQueueActive ==
  \/ running
  \/ turn # None
  \/ worker # None /\ Active(worker) /\ worker \notin dying
  \/ queue # <<>>

---------------------------------------------------------------------------
(* Keys and callbacks, one at a time                                        *)

(* _submit_prompt: the prompt gets the run id and is shown; mounting the    *)
(* item is awaited.                                                         *)
Submit(p) ==
  /\ pump' = p /\ To(p, "mount") /\ owner' = p
  /\ optimistic' = optimistic \union {p}
  /\ shown' = [shown EXCEPT ![p] = @ + 1]
  /\ UNCHANGED <<worker, running, session, compactions>>

(* Enter: the text stays in the editor under a compaction, is queued while  *)
(* the view shows a run, and is submitted otherwise.                        *)
Enter(p) ==
  /\ pump = None /\ stage[p] = "unsent" /\ ~CompactionActive
  /\ \/ ~running /\ Submit(p)
     \/ /\ running /\ pump' = p /\ To(p, "hooks")
        /\ UNCHANGED <<owner, worker, running, transcript, session, compactions>>
  /\ UNCHANGED <<dying, interrupted>>

(* An extension sends a message: queued under a run, otherwise posted to    *)
(* the interface.                                                           *)
Ask(p) ==
  /\ stage[p] = "unsent"
  /\ \/ /\ turn # None /\ queue' = Append(queue, p) /\ To(p, "queued")
     \/ /\ turn = None /\ To(p, "posted") /\ UNCHANGED queue
  /\ UNCHANGED <<pump, owner, worker, running, dying, transcript, turn, history,
                 interrupted, compactions>>

(* _deliver_extension_message *)
Deliver(p) ==
  /\ pump = None /\ stage[p] = "posted"
  /\ \/ turn = None /\ worker = None /\ Submit(p)
     \/ /\ turn # None \/ worker # None
        /\ queue' = Append(queue, p) /\ To(p, "queued")
        /\ UNCHANGED <<pump, owner, worker, running, transcript, turn, history, compactions>>
  /\ UNCHANGED <<dying, interrupted>>

(* The item is mounted: the prompt's worker starts, and every worker of the *)
(* same group is cancelled, a compaction's among them.                      *)
StartWorker(p) ==
  /\ pump = p /\ stage[p] = "mount"
  /\ pump' = None /\ To(p, "hooks") /\ worker' = p
  /\ dying' = dying \union {q \in Prompt : Active(q)}
                    \union {c \in Compaction : cstage[c] \in {"starting", "running"}}
  /\ UNCHANGED <<owner, running, transcript, session, interrupted, compactions>>

StartCompaction(c) ==
  /\ pump = None /\ cstage[c] = "none" /\ ~CompactionActive /\ ~AgentOrQueueActive
  /\ cstage' = [cstage EXCEPT ![c] = "starting"] /\ cworker' = c
  /\ UNCHANGED <<prompts, dying, transcript, session, interrupted, cowner, compacting>>

Reloaded == [p \in Prompt |-> IF p \in history THEN 1 ELSE 0]

(* action_cancel: a compaction if one is active, otherwise the prompt       *)
CancelCompaction ==
  /\ pump = None /\ Live(cworker)
  /\ dying' = dying \union {cworker}
  /\ cowner' = None /\ cworker' = None /\ compacting' = FALSE
  /\ shown' = Reloaded
  /\ UNCHANGED <<prompts, optimistic, session, interrupted, cstage>>

CancelPrompt ==
  /\ pump = None /\ ~Live(cworker)
  /\ running \/ turn # None \/ (worker # None /\ worker \notin dying)
  /\ owner' = None /\ worker' = None /\ running' = FALSE
  /\ dying' = IF worker = None THEN dying ELSE dying \union {worker}
  /\ interrupted' = interrupted \union {q \in Prompt : Active(q)}
  /\ UNCHANGED <<stage, pump, transcript, session, compactions>>

(* A queued message goes back into the editor.                              *)
EditQueued ==
  /\ pump = None /\ running /\ queue # <<>>
  /\ queue' = SubSeq(queue, 1, Len(queue) - 1)
  /\ To(queue[Len(queue)], "edited")
  /\ UNCHANGED <<pump, owner, worker, running, dying, transcript, turn, history,
                 interrupted, compactions>>

---------------------------------------------------------------------------
(* A prompt's call of session.prompt, in its worker or in the key's handler *)

Alive(p) == p \notin dying

(* A worker that lost the run id leaves its loop at the next event.          *)
Heard(p) == Alive(p) /\ Visible(p)

(* Mutant: a worker that ends forgets the worker, whose it is.              *)
EndsAny(p, s) ==
  /\ To(p, s)
  /\ optimistic' = optimistic \ {p}
  /\ worker' = None
  /\ pump' = IF pump = p THEN None ELSE pump
  /\ UNCHANGED owner

(* The call is over: _run_prompt's finally, or the handler's end.           *)
Ends(p, s) ==
  /\ To(p, s)
  /\ optimistic' = optimistic \ {p}
  /\ worker' = IF owner = p THEN None ELSE worker
  /\ pump'   = IF pump = p THEN None ELSE pump
  /\ UNCHANGED owner

(* The input hooks return: one of them took the prompt, or it goes on.      *)
(* While the harness runs, a key's prompt is queued and a worker's raises.  *)
HooksReturn(p) ==
  /\ stage[p] = "hooks" /\ Alive(p)
  /\ \/ Ends(p, "handled") /\ UNCHANGED <<running, shown, session>>
     \/ /\ turn # None /\ ByKey(p)
        /\ Ends(p, "queued") /\ queue' = Append(queue, p)
        /\ UNCHANGED <<running, shown, turn, history>>
     \/ /\ turn # None /\ ~ByKey(p)
        /\ Ends(p, "refused") /\ running' = (running /\ owner # p)
        /\ UNCHANGED <<shown, session>>
     \/ /\ turn = None /\ To(p, "prepare")
        /\ UNCHANGED <<pump, owner, worker, running, transcript, session>>
  /\ UNCHANGED <<dying, interrupted, compactions>>

(* The limits are refreshed and the context compacted: the harness starts,  *)
(* unless another call started it meanwhile.  Its first user event confirms *)
(* the message that is shown, or shows it.                                  *)
Begin(p) ==
  /\ stage[p] = "prepare" /\ Alive(p)
  /\ \/ /\ turn # None
        /\ Ends(p, "refused") /\ running' = (running /\ owner # p)
        /\ UNCHANGED <<shown, session>>
     \/ /\ turn = None
        /\ turn' = p /\ To(p, "turn") /\ history' = history \union {p}
        /\ running' = (running \/ Visible(p))
        /\ optimistic' = optimistic \ {p}
        /\ shown' = [shown EXCEPT ![p] =
                       IF Visible(p) /\ p \notin optimistic THEN @ + 1 ELSE @]
        /\ UNCHANGED <<pump, owner, worker, queue>>
  /\ UNCHANGED <<dying, interrupted, compactions>>

(* The harness takes a queued message, unless the provider failed.          *)
Drain(p) ==
  /\ stage[p] = "turn" /\ Heard(p) /\ running /\ queue # <<>>
  /\ queue' = Tail(queue)
  /\ To(Head(queue), "done")
  /\ history' = history \union {Head(queue)}
  /\ shown' = [shown EXCEPT ![Head(queue)] = @ + 1]
  /\ UNCHANGED <<pump, owner, worker, running, dying, optimistic, turn,
                 interrupted, compactions>>

(* The provider fails: the view shows no run although the call goes on.     *)
ErrorShown(p) ==
  /\ stage[p] = "turn" /\ Heard(p) /\ running
  /\ running' = FALSE
  /\ UNCHANGED <<stage, pump, owner, worker, dying, transcript, session,
                 interrupted, compactions>>

(* The harness stops: with an empty queue, or on an error.                  *)
TurnEnds(p) ==
  /\ stage[p] = "turn" /\ Heard(p) /\ (queue = <<>> \/ ~running)
  /\ turn' = None /\ To(p, "settle")
  /\ UNCHANGED <<pump, owner, worker, running, dying, transcript, queue, history,
                 interrupted, compactions>>

(* The context is compacted, the run has settled.                           *)
Settles(p) ==
  /\ stage[p] = "settle" /\ Heard(p)
  /\ Ends(p, "done")
  /\ running' = FALSE
  /\ UNCHANGED <<dying, shown, session, interrupted, compactions>>

(* Saving fails: a worker shows the error, a handler notifies.              *)
Raises(p) ==
  /\ stage[p] \in {"turn", "settle"} /\ Alive(p)
  /\ Ends(p, "done")
  /\ turn' = IF turn = p THEN None ELSE turn
  /\ running' = (running /\ owner # p)
  /\ UNCHANGED <<dying, shown, queue, history, interrupted, compactions>>

(* An event reaches a worker that lost the run id: it returns, and leaves    *)
(* the generator of its call for the event loop to close.                    *)
LosesTurn(p) ==
  /\ stage[p] \in {"prepare", "turn", "settle"} /\ Alive(p) /\ ~Visible(p)
  /\ Ends(p, "left")
  /\ UNCHANGED <<running, dying, shown, session, interrupted, compactions>>

Closed(p) ==
  /\ stage[p] = "left"
  /\ To(p, IF p \in history THEN "done" ELSE "dropped")
  /\ turn' = IF turn = p THEN None ELSE turn
  /\ UNCHANGED <<pump, owner, worker, running, dying, transcript, queue, history,
                 interrupted, compactions>>

(* A cancelled worker unwinds.                                              *)
Unwinds(p) ==
  /\ p \in dying
  /\ Ends(p, IF p \in history THEN "done" ELSE "dropped")
  /\ dying' = dying \ {p}
  /\ turn' = IF turn = p THEN None ELSE turn
  /\ UNCHANGED <<running, shown, queue, history, interrupted, compactions>>

---------------------------------------------------------------------------
(* _run_compaction                                                          *)

CompactionBegins(c) ==
  /\ cstage[c] = "starting" /\ c \notin dying
  /\ cstage' = [cstage EXCEPT ![c] = "running"]
  /\ cowner' = c /\ compacting' = TRUE
  /\ shown' = [p \in Prompt |-> 0]
  /\ UNCHANGED <<prompts, dying, optimistic, session, interrupted, cworker>>

(* Mutant: a compaction that ends clears the working state, whose it is.    *)
ReleaseAny(c) ==
  /\ cstage' = [cstage EXCEPT ![c] = "over"]
  /\ compacting' = FALSE /\ cworker' = None
  /\ UNCHANGED cowner

(* Its finally: only a run that has the id clears the working state.        *)
Release(c) ==
  /\ cstage' = [cstage EXCEPT ![c] = "over"]
  /\ compacting' = (compacting /\ cowner # c)
  /\ cworker' = IF cowner = c THEN None ELSE cworker
  /\ UNCHANGED cowner

CompactionEnds(c) ==
  /\ cstage[c] = "running" /\ c \notin dying
  /\ Release(c)
  /\ shown' \in {shown, Reloaded}  \* it failed, or it succeeded
  /\ UNCHANGED <<prompts, dying, optimistic, session, interrupted>>

CompactionUnwinds(c) ==
  /\ c \in dying
  /\ dying' = dying \ {c}
  /\ \/ cstage[c] = "running" /\ Release(c)
     \/ /\ cstage[c] = "starting"  \* cancelled before its first step
        /\ cstage' = [cstage EXCEPT ![c] = "over"]
        /\ UNCHANGED <<cowner, cworker, compacting>>
  /\ UNCHANGED <<prompts, transcript, session, interrupted>>

---------------------------------------------------------------------------
Next ==
  \/ CancelCompaction \/ CancelPrompt \/ EditQueued
  \/ \E p \in Typed : Enter(p)
  \/ \E p \in Asked : Ask(p) \/ Deliver(p)
  \/ \E p \in Prompt :
       StartWorker(p) \/ HooksReturn(p) \/ Begin(p) \/ Drain(p) \/ ErrorShown(p)
         \/ TurnEnds(p) \/ Settles(p) \/ Raises(p) \/ LosesTurn(p) \/ Closed(p)
         \/ Unwinds(p)
  \/ \E c \in Compaction :
       StartCompaction(c) \/ CompactionBegins(c) \/ CompactionEnds(c) \/ CompactionUnwinds(c)

Spec == Init /\ [][Next]_vars

---------------------------------------------------------------------------
(* The flag that keeps prompts in the editor is set exactly while a         *)
(* compaction that nobody cancelled or replaced is running: a late end of a *)
(* cancelled one neither clears it for its successor nor leaves it set.     *)
CompactingIsOwned ==
  compacting <=> \E c \in Compaction : cstage[c] = "running" /\ cowner = c

(* A worker whose call is inside the harness and that nobody cancelled is   *)
(* the one Esc cancels, whatever earlier workers do as they end.            *)
InterruptFindsRun ==
  turn # None /\ stage[turn] = "turn" /\ ~ByKey(turn) /\ Alive(turn) => worker = turn

(* No prompt is twice in the transcript, whichever way it was entered and   *)
(* however its showing at once and its confirmation interleave with other   *)
(* runs.                                                                    *)
ShownOnce == \A p \in Prompt : shown[p] <= 1

(* A manual compaction never replaces the messages of a session whose       *)
(* harness runs a turn.                                                     *)
CompactionAlone ==
  \A c \in Compaction : cstage[c] = "running" /\ c \notin dying => turn = None

(* A manual compaction holds back prompts while it runs and only then, and   *)
(* has the session to itself.                                                *)
CompactionIsOwn == CompactingIsOwned /\ CompactionAlone

(* A prompt is shown once, and the run it leads is the one Esc cancels.      *)
PromptIsFound == InterruptFindsRun /\ ShownOnce

(* However prompts, compactions, Esc and extensions interleave while         *)
(* cancelled workers unwind, each worker touches only what is its own.       *)
RunsKeptApart == CompactionIsOwn /\ PromptIsFound
=============================================================================
