-------------------------- MODULE ToolCallProtocol --------------------------
(***************************************************************************)
(* What the agent core promises the model providers about tool calls, with *)
(* the transcript, the queues and the control flow abstracted away.  A run  *)
(* begins by settling what earlier ones left owed.  During a run a provider *)
(* is asked only when no tool call is owed a result, a reply may owe new    *)
(* results, and a result is given only for a call that is owed one.         *)
(* Between runs the transcript may be exchanged for another.                *)
(* AgentHarness implements this specification (AgentHarness!Protocol).      *)
(***************************************************************************)
CONSTANT CallIds

VARIABLES running,  \* a run is in progress
          asking,   \* a provider request is out, or its answer not yet kept
          owed      \* the calls in the transcript that have no result

vars == <<running, asking, owed>>

Init == running = FALSE /\ asking = FALSE /\ owed = {}

(* A run starts, with every owed call given the "interrupted" result. *)
Start == /\ ~running
         /\ running' = TRUE
         /\ owed' = {}
         /\ UNCHANGED asking

(* The transcript is sent to the provider: nothing may be owed. *)
Ask == /\ running /\ ~asking
       /\ owed = {}
       /\ asking' = TRUE
       /\ UNCHANGED <<running, owed>>

(* The provider's message enters the transcript with the calls it makes. *)
Reply == /\ asking
         /\ asking' = FALSE
         /\ owed' \in SUBSET CallIds
         /\ UNCHANGED running

(* One owed call gets its result. *)
Answer == /\ running /\ ~asking
          /\ \E c \in owed : owed' = owed \ {c}
          /\ UNCHANGED <<running, asking>>

(* The run ends wherever it stands; what is owed may be settled first. *)
Stop == /\ running
        /\ running' = FALSE /\ asking' = FALSE
        /\ owed' \in {owed, {}}

(* The transcript is replaced by another one. *)
Rewind == /\ ~running
          /\ owed' \in SUBSET CallIds
          /\ UNCHANGED <<running, asking>>

Next == Start \/ Ask \/ Reply \/ Answer \/ Stop \/ Rewind

Spec == Init /\ [][Next]_vars
=============================================================================
