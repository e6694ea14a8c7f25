------------------------- MODULE ExtensionRegistry -------------------------
(* The registrations of one ExtensionRuntime (tau_coding/extensions): the    *)
(* two calls of load that CodingSession makes, the setup of each extension   *)
(* and its failure, what an extension registers then or later through the    *)
(* API object it keeps, and the hooks before a tool call.  An extension is a *)
(* name and the place it was found in; the order within one place is any.    *)
(* A tool, a command, a message renderer and a guideline are slots that one  *)
(* extension owns; what they do and the diagnostics are left out.            *)
EXTENDS Naturals, Sequences, FiniteSets

CONSTANTS Name,      \* names of extensions
          Tool,      \* names of tools
          Other,     \* slash commands and types of custom messages
          Builtin,   \* the tools of the program itself
          None,
          MaxFound,  \* bound: extensions found by one call of load
          MaxSlots   \* bound: registrations ever made

RegistryAssumption == /\ Builtin \subseteq Tool
                             /\ None \notin Name
                             /\ MaxFound \in Nat /\ MaxSlots \in Nat

Ext  == [name : Name, origin : {"user", "explicit", "project"}]
Slot == Tool \union Other

VARIABLES stage,   \* the load in progress, or "ready" once the session has its tools
          found,   \* imported extensions that wait for their setup
          current, \* the extension whose setup runs, or None
          failed,  \* extensions whose setup raised
          exts,    \* the loaded extensions in load order
          hooks,   \* those that have subscribed to tool_call
          table,   \* the owner of each slot, or None
          made,    \* registrations so far
          active,  \* the generation has not been invalidated
          tools,   \* whose executor a composed tool has
          call     \* the tool call in progress, or None

vars == <<stage, found, current, failed, exts, hooks, table, made, active, tools, call>>
loading == <<stage, found, current, failed, exts>>

Init == /\ stage = "start" /\ found = {} /\ current = None /\ failed = {} /\ exts = <<>>
        /\ hooks = {}
        /\ table = [s \in Slot |-> None]
        /\ made = 0
        /\ active = TRUE
        /\ tools = [t \in Tool |-> None]
        /\ call = None

Loaded == {exts[i] : i \in DOMAIN exts}

(* discover_extensions: in one call, the first of a name wins, the user's    *)
(* directory before explicit paths; a later call knows nothing of it.        *)
Kept(entries) ==
    {e \in entries : e.origin = "explicit" => [e EXCEPT !.origin = "user"] \notin entries}

(* load: entries that cannot be imported are dropped before any setup runs.  *)
Discover(from, origins, to) ==
    /\ stage = from /\ found = {} /\ current = None
    /\ stage' = to
    /\ \E entries \in SUBSET {e \in Ext : e.origin \in origins} :
         /\ Cardinality(entries) <= MaxFound
         /\ \E imported \in SUBSET Kept(entries) : found' = imported
    /\ UNCHANGED <<current, failed, exts, hooks, table, made, active, tools, call>>

LoadUser    == Discover("start", {"user", "explicit"}, "user")
LoadProject == Discover("user", {"project"}, "project")

(* _setup_extension, as far as the call of setup.                            *)
SetUp == /\ current = None
         /\ \E e \in found :
              /\ e.origin = "explicit" => \A f \in found : f.origin = "explicit"
              /\ found' = found \ {e}
              /\ current' = e
              /\ exts' = Append(exts, e)
         /\ UNCHANGED <<stage, failed, hooks, table, made, active, tools, call>>

(* register_tool, register_command, register_message_renderer: from setup or *)
(* later from whatever kept the API object; the first owner of a slot wins.  *)
MayUseApi(e) == active /\ (e = current \/ (current = None /\ e \in Loaded \union failed))

Register(e, s) == /\ MayUseApi(e) /\ made < MaxSlots
                  /\ made' = made + 1
                  /\ table' = IF table[s] = None THEN [table EXCEPT ![s] = e] ELSE table
                  /\ UNCHANGED <<hooks, active, tools, call, loading>>

(* subscribe files the handler with the first extension of that name.        *)
FirstNamed(n) == exts[CHOOSE i \in DOMAIN exts :
                        exts[i].name = n /\ \A j \in 1 .. i - 1 : exts[j].name # n]

Subscribe(e) == /\ MayUseApi(e)
                /\ \E f \in Loaded : f.name = e.name
                /\ hooks' = hooks \union {FirstNamed(e.name)}
                /\ UNCHANGED <<table, made, active, tools, call, loading>>

SetupReturns == /\ current # None
                /\ current' = None
                /\ UNCHANGED <<stage, found, failed, exts, hooks, table, made, active, tools, call>>

(* list.remove: the extension's own entry goes.                              *)
Position(e) == CHOOSE i \in DOMAIN exts : exts[i] = e /\ \A j \in 1 .. i - 1 : exts[j] # e
Without(e)  == SubSeq(exts, 1, Position(e) - 1) \o SubSeq(exts, Position(e) + 1, Len(exts))

(* _remove_registrations knows the extension by its name.                    *)
Owned(n) == {s \in Slot : table[s] # None /\ table[s].name = n}

SetupFails ==
    /\ current # None
    /\ exts' = Without(current)
    /\ table' = [s \in Slot |-> IF s \in Owned(current.name) THEN None ELSE table[s]]
    /\ hooks' = hooks \ {current}
    /\ failed' = failed \union {current}
    /\ current' = None
    /\ UNCHANGED <<stage, found, made, active, tools, call>>

(* The session composes its tools: an extension's tool takes the place of    *)
(* the built-in one of that name.  Later registrations are not seen.         *)
Compose == /\ stage \in {"user", "project"} /\ found = {} /\ current = None
           /\ stage' = "ready"
           /\ tools' = [t \in Tool |-> table[t]]
           /\ UNCHANGED <<found, current, failed, exts, hooks, table, made, active, call>>

(* _wrap_tool: the hooks are asked in load order, each with the              *)
(* subscriptions as they are when its turn comes.                            *)
CallTool(t) == /\ stage = "ready" /\ call = None
               /\ tools[t] # None \/ t \in Builtin
               /\ call' = [tool |-> t, at |-> "hooks", turn |-> 1,
                           asked |-> {}, blocked |-> FALSE, due |-> hooks]
               /\ UNCHANGED <<hooks, table, made, active, tools, loading>>

Turn   == exts[call.turn]
Asked  == [call EXCEPT !.turn = @ + 1, !.asked = @ \union {Turn}]
(* Mutant: a hook that raises lets the next one decide.                      *)
BlocksLater == [Asked EXCEPT !.blocked = TRUE]

Blocks == [Asked EXCEPT !.at = "done", !.blocked = TRUE]

(* A hook that returns nothing, other arguments or a wrong type passes the   *)
(* call on; one that blocks or raises ends it.                               *)
AskHook == /\ call # None /\ call.at = "hooks" /\ call.turn <= Len(exts)
           /\ \/ Turn \notin hooks /\ call' = [call EXCEPT !.turn = @ + 1]
              \/ Turn \in hooks /\ \E raisesOrBlocks \in BOOLEAN :
                                      call' = IF raisesOrBlocks THEN Blocks ELSE Asked
           /\ UNCHANGED <<hooks, table, made, active, tools, loading>>

Execute == /\ call # None /\ call.at = "hooks" /\ call.turn > Len(exts)
           /\ call' = [call EXCEPT !.at = "runs"]
           /\ UNCHANGED <<hooks, table, made, active, tools, loading>>

(* The result hooks may rewrite the result; one that raises is passed over.  *)
CallReturns == /\ call # None /\ call.at \in {"done", "runs"}
               /\ call' = None
               /\ UNCHANGED <<hooks, table, made, active, tools, loading>>

Retire == /\ stage = "ready" /\ active
          /\ active' = FALSE
          /\ UNCHANGED <<hooks, table, made, tools, call, loading>>

Next == \/ LoadUser \/ LoadProject \/ SetUp \/ SetupReturns \/ SetupFails
        \/ \E e \in Ext : Subscribe(e) \/ \E s \in Slot : Register(e, s)
        \/ Compose
        \/ \E t \in Tool : CallTool(t)
        \/ AskHook \/ Execute \/ CallReturns
        \/ Retire

Spec == Init /\ [][Next]_vars
-----------------------------------------------------------------------------
(* A tool runs only after every hook that was subscribed when the call began *)
(* has been asked and let it pass: a hook that raises blocks the call        *)
(* (_run_tool_call_hooks), and none is skipped.                              *)
ToolRunsOnlyIfPassed ==
    call # None /\ call.at = "runs" => ~call.blocked /\ call.due \subseteq call.asked
=============================================================================
