---------------------------- MODULE SessionParts ----------------------------
(* What a coding session is put together from: the runtime and the           *)
(* resources it is opened with, the extensions' registrations, the model it  *)
(* talks to and the size of its context.  They have no state in common, so a *)
(* behaviour is one of one part, chosen at the start.                        *)
EXTENDS Naturals

CONSTANTS None,
          Dir, Task, Policies, MaxRuntimes,                \* SessionSwap
          Name, Tool, Other, Builtin, MaxFound, MaxSlots,  \* ExtensionRegistry
          Place, Version, Described, Reserved, Extension,  \* Resources
          Config, MaxEdits,
          Sizes, Density, SummarySize, KeepRecent,         \* ContextBudget
          Threshold, MaxRows, MaxMade, MaxTime,
          ProviderOf, Levels, Default, Configured,         \* ModelChoice
          Router, Route

VARIABLES part,
          policy, files, saved, cache, live, rt, staged, op,
          stage, found, current, failed, exts, hooks, table, made, active, tools, call,
          config, contents, extension, decision, edits, using, prompt,
          rows, before, now, messages, phase, retry,
          file, mem, usable, model, level, route, client, request, index, torn

swapVars     == <<policy, files, saved, cache, live, rt, staged, op>>
registryVars == <<stage, found, current, failed, exts, hooks, table, made, active, tools, call>>
resourceVars == <<config, contents, extension, decision, edits, using, prompt>>
budgetVars   == <<rows, before, now, messages, phase, retry>>
choiceVars   == <<file, mem, usable, model, level, route, client, request, index, torn>>
vars == <<part, swapVars, registryVars, resourceVars, budgetVars, choiceVars>>

S == INSTANCE SessionSwap
E == INSTANCE ExtensionRegistry
R == INSTANCE Resources WITH files <- contents, live <- using
B == INSTANCE ContextBudget WITH made <- messages
C == INSTANCE ModelChoice

ASSUME PartsAssumption ==
    /\ S!SwapAssumption /\ E!RegistryAssumption /\ R!ResourceAssumption
    /\ B!BudgetAssumption /\ C!ModelChoiceAssumption

Init == /\ part \in {"swap", "registry", "resources", "budget", "choice"}
        /\ S!Init /\ (part # "swap" => files = {} /\ policy = CHOOSE p \in Policies : TRUE)
        /\ E!Init
        /\ R!Init /\ (part # "resources" => config = CHOOSE c \in Config : TRUE)
        /\ B!Init
        /\ C!Init /\ (part # "choice" => model = CHOOSE m \in C!Model : TRUE)

Next ==
  \/ part = "swap" /\ S!Next
       /\ UNCHANGED <<part, registryVars, resourceVars, budgetVars, choiceVars>>
  \/ part = "registry" /\ E!Next
       /\ UNCHANGED <<part, swapVars, resourceVars, budgetVars, choiceVars>>
  \/ part = "resources" /\ R!Next
       /\ UNCHANGED <<part, swapVars, registryVars, budgetVars, choiceVars>>
  \/ part = "budget" /\ B!Next
       /\ UNCHANGED <<part, swapVars, registryVars, resourceVars, choiceVars>>
  \/ part = "choice" /\ C!Next
       /\ UNCHANGED <<part, swapVars, registryVars, resourceVars, budgetVars>>

Spec == Init /\ [][Next]_vars

\* what these say stands in the modules
SwapIsSafe           == S!SwapIsSafe
ToolRunsOnlyIfPassed == E!ToolRunsOnlyIfPassed
PromptIsCurrent      == R!PromptIsCurrent
ProjectIsApproved    == R!ProjectIsApproved
AnchorIsCurrent      == B!AnchorIsCurrent
ClientIsShown        == C!ClientIsShown
=============================================================================
