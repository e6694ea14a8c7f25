----------------------------- MODULE Interface -----------------------------
(* The terminal interface: its workers, the widgets of extensions, and the   *)
(* transcript with its mounted window.  They have no state in common, so a   *)
(* behaviour is one of one part, chosen at the start.                        *)
EXTENDS Naturals

CONSTANTS None,
          Typed, Asked, Compaction,            \* PromptWorkers
          Widget, MaxTasks,                    \* ComponentSlots
          Contents, MaxMessages, MaxDeltas, MaxCommands, \* TranscriptItems
          Window, Page, Overscan,              \* TranscriptWindow
          MaxItems, MaxMade

VARIABLES part,
          stage, pump, owner, worker, dying, running, optimistic, shown,
          turn, queue, history, interrupted, cstage, cowner, cworker, compacting,
          meant, mounted, tasks, removing, dom, ghosts, made, open, hidden,
          items, start, buffer, deltas, said, calls, executing, pending, phase,
          command, misplaced,
          windowItems, windowMade, rows, first, end, follow, atEnd, shift, show,
          takes, placeholder, windowPhase, windowStart, windowSaid, stale

workerVars == <<stage, pump, owner, worker, dying, running, optimistic, shown,
                turn, queue, history, interrupted, cstage, cowner, cworker, compacting>>
slotVars   == <<meant, mounted, tasks, removing, dom, ghosts, made, open, hidden>>
itemVars   == <<items, start, buffer, deltas, said, calls, executing, pending, phase,
                command, misplaced>>
windowVars == <<windowItems, windowMade, rows, first, end, follow, atEnd, shift, show,
                takes, placeholder, windowPhase, windowStart, windowSaid, stale>>
vars == <<part, workerVars, slotVars, itemVars, windowVars>>

P == INSTANCE PromptWorkers
S == INSTANCE ComponentSlots
I == INSTANCE TranscriptItems
W == INSTANCE TranscriptWindow WITH items <- windowItems, made <- windowMade,
        phase <- windowPhase, start <- windowStart, said <- windowSaid

ASSUME PartsAssumption == /\ P!WorkersAssumption /\ S!SlotsAssumption
                          /\ I!ItemsAssumption /\ W!WindowAssumption

Init == /\ part \in {"workers", "slots", "items", "window"}
        /\ P!Init /\ S!Init /\ I!Init
        /\ W!Init /\ (part # "window" => show)

Next ==
  \/ part = "workers" /\ P!Next /\ UNCHANGED <<part, slotVars, itemVars, windowVars>>
  \/ part = "slots" /\ S!Next /\ UNCHANGED <<part, workerVars, itemVars, windowVars>>
  \/ part = "items" /\ I!Next /\ UNCHANGED <<part, workerVars, slotVars, windowVars>>
  \/ part = "window" /\ W!Next /\ UNCHANGED <<part, workerVars, slotVars, itemVars>>

Spec == Init /\ [][Next]_vars

\* what these say stands in the modules
RunsKeptApart   == P!RunsKeptApart
PlacesSettle    == S!PlacesSettle
LiveIsReloaded  == I!LiveIsReloaded
WindowIsMounted == W!WindowIsMounted
=============================================================================
