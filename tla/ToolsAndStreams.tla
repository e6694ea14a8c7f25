-------------------------- MODULE ToolsAndStreams --------------------------
(* The coding tools and the requests to the providers: what a tool call does *)
(* to files, processes and its output, and what becomes of a history on its  *)
(* way to a provider and of the answer on its way back.  Each is checked by  *)
(* itself: a behaviour is one of one part, chosen at the start.              *)
EXTENDS Naturals

CONSTANTS None,
          Files, Limits, MaxLines, MaxBytes, \* TextWindow
          Texts, Edits, Editors,           \* EditTool
          Child,                           \* BashCommand
          Apis, MaxRetries, MaxChunks,     \* ProviderStream and WireHistory
          Shapes, MaxMessages, OldGemini

VARIABLES part,
          text, offset, seen, page, ended,
          file, call,
          at, timed, group, detached, holds, comm, expired, signal, outcome,
          provider, where, attempt, cancelled, sent, parser, stream,
          history

windowVars  == <<text, offset, seen, page, ended>>
editVars    == <<file, call>>
bashVars    == <<at, timed, group, detached, holds, comm, expired, signal, outcome>>
streamVars  == <<provider, where, attempt, cancelled, sent, parser, stream>>
vars == <<part, windowVars, editVars, bashVars, streamVars, history>>

W == INSTANCE TextWindow
E == INSTANCE EditTool WITH Call <- Editors
B == INSTANCE BashCommand
P == INSTANCE ProviderStream WITH Providers <- Apis, at <- where
H == INSTANCE WireHistory

ASSUME PartsAssumption == /\ W!WindowAssumption /\ E!EditAssumption /\ B!LeaderAssumption /\ P!ProvidersAssumption
                          /\ H!HistoryAssumption

Some(S) == CHOOSE x \in S : TRUE

Init == /\ part \in {"window", "edit", "bash", "stream", "history"}
        /\ W!Init /\ (part # "window" => text = Some(Files))
        /\ E!Init /\ (part # "edit" => file = Some(Texts))
        /\ B!Init
        /\ P!Init /\ (part # "stream" => provider = Some(Apis))
        /\ H!Init

Next ==
  \/ part = "window" /\ W!Next /\ UNCHANGED <<part, editVars, bashVars, streamVars, history>>
  \/ part = "edit" /\ E!Next /\ UNCHANGED <<part, windowVars, bashVars, streamVars, history>>
  \/ part = "bash" /\ B!Next /\ UNCHANGED <<part, windowVars, editVars, streamVars, history>>
  \/ part = "stream" /\ P!Next /\ UNCHANGED <<part, windowVars, editVars, bashVars, history>>
  \/ part = "history" /\ H!Next /\ UNCHANGED <<part, windowVars, editVars, bashVars, streamVars>>

OfStream(A) == part = "stream" /\ A /\ UNCHANGED <<part, windowVars, editVars, bashVars, history>>

Fairness == B!Fairness /\ WF_vars(OfStream(P!Breaks)) /\ WF_vars(OfStream(P!Waited))

Spec == Init /\ [][Next]_vars /\ Fairness

\* what these say stands in the modules
PagesCoverFile    == W!PagesCoverFile
EditIsMeant       == E!EditIsMeant
CallIsOver        == B!CallIsOver
CallEnds          == B!CallEnds
StreamIsFaithful  == P!StreamIsFaithful
StreamEnds        == part = "stream" => P!StreamEnds
HistoryIsPortable == H!HistoryIsPortable
=============================================================================
