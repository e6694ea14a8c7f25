-------------------------- MODULE CanonicalStream ---------------------------
(* canonicalize_provider_stream (tau_ai/stream.py): what an adapter's parser *)
(* yields, turned into the message events the agent loop reads.  The         *)
(* generator holds s: the partial message, its open block, and what it has   *)
(* yielded.  Content is a sequence of pieces; a piece is only named.         *)
EXTENDS Naturals, Sequences

NoBlock == 0

\* partial.content, active_index, started, terminal, and the events yielded
Fresh == [blocks |-> <<>>, open |-> NoBlock, started |-> FALSE, ending |-> "none", out |-> <<>>]

Yield(s, type, i) == [s EXCEPT !.out = Append(@, [type |-> type, at |-> i])]

(* Anything but a retry starts the message first.                            *)
Started(s) == IF s.started THEN s ELSE [Yield(s, "start", NoBlock) EXCEPT !.started = TRUE]

(* _end_active_block.                                                        *)
end_active_block(s) ==
    IF s.open = NoBlock THEN s
    ELSE [Yield(s, "end", s.open) EXCEPT !.open = NoBlock]

NewBlock(s, kind, pieces) == [s EXCEPT !.blocks = Append(@, [kind |-> kind, pieces |-> pieces])]

Delta(s, kind, piece) ==
    LET same == s.open # NoBlock /\ s.blocks[s.open].kind = kind
        shut == IF same THEN s ELSE NewBlock(end_active_block(s), kind, <<>>)
        i    == IF same THEN s.open ELSE Len(shut.blocks)
        ready == IF same THEN s ELSE Yield([shut EXCEPT !.open = i], "begin", i)
    IN  Yield([ready EXCEPT !.blocks[i].pieces = Append(@, piece)], "delta", i)

ToolCall(s, pieces) ==
    LET shut == NewBlock(end_active_block(s), "tool", pieces)
        i    == Len(shut.blocks)
    IN  Yield(Yield(shut, "begin", i), "end", i)

(* The final message keeps the streamed blocks; a tool call makes it one     *)
(* that asks for tools.                                                      *)
Done(s) == [Yield(end_active_block(s), "done", NoBlock) EXCEPT !.ending = "done"]

Error(s) == [Yield(s, "error", NoBlock) EXCEPT !.ending = "error"]

Canonical(s, e) ==
    IF e.is = "retry" THEN s
    ELSE CASE e.is = "response_start"        -> Started(s)
           [] e.is \in {"text", "thinking"}  -> Delta(Started(s), e.is, e.piece)
           [] e.is = "tool_call"             -> ToolCall(Started(s), e.pieces)
           [] e.is = "response_end"          -> Done(Started(s))
           [] e.is = "error"                 -> Error(Started(s))

CanonicalAll(s, events) ==
    LET upTo[n \in 0 .. Len(events)] ==
          IF n = 0 THEN s ELSE Canonical(upTo[n - 1], events[n])
    IN  upTo[Len(events)]

(* The adapter's generator has returned.                                     *)
Exhausted(s) == IF s.ending = "none" THEN Error(Started(s)) ELSE Started(s)
-----------------------------------------------------------------------------
(* What a reader of the events relies on: a start, then blocks one after     *)
(* another, each begun, filled and ended, then one end.  An error may cut a  *)
(* block short.                                                              *)
Expected(so, e) ==
    CASE so = "nothing" -> IF e.type = "start" THEN "between" ELSE "broken"
      [] so = "between" -> IF e.type = "begin" THEN "inside"
                           ELSE IF e.type \in {"done", "error"} THEN "over" ELSE "broken"
      [] so = "inside"  -> IF e.type = "delta" THEN "inside"
                           ELSE IF e.type = "end" THEN "between"
                           ELSE IF e.type = "error" THEN "over" ELSE "broken"
      [] OTHER          -> "broken"

Grammar(out) ==
    LET upTo[n \in 0 .. Len(out)] ==
          IF n = 0 THEN "nothing" ELSE Expected(upTo[n - 1], out[n])
    IN  upTo[Len(out)]
=============================================================================
