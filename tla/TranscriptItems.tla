--------------------------- MODULE TranscriptItems ---------------------------
(* The items of the transcript (tau_coding/tui/state.py, adapter.py): built   *)
(* event by event while a run streams, and built at once from the messages of *)
(* a session that is resumed.  A terminal command adds an item of its own,    *)
(* and finds it again by its index when it ends (tui/app.py).  Texts are left *)
(* out: an item says what it shows of which message.                          *)
EXTENDS Naturals, Sequences, FiniteSets

CONSTANTS Contents,     \* block sequences of an assistant message, calls last
          MaxMessages, MaxDeltas, MaxCommands

ItemsAssumption == Contents \subseteq Seq({"text", "thinking", "call"}) /\ MaxMessages \in Nat

Message == [content : Contents, stop : {"ok", "error", "overflow", "recovered"}]

VARIABLES items,      \* the transcript
          start,      \* number of items when the message began to stream
          buffer,     \* streamed text that is not an item yet
          deltas,     \* deltas of the message that streams
          said,       \* messages that ended
          calls,      \* tool calls that have not started
          executing,  \* whether the first started call has no result yet
          pending,    \* an overflow error that is not shown yet
          phase,      \* of the run: idle, asked, streaming, running, compacting, settling
          command,    \* index of the running command's item, or 0
          misplaced   \* a command began under a streaming message, or outlived
                      \* the items its index counts

run  == <<start, deltas, said, calls, executing, pending, phase>>
vars == <<items, buffer, run, command, misplaced>>

Item(role, n) == [role |-> role, of |-> {n}, result |-> FALSE]
Latest == Len(said)            \* the number of the last message
Current == Latest + 1

Init == /\ items = <<>> /\ start = 0 /\ buffer = FALSE /\ deltas = 0
        /\ said = <<>> /\ calls = 0 /\ executing = FALSE /\ pending = FALSE
        /\ phase = "idle" /\ command = 0 /\ misplaced = FALSE

(* The elements of s that are in S, in their order.                           *)
Among(s, S) ==
  LET upTo[k \in 0 .. Len(s)] == IF k = 0 THEN <<>>
                                 ELSE IF s[k] \in S THEN Append(upTo[k - 1], s[k])
                                 ELSE upTo[k - 1]
  IN  upTo[Len(s)]

(* add_assistant_message without its calls, add_assistant_error               *)
Blocks(m, n) ==
  LET visible == Among(m.content, {"text", "thinking"})
  IN  [i \in DOMAIN visible |-> Item(visible[i], n)]
Shown(m, n) == Blocks(m, n) \o (IF m.stop = "ok" THEN <<>> ELSE <<Item("error", n)>>)
Calls(m) == Len(Among(m.content, {"call"}))

(* load_messages: what the same messages show when the session is resumed     *)
Reloaded(m, n) ==
  Shown(m, n) \o (IF m.stop = "ok"
                  THEN [i \in 1..Calls(m) |-> [Item("tool", n) EXCEPT !.result = TRUE]]
                  ELSE <<>>)

---------------------------------------------------------------------------
(* adapter.apply, one action per event; a run begins with the user's message. *)

Flushed == IF buffer THEN Append(items, Item("text", Latest)) ELSE items

ToolsDone == phase = "running" /\ calls = 0 /\ ~executing

UserMessageEnd ==
  /\ phase = "idle" \/ (ToolsDone /\ said[Latest].stop = "ok")
  /\ Latest < MaxMessages /\ phase' = "asked"
  /\ items' = Append(items, Item("user", Current))
  /\ UNCHANGED <<buffer, start, deltas, said, calls, executing, pending,
                 command, misplaced>>

MessageStart ==
  /\ \/ phase = "asked"
     \/ (ToolsDone /\ said[Latest].stop = "ok" /\ Calls(said[Latest]) > 0)
  /\ Latest < MaxMessages
  /\ phase' = "streaming" /\ start' = Len(items) /\ buffer' = FALSE /\ deltas' = 0
  /\ UNCHANGED <<items, said, calls, executing, pending, command, misplaced>>

TextDelta ==
  /\ phase = "streaming" /\ deltas < MaxDeltas
  /\ deltas' = deltas + 1 /\ buffer' = TRUE
  /\ UNCHANGED <<items, start, said, calls, executing, pending, phase, command, misplaced>>

(* add_thinking_delta: a thinking item at the end takes the fragment.         *)
ThinkingDelta ==
  /\ phase = "streaming" /\ deltas < MaxDeltas
  /\ deltas' = deltas + 1
  /\ items' = IF items # <<>> /\ items[Len(items)].role = "thinking"
              THEN [items EXCEPT ![Len(items)].of = @ \union {Current}]
              ELSE Append(items, Item("thinking", Current))
  /\ UNCHANGED <<buffer, start, said, calls, executing, pending, phase, command, misplaced>>

(* The items since the message began are replaced by the message's own; an    *)
(* overflow error waits for the compaction.                                   *)
MessageEnd(m) ==
  /\ phase = "streaming"
  /\ said' = Append(said, m)
  /\ items' = SubSeq(items, 1, start) \o
                (IF m.stop = "overflow" THEN <<>> ELSE Shown(m, Current))
  /\ pending' = (m.stop = "overflow")
  /\ calls' = IF m.stop = "ok" THEN Calls(m) ELSE 0
  /\ start' = 0 /\ buffer' = FALSE /\ phase' = "running"
  /\ UNCHANGED <<deltas, executing, command, misplaced>>

ToolStart ==
  /\ phase = "running" /\ calls > 0 /\ ~executing
  /\ items' = Append(Flushed, Item("tool", Latest))
  /\ buffer' = FALSE /\ executing' = TRUE /\ calls' = calls - 1
  /\ UNCHANGED <<start, deltas, said, pending, phase, command, misplaced>>

(* Mutant: the last item takes the result.                                    *)
ToolEndLast ==
  /\ phase = "running" /\ executing /\ executing' = FALSE
  /\ items' = [items EXCEPT ![Len(items)].result = TRUE]
  /\ UNCHANGED <<buffer, start, deltas, said, calls, pending, phase, command, misplaced>>

(* record_tool_result: the call's item takes the result, wherever it is.      *)
ToolEnd ==
  /\ phase = "running" /\ executing /\ executing' = FALSE
  /\ items' = [i \in DOMAIN items |->
                 IF items[i].role = "tool" /\ Latest \in items[i].of
                 THEN [items[i] EXCEPT !.result = TRUE] ELSE items[i]]
  /\ UNCHANGED <<buffer, start, deltas, said, calls, pending, phase, command, misplaced>>

CompactionStart ==
  /\ phase = "running" /\ Latest > 0 /\ said[Latest].stop = "overflow" /\ pending
  /\ items' = Append(items, Item("status", Latest)) /\ phase' = "compacting"
  /\ UNCHANGED <<buffer, start, deltas, said, calls, executing, pending, command, misplaced>>

(* The compaction fails: the error is shown.  It succeeds: the message is     *)
(* sent again, and its next failure is the only one shown.                    *)
CompactionEnd ==
  /\ phase = "compacting"
  /\ \/ /\ items' = items \o Shown(said[Latest], Latest)
        /\ pending' = FALSE /\ phase' = "settling" /\ UNCHANGED said
     \/ /\ items' = Append(items, Item("status", Latest))
        /\ said' = [said EXCEPT ![Latest].stop = "recovered"]
        /\ phase' = "asked" /\ UNCHANGED pending
  /\ UNCHANGED <<buffer, start, deltas, calls, executing, command, misplaced>>

(* agent_settled: an overflow error that is still pending is shown.           *)
Settled ==
  /\ \/ phase = "settling"
     \/ (ToolsDone /\ said[Latest].stop # "overflow")
  /\ items' = IF pending THEN Flushed \o Shown(said[Latest], Latest) ELSE Flushed
  /\ buffer' = FALSE /\ pending' = FALSE /\ phase' = "idle"
  /\ UNCHANGED <<start, deltas, said, calls, executing, command, misplaced>>

(* What a session holds of its messages: an overflow that a compaction        *)
(* resolved is not among them.                                                *)
Resumed ==
  LET upTo[n \in 0 .. Latest] ==
        IF n = 0 THEN <<>>
        ELSE IF said[n].stop = "recovered" THEN upTo[n - 1]
        ELSE upTo[n - 1] \o Reloaded(said[n], n)
  IN  upTo[Latest]

(* A resumed session, a cancelled compaction or another branch shows them.    *)
Reload ==
  /\ phase = "idle" /\ said # <<>>
  /\ items' = Resumed /\ buffer' = FALSE /\ misplaced' = (command > 0)
  /\ UNCHANGED <<run, command>>

---------------------------------------------------------------------------
(* _run_terminal_command: a second command cancels the first one's worker.    *)
CommandStart ==
  /\ Cardinality({i \in DOMAIN items : items[i].role = "command"}) < MaxCommands
  /\ items' = Append(items, Item("command", 0)) /\ command' = Len(items) + 1
  /\ misplaced' = (misplaced \/ phase = "streaming")
  /\ UNCHANGED <<buffer, run>>

CommandEnd ==
  /\ command > 0 /\ command' = 0
  /\ items' = IF command > Len(items) THEN items
              ELSE [items EXCEPT ![command].of = @ \union {0}, ![command].result = TRUE]
  /\ UNCHANGED <<buffer, run, misplaced>>

Next == \/ UserMessageEnd \/ MessageStart \/ TextDelta \/ ThinkingDelta
        \/ (\E c \in Contents, s \in {"ok", "error", "overflow"} :
              MessageEnd([content |-> c, stop |-> s]))
        \/ ToolStart \/ ToolEnd \/ CompactionStart \/ CompactionEnd \/ Settled \/ Reload
        \/ CommandStart \/ CommandEnd

Spec == Init /\ [][Next]_vars

---------------------------------------------------------------------------
(* Once a run has settled, the items that streaming built are those the same  *)
(* messages show when the session is loaded again, apart from the user's,     *)
(* commands and status lines: no delta, result or error is lost, doubled or   *)
(* left behind, unless a command's item is in the way.                        *)
Lasting == [role : {"text", "thinking", "error", "tool"}, of : SUBSET (0 .. MaxMessages),
            result : BOOLEAN]

LiveIsReloaded ==
  phase = "idle" /\ ~misplaced /\ said # <<>> => Among(items, Lasting) = Resumed
=============================================================================
