----------------------------- MODULE AgentHarness -----------------------------
(***************************************************************************)
(* tau_agent: the provider/tool loop (loop.py) inside the stateful harness *)
(* (harness.py).                                                           *)
(*                                                                         *)
(* The loop is an async generator on one asyncio thread.  Other coroutines *)
(* run only where it is suspended: at a yield (listeners and the consumer  *)
(* handle the event there), while the provider streams, while a tool hook  *)
(* or a tool is awaited.  One value of pc stands for one such place; two   *)
(* adjacent yields with no assignment between them are one place.  A step  *)
(* of the run is everything the generator does from one place to the next. *)
(***************************************************************************)
EXTENDS Integers, Sequences, FiniteSets

CONSTANTS
  QueueMode,      \* AgentHarnessConfig.queue_mode
  MaxTurns,       \* AgentHarnessConfig.max_turns; None is a value no run reaches
  FreshCallIds,   \* TRUE: providers name every call anew;
                  \* FALSE: no ids on the wire, the adapters number "tool-call-<index>"
  MaxBatch,       \* bound: tool calls in one reply
  MaxIssued,      \* bound: tool calls in all replies
  MaxSubmitted,   \* bound: messages the user and the extensions hand in
  MaxMessages     \* bound: transcript length at which continue_ is still called

ASSUME ConstantsAssumption ==
  /\ QueueMode \in {"one_at_a_time", "all"}
  /\ MaxTurns \in Nat
  /\ FreshCallIds \in BOOLEAN
  /\ MaxBatch \in Nat /\ MaxIssued \in Nat
  /\ MaxSubmitted \in Nat /\ MaxMessages \in Nat

VARIABLES
  messages,    \* _messages: the transcript
  steering,    \* _steering_queue
  followUp,    \* _follow_up_queue
  signal,      \* _current_signal.is_cancelled(); FALSE when there is no signal
  pc,          \* where the run's generator is suspended; "idle": no run
  pending,     \* loop local `pending`: drained from a queue, not yet in messages
  reply,       \* loop local `assistant`
  todo,        \* the calls of the tool batch whose result is not yet in messages
  outcome,     \* how the call Head(todo) ended
  turn,        \* loop local `turn`
  issued,      \* external: calls the providers have made so far
  submitted    \* external: messages handed in so far; the next one is submitted + 1

runVars == <<pc, pending, reply, todo, outcome, turn>>
queueVars == <<steering, followUp>>
vars == <<messages, queueVars, signal, runVars, issued, submitted>>

-----------------------------------------------------------------------------
(* Messages.  What a message says is abstracted to its identity: `id` is the  *)
(* order in which it was handed in, `via` how it was.  Roles are the code's.   *)
CallIds == Nat \ {0}

User(id, via) == [role |-> "user", id |-> id, via |-> via]
Assistant(calls, failed) == [role |-> "assistant", calls |-> calls, failed |-> failed]
ToolResult(call, how) == [role |-> "toolResult", call |-> call, how |-> how]

Via == {"prompt", "steer", "followUp", "append", "summary"}
UserMessages == [role : {"user"}, id : Nat, via : Via]
AssistantMessages == [role : {"assistant"}, calls : Seq(CallIds), failed : BOOLEAN]
Outcomes == {"ok", "error", "aborted", "interrupted"}
ToolResults == [role : {"toolResult"}, call : CallIds, how : Outcomes]
Messages == UserMessages \cup AssistantMessages \cup ToolResults

ErrorMessage == Assistant(<< >>, TRUE)

Elements(s) == {s[i] : i \in DOMAIN s}

(* `c` is called by the assistant message at i; k holds a result for c. *)
CallsAt(msgs, i, c) == msgs[i].role = "assistant" /\ c \in Elements(msgs[i].calls)
AnswersAt(msgs, k, c) == msgs[k].role = "toolResult" /\ msgs[k].call = c

Called(msgs) == UNION {Elements(msgs[i].calls) :
                         i \in {j \in DOMAIN msgs : msgs[j].role = "assistant"}}
Returned(msgs) == {msgs[i].call : i \in {j \in DOMAIN msgs : msgs[j].role = "toolResult"}}
(* Mutant: the results already there are not looked up. *)
UnansweredOrNot(msgs) == Called(msgs)
Unanswered(msgs) == Called(msgs) \ Returned(msgs)

(* The order in which the repair walks the calls: by message, then by call. *)
CalledBefore(msgs, c, d) ==
  \E i, j \in DOMAIN msgs :
    /\ CallsAt(msgs, i, c) /\ CallsAt(msgs, j, d)
    /\ \A k \in 1 .. j : CallsAt(msgs, k, d) => k = j
    /\ \/ i < j
       \/ /\ i = j
          /\ \E x, y \in DOMAIN msgs[i].calls :
               x < y /\ msgs[i].calls[x] = c /\ msgs[i].calls[y] = d

(* The one enumeration of the unanswered calls in that order. *)
InterruptedCalls(msgs) ==
  {s \in [1 .. Cardinality(Unanswered(msgs)) -> Unanswered(msgs)] :
     /\ \A c \in Unanswered(msgs) : \E i \in DOMAIN s : s[i] = c
     /\ \A i, j \in DOMAIN s : i < j => CalledBefore(msgs, s[i], s[j])}

Interrupted(s) == [i \in DOMAIN s |-> ToolResult(s[i], "interrupted")]

(* _append_interrupted_tool_results: one synthetic result per unanswered id. *)
Repaired(msgs) == {msgs \o Interrupted(s) : s \in InterruptedCalls(msgs)}

(* Mutant: the newest message is taken. *)
DrainedNewest(queue) ==
  IF QueueMode = "all" \/ queue = << >> THEN queue ELSE <<queue[Len(queue)]>>

(* _drain_queue: what it returns and what it leaves. *)
Drained(queue) ==
  IF QueueMode = "all" \/ queue = << >> THEN queue ELSE <<Head(queue)>>
Undrained(queue) ==
  IF QueueMode = "all" \/ queue = << >> THEN << >> ELSE Tail(queue)

(* The ids of a reply's n calls. *)
NewCalls(n) == [i \in 1 .. n |-> IF FreshCallIds THEN issued + i ELSE i]

-----------------------------------------------------------------------------
Init ==
  /\ messages = << >>
  /\ steering = << >> /\ followUp = << >>
  /\ signal = FALSE
  /\ pc = "idle"
  /\ pending = << >> /\ reply = ErrorMessage /\ todo = << >> /\ outcome = "ok"
  /\ turn = 1
  /\ issued = 0 /\ submitted = 0

(***************************************************************************)
(* The caller's operations.                                                *)
(***************************************************************************)
Running == pc # "idle"

HandIn == submitted < MaxSubmitted /\ submitted' = submitted + 1

(* Mutant: a new run does not repair what an earlier one left. *)
PromptOnUnrepaired(transcript) ==
  /\ ~Running
  /\ HandIn
  /\ messages' = Append(transcript, User(submitted + 1, "prompt"))
  /\ pc' = "start" /\ turn' = 1
  /\ UNCHANGED <<queueVars, signal, pending, reply, todo, outcome, issued>>

(* prompt_message up to its first yield: _ensure_not_running, the repair, then *)
(* the loop extends the transcript with the prompt.                            *)
PromptOn(transcript) ==
  /\ ~Running
  /\ HandIn
  /\ \E repaired \in Repaired(transcript) :
       messages' = Append(repaired, User(submitted + 1, "prompt"))
  /\ pc' = "start" /\ turn' = 1
  /\ UNCHANGED <<queueVars, signal, pending, reply, todo, outcome, issued>>

Prompt == PromptOn(messages)

(* continue_: the same without a prompt. *)
Resume ==
  /\ ~Running
  /\ messages' \in Repaired(messages)
  /\ pc' = "start" /\ turn' = 1
  /\ UNCHANGED <<queueVars, signal, pending, reply, todo, outcome, issued, submitted>>

Continue == Len(messages) < MaxMessages /\ Resume

Steer ==
  /\ HandIn
  /\ steering' = Append(steering, User(submitted + 1, "steer"))
  /\ UNCHANGED <<messages, followUp, signal, runVars, issued>>

FollowUp ==
  /\ HandIn
  /\ followUp' = Append(followUp, User(submitted + 1, "followUp"))
  /\ UNCHANGED <<messages, steering, signal, runVars, issued>>

(* pop_latest_steering, pop_latest_follow_up: back to the editor. *)
PopSteering ==
  /\ steering # << >>
  /\ steering' = SubSeq(steering, 1, Len(steering) - 1)
  /\ UNCHANGED <<messages, followUp, signal, runVars, issued, submitted>>

PopFollowUp ==
  /\ followUp # << >>
  /\ followUp' = SubSeq(followUp, 1, Len(followUp) - 1)
  /\ UNCHANGED <<messages, steering, signal, runVars, issued, submitted>>

ClearQueues ==
  /\ steering # << >> \/ followUp # << >>
  /\ steering' = << >> /\ followUp' = << >>
  /\ UNCHANGED <<messages, signal, runVars, issued, submitted>>

(* cancel: only a signal that exists is set. *)
Cancel ==
  /\ Running
  /\ signal' = TRUE
  /\ UNCHANGED <<messages, queueVars, runVars, issued, submitted>>

(* append_message: the output of a terminal command, at any time. *)
AppendMessage ==
  /\ HandIn
  /\ messages' = Append(messages, User(submitted + 1, "append"))
  /\ UNCHANGED <<queueVars, signal, runVars, issued>>

(* replace_messages between runs: a branch to an assistant message, or to just *)
(* before a user message; a compaction puts a summary before a suffix that     *)
(* does not begin with a tool result.                                          *)
Branches(msgs) ==
  {SubSeq(msgs, 1, n) : n \in {m \in 0 .. Len(msgs) - 1 :
     \/ m > 0 /\ msgs[m].role = "assistant"
     \/ msgs[m + 1].role = "user"}}
Compactions(msgs) ==
  {<<User(0, "summary")>> \o SubSeq(msgs, n, Len(msgs)) : n \in {m \in 2 .. Len(msgs) :
     msgs[m].role # "toolResult"}}

ReplaceMessages ==
  /\ ~Running
  /\ messages' \in Branches(messages) \cup Compactions(messages)
  /\ UNCHANGED <<queueVars, signal, runVars, issued, submitted>>

(***************************************************************************)
(* The run.                                                                *)
(***************************************************************************)
(* A turn from the injection of the messages in `queue` to the request: the    *)
(* next of them is appended and announced, or none is left and max_turns is    *)
(* checked before the provider is asked.                                       *)
TurnBody(queue) ==
  \/ /\ queue # << >>
     /\ messages' = Append(messages, Head(queue))
     /\ pending' = Tail(queue)
     /\ pc' = "inject"
  \/ /\ queue = << >> /\ turn > MaxTurns
     /\ messages' = Append(messages, ErrorMessage)
     /\ pending' = << >>
     /\ pc' = "stopping"
  \/ /\ queue = << >> /\ turn <= MaxTurns
     /\ pending' = << >>
     /\ pc' = "stream"
     /\ UNCHANGED messages

(* AgentStart, TurnStart and the prompt's events are out. *)
LeaveStart ==
  /\ pc = "start"
  /\ \/ /\ MaxTurns < 1
        /\ messages' = Append(messages, ErrorMessage)
        /\ pc' = "stopping"
        /\ UNCHANGED <<steering, pending>>
     \/ /\ MaxTurns >= 1
        /\ steering' = Undrained(steering)
        /\ TurnBody(Drained(steering))
  /\ UNCHANGED <<followUp, signal, reply, todo, outcome, turn, issued, submitted>>

(* A later turn's TurnStart is out; so is the last injected message's end. *)
LeaveTurnStart ==
  /\ pc \in {"turnStart", "inject"}
  /\ TurnBody(pending)
  /\ UNCHANGED <<queueVars, signal, reply, todo, outcome, turn, issued, submitted>>

(* The provider's terminal event: done, or an error or abort, which may carry  *)
(* the calls streamed so far.  MessageEnd goes out before the loop keeps it.   *)
ProviderEnds ==
  /\ pc = "stream"
  /\ \E n \in 0 .. MaxBatch, failed \in BOOLEAN :
       /\ issued + n <= MaxIssued
       /\ reply' = Assistant(NewCalls(n), failed)
       /\ issued' = issued + n
  /\ pc' = "assistantEnd"
  /\ UNCHANGED <<messages, queueVars, signal, pending, todo, outcome, turn, submitted>>

(* Mutant: a failed reply does not end the run. *)
LeaveAssistantEndFailed ==
  /\ pc = "assistantEnd"
  /\ messages' = Append(messages, reply)
  /\ todo' = IF reply.failed THEN << >> ELSE reply.calls
  /\ pc' = IF todo' = << >> THEN "turnEnd" ELSE "toolStart"
  /\ UNCHANGED <<queueVars, signal, pending, reply, outcome, turn, issued, submitted>>

LeaveAssistantEnd ==
  /\ pc = "assistantEnd"
  /\ messages' = Append(messages, reply)
  /\ \/ /\ reply.failed
        /\ pc' = "stopping"
        /\ UNCHANGED todo
     \/ /\ ~reply.failed
        /\ todo' = reply.calls
        /\ pc' = IF reply.calls = << >> THEN "turnEnd" ELSE "toolStart"
  /\ UNCHANGED <<queueVars, signal, pending, reply, outcome, turn, issued, submitted>>

(* before_tool_call returned.  Blocked calls, cancelled calls and calls of an  *)
(* unknown tool are answered without running anything.                         *)
ToolRefused ==
  /\ pc = "toolStart"
  /\ outcome' \in {"error"} \cup (IF signal THEN {"aborted"} ELSE {})
  /\ pc' = "toolEnd"
  /\ UNCHANGED <<messages, queueVars, signal, pending, reply, todo, turn, issued, submitted>>

ToolRuns ==
  /\ pc = "toolStart"
  /\ ~signal
  /\ pc' = "toolRun"
  /\ UNCHANGED <<messages, queueVars, signal, pending, reply, todo, outcome, turn,
                 issued, submitted>>

(* Mutant: a cancelled tool is waited for and never returns. *)
ToolReturnsUncancelled ==
  /\ pc = "toolRun" /\ ~signal
  /\ outcome' \in {"ok", "error"}
  /\ pc' = "toolEnd"
  /\ UNCHANGED <<messages, queueVars, signal, pending, reply, todo, turn, issued, submitted>>

(* tool.execute returned or raised; after_tool_call may change the verdict.    *)
(* The result's MessageEnd goes out before the loop keeps it.                  *)
ToolReturns ==
  /\ pc = "toolRun"
  /\ outcome' \in {"ok", "error"}
  /\ pc' = "toolEnd"
  /\ UNCHANGED <<messages, queueVars, signal, pending, reply, todo, turn, issued, submitted>>

(* Mutant: the batch is left one call late. *)
LeaveToolEndLate ==
  /\ pc = "toolEnd"
  /\ messages' = Append(messages, ToolResult(Head(todo), outcome))
  /\ todo' = Tail(todo)
  /\ pc' = IF todo = << >> THEN "turnEnd" ELSE "toolStart"
  /\ UNCHANGED <<queueVars, signal, pending, reply, outcome, turn, issued, submitted>>

LeaveToolEnd ==
  /\ pc = "toolEnd"
  /\ messages' = Append(messages, ToolResult(Head(todo), outcome))
  /\ todo' = Tail(todo)
  /\ pc' = IF Tail(todo) = << >> THEN "turnEnd" ELSE "toolStart"
  /\ UNCHANGED <<queueVars, signal, pending, reply, outcome, turn, issued, submitted>>

(* Mutant: only steering keeps a run going. *)
LeaveTurnEndSteered ==
  /\ pc = "turnEnd"
  /\ turn' = turn + 1
  /\ steering' = Undrained(steering)
  /\ pending' = Drained(steering)
  /\ pc' = IF reply.calls # << >> \/ Drained(steering) # << >> THEN "turnStart" ELSE "stopping"
  /\ UNCHANGED <<messages, followUp, signal, reply, todo, outcome, issued, submitted>>

(* TurnEnd is out: steering is drained; follow-ups only when the run would     *)
(* otherwise stop.  The drained messages wait in `pending` across TurnStart.   *)
LeaveTurnEnd ==
  /\ pc = "turnEnd"
  /\ turn' = turn + 1
  /\ steering' = Undrained(steering)
  /\ IF reply.calls # << >> \/ Drained(steering) # << >>
     THEN /\ pending' = Drained(steering)
          /\ pc' = "turnStart"
          /\ UNCHANGED followUp
     ELSE /\ pending' = Drained(followUp)
          /\ followUp' = Undrained(followUp)
          /\ pc' = IF Drained(followUp) # << >> THEN "turnStart" ELSE "stopping"
  /\ UNCHANGED <<messages, signal, reply, todo, outcome, issued, submitted>>

(* Mutant: a cancelled run's calls are left as they are. *)
FinallyUnrepaired ==
  /\ signal' = FALSE
  /\ pc' = "idle"
  /\ pending' = << >> /\ reply' = ErrorMessage /\ todo' = << >> /\ outcome' = "ok"
  /\ turn' = 1
  /\ UNCHANGED <<messages, queueVars, issued, submitted>>

(* AgentHarness._run's finally clause. *)
Finally ==
  /\ IF signal THEN messages' \in Repaired(messages) ELSE UNCHANGED messages
  /\ signal' = FALSE
  /\ pc' = "idle"
  /\ pending' = << >> /\ reply' = ErrorMessage /\ todo' = << >> /\ outcome' = "ok"
  /\ turn' = 1
  /\ UNCHANGED <<queueVars, issued, submitted>>

(* The last TurnEnd and AgentEnd are out; the generator returns. *)
Finish == pc = "stopping" /\ Finally

(* The run is torn down where it is suspended: its task is cancelled, its      *)
(* generator closed, or a listener, hook or provider raises.                   *)
Close == Running /\ Finally

Step == \/ LeaveStart \/ LeaveTurnStart \/ ProviderEnds \/ LeaveAssistantEnd
        \/ ToolRefused \/ ToolRuns \/ ToolReturns \/ LeaveToolEnd \/ LeaveTurnEnd
        \/ Finish

Caller == \/ Prompt \/ Continue \/ Steer \/ FollowUp \/ PopSteering \/ PopFollowUp
          \/ ClearQueues \/ Cancel \/ AppendMessage \/ ReplaceMessages

Next == Step \/ Close \/ Caller

Spec == Init /\ [][Next]_vars

(* The event loop resumes a suspended generator, providers end their streams   *)
(* (they time out) and tools return; nobody is obliged to call, or to cancel.  *)
FairSpec == Spec /\ WF_vars(Step)

-----------------------------------------------------------------------------
(***************************************************************************)
(* Properties.                                                             *)
(***************************************************************************)
PCs == {"idle", "start", "turnStart", "inject", "stream", "assistantEnd",
        "toolStart", "toolRun", "toolEnd", "turnEnd", "stopping"}

(* Every variable has its type; a run in a tool batch has a call to work on,   *)
(* and only a drained batch that is still being injected is pending.           *)
TypeOK ==
  /\ messages \in Seq(Messages)
  /\ steering \in Seq(UserMessages) /\ followUp \in Seq(UserMessages)
  /\ pending \in Seq(UserMessages)
  /\ signal \in BOOLEAN
  /\ pc \in PCs
  /\ reply \in AssistantMessages
  /\ todo \in Seq(CallIds)
  /\ outcome \in Outcomes
  /\ turn \in Nat /\ issued \in Nat /\ submitted \in Nat
  /\ pc \in {"toolStart", "toolRun", "toolEnd"} => todo # << >>
  /\ pc \notin {"turnStart", "inject"} => pending = << >>
  /\ pc = "idle" => ~signal

(* Every call made before position l has a result before position l.           *)
AnsweredBefore(msgs, l) ==
  \A i \in 1 .. l - 1 :
    msgs[i].role = "assistant" =>
      \A c \in Elements(msgs[i].calls) : \E k \in i + 1 .. l - 1 : AnswersAt(msgs, k, c)

(* What the repair is for: whenever the provider is asked, and so in front of  *)
(* every assistant message, each earlier tool call has its result, however     *)
(* earlier runs were cancelled, closed or failed between the call and it.      *)
ToolCallsAnswered ==
  /\ \A l \in DOMAIN messages :
       messages[l].role = "assistant" => AnsweredBefore(messages, l)
  /\ pc = "stream" => AnsweredBefore(messages, Len(messages) + 1)

(* The loop and the repair never both answer a call: a provider rejects a      *)
(* second result for the same id.                                              *)
OneResultPerCall ==
  \A i, j \in DOMAIN messages :
    messages[i].role = "toolResult" /\ messages[j].role = "toolResult" /\ i # j
      => messages[i].call # messages[j].call

(* Per queue, messages are injected in the order in which they were queued and *)
(* none is injected twice or is both injected and still queued, over any       *)
(* number of runs, cancellations, withdrawals and branches.                    *)
IsVia(m, v) == m.role = "user" /\ m.via = v
InOrder(line, v) ==
  \A i, j \in DOMAIN line :
    i < j /\ IsVia(line[i], v) /\ IsVia(line[j], v) => line[i].id < line[j].id
QueueOrderKept ==
  /\ InOrder(messages \o pending \o steering, "steer")
  /\ InOrder(messages \o pending \o followUp, "followUp")

(* A run that no failure ends does not stop while a message is queued: such a  *)
(* message would wait for a run nobody has asked for.                          *)
NoStopWhileQueued ==
  [][pc = "turnEnd" /\ pc' = "stopping" => steering' = << >> /\ followUp' = << >>]_vars

(* A cancelled run leaves no call unanswered behind it, wherever it stood.     *)
CancelSettlesCalls ==
  [][signal /\ Running /\ ~Running' => AnsweredBefore(messages', Len(messages') + 1)]_vars

(* The transcript as the provider protocol sees it.                            *)
Protocol == INSTANCE ToolCallProtocol WITH
  running <- Running,
  asking <- pc \in {"stream", "assistantEnd"},
  owed <- Unanswered(messages)

(* The harness implements ToolCallProtocol: it asks only when nothing is owed, *)
(* and gives results only for calls that are owed one.                         *)
ImplementsProtocol == Protocol!Spec

(* Every run ends: the loop always gets back to its caller.                    *)
RunEnds == Running ~> ~Running
=============================================================================
