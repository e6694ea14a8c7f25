----------------------------- MODULE CodingSession -----------------------------
(***************************************************************************)
(* tau_coding/session.py: a CodingSession drives one AgentHarness, writes  *)
(* its messages to the append-only session log and reloads them from it.   *)
(*                                                                         *)
(* session.prompt is an async generator around the harness's.  The harness *)
(* awaits its listeners before it hands an event over (`due`), so a run    *)
(* can be torn down between a message's end and its being written.  The    *)
(* JSONL storage never suspends: entries written by one call are written   *)
(* in one step, but the process may die between any two of them.           *)
(***************************************************************************)
EXTENDS Integers, Sequences, FiniteSets

CONSTANTS QueueMode, MaxTurns, FreshCallIds,
          MaxBatch, MaxIssued, MaxSubmitted, MaxMessages,
          MaxLog,   \* bound: log length at which entries are still added outside a run, and
           \* at which a process still dies while it repairs the log
          MaxBranch \* the same for a branch with a summary and what is added meanwhile

ASSUME SessionAssumption ==
  /\ QueueMode \in {"one_at_a_time", "all"}
  /\ MaxTurns \in Nat
  /\ FreshCallIds \in BOOLEAN
  /\ MaxBatch \in Nat /\ MaxIssued \in Nat
  /\ MaxSubmitted \in Nat /\ MaxMessages \in Nat
  /\ MaxLog \in Nat /\ MaxBranch \in Nat

VARIABLES
  messages, steering, followUp, signal, pc, pending, reply, todo, outcome, turn,
  issued, submitted,   \* the harness: see AgentHarness
  log,         \* the entries in storage
  lastParent,  \* _last_parent_id; also the leaf _state was replayed from
  persisted,   \* prompt's local persisted_count
  due,         \* a MessageEnd is with the listeners, the session has not seen it
  call,        \* the session call in progress and where it stands
  plan,        \* the entry ids a pending compaction replaces
  branch       \* a branch that waits for the summary of what it leaves behind

H == INSTANCE AgentHarness
L == INSTANCE SessionLog WITH Summary <- H!User(0, "summary")

harnessVars == <<messages, steering, followUp, signal, pc, pending, reply, todo, outcome,
                 turn, issued, submitted>>
logVars == <<log, lastParent>>
vars == <<harnessVars, logVars, persisted, due, call, plan, branch>>

NoBranch == [from |-> 0, covers |-> {}, overtaken |-> FALSE]

(* The bounds on what is added outside a run.                                  *)
Room == Len(log) < IF branch = NoBranch THEN MaxLog ELSE MaxBranch

Runs == {"run", "retry", "continue"}
Compactions == {"preCompact", "postCompact", "overflowCompact", "manualCompact"}
Calls == Runs \cup Compactions \cup {"idle", "overflow", "retryStart", "down"}

(* _active_context_rows of a log: an unwritten one has no rows.                *)
RowsOf(entries, leaf) == IF entries = << >> THEN << >> ELSE L!Rows(entries, leaf)
ActiveRows == RowsOf(log, lastParent)
MessageSet(msgs) == {msgs[i] : i \in DOMAIN msgs}
DurableMessages == MessageSet(L!MessagesOf(ActiveRows))

Init ==
  /\ H!Init
  /\ log = << >> /\ lastParent = 1
  /\ persisted = 0 /\ due = FALSE /\ call = "idle" /\ plan = {} /\ branch = NoBranch

-----------------------------------------------------------------------------
(* _persist_messages_since: write msgs from `count` on below _last_parent_id.  *)
Unwritten(msgs, count) == SubSeq(msgs, count + 1, Len(msgs))
PersistSince(msgs, count) ==
  /\ log' = L!WithMessages(log, lastParent, Unwritten(msgs, count))
  /\ lastParent' = IF Unwritten(msgs, count) = << >> THEN lastParent
                   ELSE L!LastMessageId(log, Unwritten(msgs, count))

(* The events after which the session looks for messages to write.             *)
EndsMessage ==
  \/ pc' \in {"inject", "assistantEnd", "toolEnd"}
  \/ pc' = "stopping" /\ pc \in {"start", "turnStart", "inject"}

(***************************************************************************)
(* prompt, continue_ and the run they consume.                             *)
(***************************************************************************)
(* Mutant: the prompt's worker leaves the others alone.                        *)
SparesBranch == UNCHANGED branch

(* The interface starts a prompt in an exclusive worker, which cancels that of *)
(* a branch at the only place it suspends, in front of the summary.            *)
CancelsBranch == branch' = NoBranch

(* The prompt is submitted and nothing is compacted first: persisted_count is  *)
(* taken before the harness repairs the transcript and appends the prompt.     *)
SendPrompt ==
  /\ call = "idle"
  /\ H!Prompt
  /\ persisted' = Len(messages)
  /\ due' = TRUE /\ call' = "run"
  /\ CancelsBranch
  /\ UNCHANGED <<logVars, plan>>

(* No interface continues a session while it branches.                         *)
SendContinue ==
  /\ call = "idle" /\ branch = NoBranch
  /\ H!Continue
  /\ persisted' = Len(messages)
  /\ call' = "continue"
  /\ UNCHANGED <<logVars, due, plan, branch>>

RunStep ==
  /\ call \in Runs /\ ~due
  /\ \/ H!LeaveStart \/ H!LeaveTurnStart \/ H!ProviderEnds \/ H!LeaveAssistantEnd
     \/ H!ToolRefused \/ H!ToolRuns \/ H!ToolReturns \/ H!LeaveToolEnd \/ H!LeaveTurnEnd
  /\ due' = EndsMessage
  /\ UNCHANGED <<logVars, persisted, call, plan, branch>>

(* Mutant: what was written is not counted as written.                         *)
HandleMessageEndUncounted ==
  /\ due
  /\ PersistSince(messages, persisted)
  /\ due' = FALSE
  /\ UNCHANGED <<harnessVars, persisted, call, plan, branch>>

(* The session sees the MessageEnd.                                            *)
HandleMessageEnd ==
  /\ due
  /\ PersistSince(messages, persisted)
  /\ persisted' = Len(messages)
  /\ due' = FALSE
  /\ UNCHANGED <<harnessVars, call, plan, branch>>

(* Mutant: what is still unwritten when the run ends is left unwritten.        *)
FinishRunUnwritten ==
  /\ call \in Runs /\ ~due
  /\ H!Finish
  /\ persisted' = 0
  /\ call' = "idle"
  /\ UNCHANGED <<logVars, due, plan, branch>>

(* The harness's generator returned: the rest is written, then the session     *)
(* settles, compacts, or (a failed prompt) compacts in order to try again.     *)
FinishRun ==
  /\ call \in Runs /\ ~due
  /\ H!Finish
  /\ PersistSince(messages', persisted)
  /\ persisted' = 0
  /\ \/ call' = "idle" /\ UNCHANGED plan
     \/ call = "run" /\ reply.failed /\ call' = "overflow" /\ UNCHANGED plan
     \/ /\ call # "retry"
        /\ plan' \in L!CompactionPlans(RowsOf(log', lastParent'))
        /\ call' = "postCompact"
  /\ UNCHANGED <<due, branch>>

(* CompactionStart is out.  There is no plan when the context is within the    *)
(* recent-token budget; then the overflow stays an error.                      *)
OverflowCompaction ==
  /\ call = "overflow"
  /\ \/ plan' \in L!CompactionPlans(ActiveRows) /\ call' = "overflowCompact"
     \/ call' = "idle" /\ UNCHANGED plan
  /\ UNCHANGED <<harnessVars, logVars, persisted, due, branch>>

RetryRun ==
  /\ call = "retryStart"
  /\ H!Resume
  /\ persisted' = Len(messages)
  /\ call' = "retry"
  /\ UNCHANGED <<logVars, due, plan, branch>>

(* The consumer's task is cancelled, or a listener, hook or provider raises:   *)
(* nothing after the harness's own cleanup runs.                               *)
Abandon ==
  /\ call \in Runs
  /\ H!Close
  /\ call' = "idle" /\ due' = FALSE /\ persisted' = 0
  /\ UNCHANGED <<logVars, plan, branch>>

(***************************************************************************)
(* Compaction: a plan, a summary awaited from the provider, an entry.      *)
(***************************************************************************)
StartPreCompaction ==
  /\ call = "idle"
  /\ submitted < MaxSubmitted /\ Room
  /\ plan' \in L!CompactionPlans(ActiveRows)
  /\ call' = "preCompact"
  /\ CancelsBranch
  /\ UNCHANGED <<harnessVars, logVars, persisted, due>>

StartManualCompaction ==
  /\ call = "idle" /\ ActiveRows # << >> /\ Room
  /\ steering = << >> /\ followUp = << >>
  /\ plan' = {ActiveRows[i].id : i \in DOMAIN ActiveRows}
  /\ call' = "manualCompact"
  /\ UNCHANGED <<harnessVars, logVars, persisted, due, branch>>

AfterCompaction == CASE call = "overflowCompact" -> "retryStart" [] OTHER -> "idle"

(* Mutant: the compaction is written, the live transcript not replaced.        *)
CompactLogOnly ==
  /\ call \in Compactions
  /\ log' = L!Appended(log, L!CompactionEntry(lastParent, plan))
  /\ lastParent' = Len(log) + 1
  /\ plan' = {}
  /\ call' = AfterCompaction
  /\ UNCHANGED <<harnessVars, persisted, due, branch>>

(* _append_compaction: the transcript becomes what the log now replays to; the *)
(* prompt that waited for it starts in the same step.                          *)
Compact ==
  /\ call \in Compactions
  /\ log' = L!Appended(log, L!CompactionEntry(lastParent, plan))
  /\ lastParent' = Len(log) + 1
  /\ plan' = {}
  /\ LET transcript == L!MessagesOf(L!Rows(log', lastParent'))
     IN IF call = "preCompact"
        THEN /\ H!PromptOn(transcript)
             /\ persisted' = Len(transcript)
             /\ due' = TRUE /\ call' = "run"
        ELSE /\ messages' = transcript
             /\ call' = AfterCompaction
             /\ UNCHANGED <<steering, followUp, signal, pc, pending, reply, todo, outcome,
                            turn, issued, submitted, persisted, due>>
  /\ UNCHANGED branch

(* Mutant: a summary that failed after an overflow is asked for again.         *)
CompactionFailsAgain ==
  /\ call \in Compactions
  /\ plan' = {}
  /\ IF call = "preCompact"
     THEN /\ H!Prompt
          /\ persisted' = Len(messages)
          /\ due' = TRUE /\ call' = "run"
     ELSE /\ call' = IF call = "overflowCompact" THEN "overflow" ELSE "idle"
          /\ UNCHANGED <<harnessVars, persisted, due>>
  /\ UNCHANGED <<logVars, branch>>

(* The summary failed: automatic compaction gives up quietly.                  *)
CompactionFails ==
  /\ call \in Compactions
  /\ plan' = {}
  /\ IF call = "preCompact"
     THEN /\ H!Prompt
          /\ persisted' = Len(messages)
          /\ due' = TRUE /\ call' = "run"
     ELSE call' = "idle" /\ UNCHANGED <<harnessVars, persisted, due>>
  /\ UNCHANGED <<logVars, branch>>

AbandonCompaction ==
  /\ call \in Compactions \cup {"overflow", "retryStart"}
  /\ call' = "idle" /\ plan' = {}
  /\ UNCHANGED <<harnessVars, logVars, persisted, due, branch>>

(***************************************************************************)
(* What the user, the frontends and the extensions do meanwhile.           *)
(***************************************************************************)
(* The bound leaves a prompt that waits for its compaction its number.         *)
RoomForPrompt == call = "preCompact" => submitted + 1 < MaxSubmitted

(* prompt(streaming_behavior=...) queues only while the harness runs; an       *)
(* extension without a frontend to start a run queues a follow-up at any time. *)
Queue ==
  /\ call # "down" /\ RoomForPrompt
  /\ \/ H!Running /\ H!Steer
     \/ H!FollowUp
  /\ UNCHANGED <<logVars, persisted, due, call, plan, branch>>

Cancel ==
  /\ call \in Runs
  /\ H!Cancel
  /\ UNCHANGED <<logVars, persisted, due, call, plan, branch>>

(* run_terminal_command: its own persisted count, whatever a run's says.       *)
TerminalCommand ==
  /\ call # "down" /\ RoomForPrompt
  /\ H!AppendMessage
  /\ PersistSince(messages', Len(messages))
  /\ UNCHANGED <<persisted, due, call, plan, branch>>

(* Mutant: the entry's leaf is written, the live parent not moved.             *)
AppendCustomEntryBehind ==
  /\ call # "down" /\ Room
  /\ log' = L!Appended(log, L!CustomEntry(lastParent))
  /\ UNCHANGED <<harnessVars, lastParent, persisted, due, call, plan, branch>>

(* append_custom_entry, set_thinking_level.                                    *)
AppendCustomEntry ==
  /\ call # "down" /\ Room
  /\ log' = L!Appended(log, L!CustomEntry(lastParent))
  /\ lastParent' = Len(L!Opened(log)) + 1
  /\ UNCHANGED <<harnessVars, persisted, due, call, plan, branch>>

(* The tree is opened, and a branch begins, only while no run is active and    *)
(* nothing is queued.                                                          *)
MayBranchFrom(n) ==
  /\ call = "idle"
  /\ steering = << >> /\ followUp = << >>
  /\ L!Branchable(log[n])

(* The end of branch_to_entry: what the new leaf replays to is live.           *)
ReplayAt(leaf) ==
  /\ lastParent' = leaf
  /\ messages' = L!MessagesOf(L!Rows(log', leaf))
  /\ UNCHANGED <<steering, followUp, signal, pc, pending, reply, todo, outcome, turn,
                 issued, submitted, persisted, due, call, plan>>

(* branch_to_entry without a summary, or with nothing to summarize.            *)
BranchToEntry ==
  /\ Room
  /\ \E n \in DOMAIN log :
       /\ MayBranchFrom(n)
       /\ \E target \in {L!BranchTarget(log, n)} \union
                       (IF L!Abandoned(log, n, lastParent) = {} THEN {n} ELSE {}) :
            log' = L!MovedTo(log, target) /\ ReplayAt(target)
  /\ branch' = IF branch = NoBranch THEN branch ELSE [branch EXCEPT !.overtaken = TRUE]

(* branch_to_entry with a summary, up to the request for it.                   *)
StartBranchSummary ==
  /\ branch = NoBranch /\ Len(log) < MaxBranch
  /\ \E n \in DOMAIN log :
       /\ MayBranchFrom(n)
       /\ L!Abandoned(log, n, lastParent) # {}
       /\ branch' = [from |-> n, covers |-> L!Abandoned(log, n, lastParent),
                     overtaken |-> FALSE]
  /\ UNCHANGED <<harnessVars, logVars, persisted, due, call, plan>>

(* The summary is here, from the provider or made up: nothing is looked at     *)
(* again.                                                                      *)
Summarized == L!Appended(log, L!BranchSummaryEntry(branch.from))
BranchSummarized ==
  /\ branch # NoBranch
  /\ log' = Summarized /\ ReplayAt(Len(log) + 1)
  /\ branch' = NoBranch

(***************************************************************************)
(* Process death and CodingSession.load.                                   *)
(***************************************************************************)
(* The log as the write in progress, if any, would leave it.                   *)
NextLogs ==
  {log} \cup (IF due THEN {L!WithMessages(log, lastParent, Unwritten(messages, persisted))}
              ELSE {})
        \cup (IF call \in Compactions
              THEN {L!Appended(log, L!CompactionEntry(lastParent, plan))} ELSE {})
        \cup (IF branch # NoBranch THEN {Summarized} ELSE {})

(* Everything but a prefix of that log is gone.                                *)
Die ==
  /\ call # "down" /\ log # << >>
  /\ \E next \in NextLogs : \E n \in Len(log) .. Len(next) : log' = SubSeq(next, 1, n)
  /\ messages' = << >> /\ steering' = << >> /\ followUp' = << >>
  /\ signal' = FALSE /\ pc' = "idle"
  /\ pending' = << >> /\ reply' = H!ErrorMessage /\ todo' = << >> /\ outcome' = "ok"
  /\ turn' = 1
  /\ lastParent' = 1 /\ persisted' = 0 /\ due' = FALSE /\ call' = "down" /\ plan' = {}
  /\ branch' = NoBranch
  /\ UNCHANGED <<issued, submitted>>

(* Mutant: the active branch is taken as it is.                                *)
LoadUnrepaired ==
  /\ call = "down"
  /\ lastParent' = L!ActiveLeaf(log)
  /\ messages' = L!MessagesOf(L!Rows(log, lastParent'))
  /\ call' = "idle"
  /\ UNCHANGED <<steering, followUp, signal, pc, pending, reply, todo, outcome, turn,
                 issued, submitted, log, persisted, due, plan, branch>>

(* The active branch is replayed, and repaired in the log if a call on it has  *)
(* no result.                                                                  *)
Load ==
  /\ call = "down"
  /\ log' = L!Repair(log, L!ActiveLeaf(log))
  /\ lastParent' = L!ActiveLeaf(log')
  /\ messages' = L!MessagesOf(L!Rows(log', lastParent'))
  /\ call' = "idle"
  /\ UNCHANGED <<steering, followUp, signal, pc, pending, reply, todo, outcome, turn,
                 issued, submitted, persisted, due, plan, branch>>

(* The process dies while the repair is written.                               *)
DieLoading ==
  /\ call = "down" /\ Len(log) < MaxLog
  /\ LET repaired == L!Repair(log, L!ActiveLeaf(log))
     IN \E n \in Len(log) + 1 .. Len(repaired) : log' = SubSeq(repaired, 1, n)
  /\ UNCHANGED <<harnessVars, lastParent, persisted, due, call, plan, branch>>

-----------------------------------------------------------------------------
Progress == RunStep \/ HandleMessageEnd \/ RetryRun \/ CompactionFails \/ FinishRun
            \/ OverflowCompaction \/ Compact
Teardown == Abandon \/ AbandonCompaction
User == SendPrompt \/ SendContinue \/ Queue \/ Cancel \/ StartPreCompaction
        \/ StartManualCompaction \/ AppendCustomEntry
        \/ BranchToEntry \/ StartBranchSummary \/ BranchSummarized
Restart == Die \/ Load \/ DieLoading

Next == Progress \/ Teardown \/ User \/ TerminalCommand \/ Restart

Spec == Init /\ [][Next]_vars
FairSpec == Spec /\ WF_vars(Progress)

-----------------------------------------------------------------------------
TypeOK ==
  /\ H!TypeOK
  /\ \A n \in DOMAIN log : log[n].parent \in 0 .. n - 1
  /\ lastParent \in Nat /\ persisted \in Nat
  /\ due \in BOOLEAN /\ call \in Calls
  /\ call \in Runs <=> pc # "idle"
  /\ due => call \in Runs
  /\ plan \subseteq DOMAIN log

(* The leaf a reload would resume from is the one the live session writes      *)
(* below, whatever was appended, compacted, branched or repaired.              *)
LeafIsLive ==
  call # "down" => lastParent = IF log = << >> THEN 1 ELSE L!ActiveLeaf(log)

(* The durable branch never holds a message the live transcript does not.      *)
DurableIsLive ==
  call # "down" => DurableMessages \subseteq MessageSet(messages)

(* The branch a load finds active.                                             *)
Found == L!MessagesOf(L!Rows(log, L!ActiveLeaf(log)))

(* Whatever was lost or left half written: a loaded transcript holds every     *)
(* message of the branch that was active, but for a summary that its repair    *)
(* takes back, and each call made there has its result behind it.              *)
LoadIsRepaired ==
  [][call = "down" /\ call' = "idle" =>
       /\ MessageSet(Found) \subseteq MessageSet(messages') \union {H!User(0, "summary")}
       /\ \A i \in DOMAIN messages' : \A c \in H!Called(Found) :
            H!CallsAt(messages', i, c) =>
              \E k \in DOMAIN messages' : k > i /\ H!AnswersAt(messages', k, c)]_vars

(* ... and a provider takes it: no call at all is without its result.          *)
LoadIsSafe ==
  [][call = "down" /\ call' = "idle" => H!AnsweredBefore(messages', Len(messages') + 1)]_vars

(* While no run is torn down, an idle session has written everything: the live *)
(* transcript and the durable branch hold the same messages.                   *)
IdleIsDurable ==
  call = "idle" => DurableMessages = MessageSet(messages)

(* ... and in the same order, each once, while no terminal command intervened. *)
IdleIsExact ==
  /\ call = "idle"
  /\ ~\E n \in DOMAIN log : log[n].type = "message" /\ log[n].message.role = "user"
                           /\ log[n].message.via = "append"
  => L!MessagesOf(ActiveRows) = messages

(* A branch that began in a session nobody else moved to another one leaves    *)
(* nothing behind that its summary was not told of, but for the output of      *)
(* terminal commands: whatever is compacted, added or prompted while the       *)
(* summary is awaited.                                                         *)
SummaryCoversBranch ==
  [][branch # NoBranch /\ ~branch.overtaken /\ log' = Summarized /\ call' # "down" =>
       \A m \in MessageSet(messages) \ MessageSet(messages') :
          \/ m \in {log[n].message : n \in branch.covers}
          \/ m.role = "user" /\ m.via = "append"]_vars

(* A prompt settles: its run, its compaction and its one retry all end.        *)
PromptSettles == call \in Runs \cup Compactions ~> call \in {"idle", "down"}

(* A terminal command's output is added to the context once.                   *)
NoMessageTwice ==
  \A i, j \in DOMAIN ActiveRows :
    /\ i # j
    /\ ActiveRows[i].message.role = "user" /\ ActiveRows[j].message.role = "user"
    /\ ActiveRows[i].message.via = "append"
    => ActiveRows[i].message # ActiveRows[j].message
=============================================================================
