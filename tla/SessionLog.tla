------------------------------ MODULE SessionLog ------------------------------
(***************************************************************************)
(* tau_agent/session: the append-only session log, the tree its parent     *)
(* pointers make, and the state replayed from it; with the two plans       *)
(* tau_coding/session.py computes from a replayed state, the repair of     *)
(* interrupted tool calls and the compaction that keeps recent messages.   *)
(*                                                                         *)
(* Entry ids are uuids in the code and positions in the log here; 0 is     *)
(* None.  The session_info, model_change and thinking_level_change entries *)
(* that open a log are one "meta" entry, and every entry that replays to   *)
(* no message ("custom", a later thinking_level_change) is a "custom" one. *)
(***************************************************************************)
EXTENDS Integers, Sequences, FiniteSetsExt, SequencesExt

CONSTANT Summary   \* the user message a compaction or a branch summary replays to

None == 0

Meta == [type |-> "meta", parent |-> None]
MessageEntry(parent, message) ==
  [type |-> "message", parent |-> parent, message |-> message]
CustomEntry(parent) == [type |-> "custom", parent |-> parent]
CompactionEntry(parent, ids) ==
  [type |-> "compaction", parent |-> parent, replaces |-> ids]
BranchSummaryEntry(parent) == [type |-> "branch_summary", parent |-> parent]
LeafEntry(target) == [type |-> "leaf", parent |-> target, target |-> target]

(* _ensure_session_initialized: the opening entry is written with the first one. *)
Opened(log) == IF log = << >> THEN <<Meta>> ELSE log

(* An entry and the leaf that makes it the active one. *)
Appended(log, entry) ==
  LET opened == Opened(log)
  IN opened \o <<entry, LeafEntry(Len(opened) + 1)>>

(* A chain of message entries under `parent`, each with its leaf. *)
WithMessages(log, parent, msgs) ==
  LET base == Len(Opened(log))
      above(m) == IF m = 1 THEN parent ELSE base + 2 * m - 3
      entry(n) == LET m == (n + 1) \div 2
                  IN IF n % 2 = 1 THEN MessageEntry(above(m), msgs[m])
                                  ELSE LeafEntry(base + n - 1)
  IN IF msgs = << >> THEN log
     ELSE Opened(log) \o [n \in 1 .. 2 * Len(msgs) |-> entry(n)]
LastMessageId(log, msgs) == Len(Opened(log)) + 2 * Len(msgs) - 1

(* _latest_leaf_entry and _last_parent_id_from_state: where a load resumes.     *)
ActiveLeaf(log) ==
  LET leaves == {n \in DOMAIN log : log[n].type = "leaf"}
  IN IF leaves = {} THEN Len(log) ELSE log[Max(leaves)].target

(* The elements of s that are in T, in their order.                             *)
Among(s, T) ==
  LET among[n \in 0 .. Len(s)] ==
        IF n = 0 THEN << >>
        ELSE IF s[n] \in T THEN Append(among[n - 1], s[n]) ELSE among[n - 1]
  IN among[Len(s)]

(* _apply_compaction: the first replaced row becomes the summary.               *)
Compacted(rows, id, ids) ==
  LET replaced == {i \in DOMAIN rows : rows[i].id \in ids}
      kept == {r \in ToSet(rows) : r.id \notin ids}
      summary == [id |-> id, message |-> Summary]
  IN IF replaced = {} THEN Append(rows, summary)
     ELSE Among(SubSeq(rows, 1, Min(replaced) - 1), kept) \o <<summary>>
          \o Among(SubSeq(rows, Min(replaced) + 1, Len(rows)), kept)

(* path_to_entry and SessionState.from_entries: the context rows, each message  *)
(* with its entry id, replayed along the path from the root to the leaf.        *)
Rows(log, leaf) ==
  LET rows[n \in 0 .. Len(log)] ==
        CASE n = None -> << >>
          [] n # None /\ log[n].type = "message" ->
               Append(rows[log[n].parent], [id |-> n, message |-> log[n].message])
          [] n # None /\ log[n].type = "compaction" ->
               Compacted(rows[log[n].parent], n, log[n].replaces)
          [] n # None /\ log[n].type = "branch_summary" ->
               Append(rows[log[n].parent], [id |-> n, message |-> Summary])
          [] OTHER -> rows[log[n].parent]
  IN rows[leaf]

MessagesOf(rows) == [i \in DOMAIN rows |-> rows[i].message]

(***************************************************************************)
(* _interrupted_tool_repair_plan.                                          *)
(***************************************************************************)
IsCall(rows, i, c) ==
  rows[i].message.role = "assistant" /\ c \in ToSet(rows[i].message.calls)
HasResult(rows, c) ==
  \E i \in DOMAIN rows : rows[i].message.role = "toolResult" /\ rows[i].message.call = c
(* The calls of row i that get a synthetic result there: the first call of an   *)
(* id nobody answered.                                                          *)
InterruptedAt(rows, i) ==
  IF rows[i].message.role # "assistant" THEN << >>
  ELSE Among(rows[i].message.calls,
         {c \in ToSet(rows[i].message.calls) :
            ~HasResult(rows, c) /\ \A j \in 1 .. i - 1 : ~IsCall(rows, j, c)})
Synthetic(calls) ==
  [i \in DOMAIN calls |-> [role |-> "toolResult", call |-> calls[i], how |-> "interrupted"]]
RepairNeeded(rows) == \E i \in DOMAIN rows : InterruptedAt(rows, i) # << >>
(* The last row of the common prefix, and what follows it once repaired.        *)
RepairPoint(rows) == Min({i \in DOMAIN rows : InterruptedAt(rows, i) # << >>})
RepairSuffix(rows) ==
  LET repaired(i) == (IF i = RepairPoint(rows) THEN << >> ELSE <<rows[i].message>>)
                     \o Synthetic(InterruptedAt(rows, i))
  IN FlattenSeq([k \in 1 .. Len(rows) - RepairPoint(rows) + 1 |->
                   repaired(RepairPoint(rows) + k - 1)])

(* _persist_loaded_interrupted_tool_repairs: the suffix is written again below   *)
(* the last good row, with one leaf at its end.                                  *)
Repair(log, leaf) ==
  LET rows == Rows(log, leaf)
      suffix == RepairSuffix(rows)
      entry(n) == MessageEntry(IF n = 1 THEN rows[RepairPoint(rows)].id ELSE Len(log) + n - 1,
                               suffix[n])
  IN IF ~RepairNeeded(rows) THEN log
     ELSE log \o [n \in DOMAIN suffix |-> entry(n)] \o <<LeafEntry(Len(log) + Len(suffix))>>

(***************************************************************************)
(* _first_recent_context_index: how many rows a compaction replaces, when   *)
(* the recent-token budget reaches back to row i.                          *)
(***************************************************************************)
ReplacedRows(rows, i) ==
  LET users(from) == {j \in from .. Len(rows) : rows[j].message.role = "user"}
      others(from) == {j \in from .. Len(rows) : rows[j].message.role # "toolResult"}
      firstKept ==
        IF rows[i].message.role = "user"
        THEN IF i > 1 THEN i ELSE IF users(2) = {} THEN 1 ELSE Min(users(2))
        ELSE IF users(i + 1) # {} THEN Min(users(i + 1))
             ELSE IF others(i) # {} THEN Min(others(i)) ELSE Len(rows) + 1
  IN firstKept - 1

(* _recent_preserving_compaction_plan: the ids replaced; {} is no plan.          *)
CompactionPlans(rows) ==
  IF Len(rows) < 2 THEN {}
  ELSE {{rows[j].id : j \in 1 .. ReplacedRows(rows, i)} : i \in DOMAIN rows} \ {{}}

(***************************************************************************)
(* branch_to_entry: which entries a user may go back to, and where the leaf *)
(* moves: before a prompt, which is edited again, and to anything else.     *)
(***************************************************************************)
Branchable(entry) ==
  \/ entry.type \in {"compaction", "branch_summary"}
  \/ entry.type = "message" /\ entry.message.role \in {"user", "assistant"}
BranchTarget(log, n) ==
  IF log[n].type = "message" /\ log[n].message.role = "user" THEN log[n].parent ELSE n
MovedTo(log, target) == Append(log, LeafEntry(target))

(* _messages_after_entry_on_active_path: the messages a branch from n leaves    *)
(* behind.  An entry is written after its parent.                               *)
Path(log, leaf) ==
  LET path[n \in 0 .. Len(log)] == IF n = None THEN {} ELSE {n} \union path[log[n].parent]
  IN path[leaf]
Abandoned(log, n, leaf) ==
  IF n \notin Path(log, leaf) THEN {}
  ELSE {m \in Path(log, leaf) : m > n /\ log[m].type = "message"}
=============================================================================
