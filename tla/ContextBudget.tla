---------------------------- MODULE ContextBudget ----------------------------
(* How full the context is (tau_coding/context_window.py), and what that       *)
(* makes a session compact (session.py): the size a provider reported for a   *)
(* prefix of the messages anchors the estimate while it still describes them, *)
(* which is told from the messages' timestamps.  A summary is made anew, and  *)
(* stamped anew, each time the log is replayed.                               *)
EXTENDS Naturals, Sequences, SequencesExt, FiniteSetsExt

CONSTANTS Sizes,         \* estimated tokens of a message
          Density,       \* tokens of the provider for one that is estimated
          SummarySize,
          KeepRecent,    \* DEFAULT_COMPACTION_KEEP_RECENT_TOKENS
          Threshold,     \* auto_compact_token_threshold
          MaxRows, MaxMade, MaxTime  \* bounds

BudgetAssumption == /\ Sizes \subseteq Nat \ {0} /\ SummarySize \in Nat \ {0}
                           /\ Density \in Nat \ {0} /\ KeepRecent \in Nat \ {0}

VARIABLES rows,    \* [id, role, size, at, of, summary]: the active context; of is
                   \* what a reply that reported its usage was made of, and itself
          before,  \* the rows as they were before the last compaction
          now, made,
          phase,   \* "idle", "running", "tools", or what a compaction is due for
          retry    \* the run is the one after an overflow

vars == <<rows, before, now, made, phase, retry>>

Init == rows = <<>> /\ before = <<>> /\ now = 1 /\ made = 0 /\ phase = "idle" /\ retry = FALSE

Ids(s) == [i \in DOMAIN s |-> s[i].id]
Tokens(s) == FoldLeft(LAMBDA sum, r : sum + r.size, 0, s)   \* estimate_message_tokens

(* Mutant: the last reply that reported its usage, whatever came since.       *)
AnchorLast(s) == Max({0} \union {i \in DOMAIN s : s[i].of # <<>>})

(* _last_applicable_provider_usage: the last reply that is not older than     *)
(* anything before it and reported what it used; 0 is none.                   *)
Anchor(s) ==
  Max({0} \union {i \in DOMAIN s : s[i].of # <<>> /\ \A j \in 1..(i - 1) : s[j].at <= s[i].at})

(* estimate_context_usage                                                     *)
Estimate(s) == LET i == Anchor(s) IN
  IF i = 0 THEN Tokens(s) ELSE Density * Tokens(SubSeq(s, 1, i)) + Tokens(SubSeq(s, i + 1, Len(s)))

(* _first_recent_context_index, counted from 0: the recent rows that are kept *)
(* begin with a user's message, or with no tool's result.                     *)
FirstRecent(s) ==
  LET recent == {i \in DOMAIN s : Tokens(SubSeq(s, i, Len(s))) >= KeepRecent}
      user(from) == {i \in from..Len(s) : s[i].role = "user"}
      other(from) == {i \in from..Len(s) : s[i].role # "tool"}
      c == Max(recent)
      after == user(IF s[c].role = "user" THEN 2 ELSE c + 1)
  IN CASE recent = {} -> 0
       [] recent # {} /\ s[c].role = "user" /\ c > 1 -> c - 1
       [] recent # {} /\ ~(s[c].role = "user" /\ c > 1) ->
            IF after # {} THEN Min(after) - 1
            ELSE IF s[c].role = "user" THEN 0
            ELSE IF other(c) # {} THEN Min(other(c)) - 1 ELSE Len(s)

(* _recent_preserving_compaction_plan, as how many rows are replaced.         *)
Plan(s) == IF Len(s) < 2 THEN 0 ELSE FirstRecent(s)
Due(s) == Len(s) >= 2 /\ Estimate(s) > Threshold /\ Plan(s) > 0

---------------------------------------------------------------------------
(* The log is replayed: its summaries are messages made now.                  *)
Replayed(s) == [i \in DOMAIN s |-> IF s[i].summary THEN [s[i] EXCEPT !.at = now] ELSE s[i]]
Row(role, size, of) ==
  [id |-> made + 1, role |-> role, size |-> size, at |-> now, of |-> of, summary |-> FALSE]
Summary == [Row("user", SummarySize, <<>>) EXCEPT !.summary = TRUE]
Compacted(s, n) == Replayed(<<Summary>> \o SubSeq(s, n + 1, Len(s)))

Add(role, size, of) ==
  /\ Len(rows) < MaxRows /\ made < MaxMade
  /\ rows' = Append(rows, Row(role, size, of))
  /\ made' = made + 1 /\ UNCHANGED <<before, now>>

Runs == phase' = "running" /\ retry' = FALSE
(* prompt: first a compaction that has become due out of band.                *)
Prompt(size) ==
  /\ phase = "idle" /\ ~Due(rows) /\ Add("user", size, <<>>) /\ Runs
CompactFirst == phase = "idle" /\ Due(rows) /\ phase' = "first" /\ UNCHANGED <<rows, before, now, made, retry>>

(* A reply with its calls, with or without the usage a provider reports.      *)
Reply(size, calls, reports) ==
  /\ phase = "running"
  /\ Add("assistant", size, IF reports THEN Append(Ids(rows), made + 1) ELSE <<>>)
  /\ phase' = CASE calls -> "tools"
                [] ~calls /\ ~retry /\ Due(rows') -> "settling"
                [] ~calls /\ (retry \/ ~Due(rows')) -> "idle"
  /\ UNCHANGED retry
ToolResult(size) ==
  phase = "tools" /\ Add("tool", size, <<>>) /\ phase' \in {"tools", "running"} /\ UNCHANGED retry

(* An overflow compacts whatever the estimate says, and tries again, once.    *)
Overflow ==
  /\ phase = "running" /\ Add("assistant", 1, <<>>)
  /\ phase' = IF ~retry /\ Plan(rows') > 0 THEN "overflow" ELSE "idle"
  /\ UNCHANGED retry

(* The summary has come, or not, which takes time.                            *)
Compact ==
  /\ phase \in {"first", "settling", "overflow"} /\ Last(rows).at < now /\ made < MaxMade
  /\ rows' = Compacted(rows, Plan(rows)) /\ before' = rows /\ made' = made + 1
  /\ phase' = CASE phase = "first" -> "prompted" [] phase = "overflow" -> "running"
                [] phase = "settling" -> "idle"
  /\ retry' = (phase = "overflow") /\ UNCHANGED now
CompactionFails ==
  /\ phase \in {"first", "settling", "overflow"}
  /\ phase' = IF phase = "first" THEN "prompted" ELSE "idle"
  /\ UNCHANGED <<rows, before, now, made, retry>>
PromptAfter(size) == phase = "prompted" /\ Add("user", size, <<>>) /\ Runs

(* /compact replaces everything.                                              *)
ManualCompact ==
  /\ phase = "idle" /\ rows # <<>> /\ Last(rows).at < now /\ made < MaxMade
  /\ rows' = <<Summary>> /\ before' = rows /\ made' = made + 1 /\ UNCHANGED <<now, phase, retry>>

(* branch_to_entry, to this side of the last compaction or to the other: to a *)
(* reply, to before a prompt, or to either with a summary of what is left.    *)
Branch(s, n, summarize) ==
  /\ phase = "idle" /\ n \in 1..Len(s) /\ s[n].role # "tool" /\ ~s[n].summary
  /\ rows' = IF summarize THEN Append(Replayed(SubSeq(s, 1, n)), Summary)
             ELSE Replayed(SubSeq(s, 1, IF s[n].role = "user" THEN n - 1 ELSE n))
  /\ rows' # rows /\ Len(rows') <= MaxRows
  /\ made' = (IF summarize THEN made + 1 ELSE made) /\ made' <= MaxMade
  /\ UNCHANGED <<before, now, phase, retry>>

(* The session is loaded again.                                               *)
Reload == phase = "idle" /\ rows' = Replayed(rows) /\ rows' # rows /\ UNCHANGED <<before, now, made, phase, retry>>

Tick == now < MaxTime /\ now' = now + 1 /\ UNCHANGED <<rows, before, made, phase, retry>>

Next ==
  \/ (\E size \in Sizes : Prompt(size) \/ PromptAfter(size) \/ ToolResult(size)
                          \/ (\E calls, reports \in BOOLEAN : Reply(size, calls, reports)))
  \/ CompactFirst \/ Overflow \/ Compact \/ CompactionFails \/ ManualCompact
  \/ (\E n \in 1..MaxRows, summarize \in BOOLEAN : Branch(rows, n, summarize) \/ Branch(before, n, summarize)) \/ Reload \/ Tick

Spec == Init /\ [][Next]_vars

---------------------------------------------------------------------------
(* The usage that anchors the estimate was reported for exactly the messages  *)
(* the context begins with now: no compaction, branch or reload lets a reply  *)
(* speak for messages it was not made of.                                     *)
AnchorIsCurrent == Anchor(rows) > 0 => rows[Anchor(rows)].of = Ids(SubSeq(rows, 1, Anchor(rows)))
=============================================================================
