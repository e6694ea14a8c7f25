---------------------------- MODULE TrustLedger ----------------------------
(* What project_trust.py promises of the store of trust decisions, whatever *)
(* fails inside it: a reader is given the decisions of the last update that *)
(* was reported to succeed, or an error; an update that is reported to fail *)
(* is never visible; and a store left in the middle of an update refuses    *)
(* its readers, because only a person may say what the update meant.        *)

CONSTANTS Proc,       \* the processes of the user, who share one store
          Change,     \* the updates: set, trust_parent, remove of a path
          Decisions,  \* the contents a store can have
          Apply(_, _) \* the content an update makes of a content

LedgerAssumption ==
    \A u \in Change, d \in Decisions : Apply(u, d) \in Decisions

VARIABLES ledger,  \* the decisions of the last update that succeeded
          open,    \* the store gives them to its readers
          answer   \* what each process was told last

vars == <<ledger, open, answer>>

Nothing == [kind |-> "none"]
Failed  == [kind |-> "failed"]
Done    == [kind |-> "done"]
Seen(d) == [kind |-> "seen", decisions |-> d]

Init == /\ ledger \in Decisions
        /\ open \in BOOLEAN
        /\ answer = [p \in Proc |-> Nothing]

Tell(p, a) == answer' = [answer EXCEPT ![p] = a]

Ask(p) == Tell(p, Nothing) /\ UNCHANGED <<ledger, open>>

Read(p) == open /\ Tell(p, Seen(ledger)) /\ UNCHANGED <<ledger, open>>

Update(p) == /\ open /\ open'
             /\ \E u \in Change : ledger' = Apply(u, ledger)
             /\ Tell(p, Done)

\* a failing operation changes no decision; it may leave the store closed
Refuse(p) == /\ open' \in {open, FALSE}
             /\ Tell(p, Failed)
             /\ UNCHANGED ledger

\* a process stops in the middle of an update
Close == ~open' /\ UNCHANGED <<ledger, answer>>

\* the machine stops; the update it interrupted may have left no trace
Restart == /\ open' \in BOOLEAN
           /\ answer' = [p \in Proc |-> Nothing]
           /\ UNCHANGED ledger

Next == \/ \E p \in Proc : Ask(p) \/ Read(p) \/ Update(p) \/ Refuse(p)
        \/ Close
        \/ Restart

Spec == Init /\ [][Next]_vars
=============================================================================
