---------------------------- MODULE BashCommand -----------------------------
(* One command of the bash tool (tau_coding/tools.py), from its arguments to *)
(* its result: the output that ends, the timeout and the run's cancellation  *)
(* race, and the task itself may be cancelled by the interface at any await. *)
(* The command runs in a process group of its own and may start processes    *)
(* that stay in it, that redirect their output, or that leave it.            *)
EXTENDS FiniteSets

CONSTANT Child  \* processes the command may start

Leader == "shell"
LeaderAssumption == Leader \notin Child

Process == Child \union {Leader}

VARIABLES at,        \* where the call is
          timed,     \* it has a timeout
          group,     \* living processes of the group
          detached,  \* living processes that left it
          holds,     \* those that hold the pipe of the output
          comm,      \* the task of process.communicate: open, done or cancelled
          expired,   \* the timeout has passed
          signal,    \* the run is cancelled, and the watcher has seen it
          outcome    \* how the call ended

procs == <<group, detached, holds>>
vars  == <<at, timed, procs, comm, expired, signal, outcome>>

Init == /\ at = "idle" /\ timed = FALSE
        /\ group = {} /\ detached = {} /\ holds = {}
        /\ comm = "open" /\ expired = FALSE
        /\ signal = [set |-> FALSE, seen |-> FALSE]
        /\ outcome = "none"

Over(o) == at' = "over" /\ outcome' = o

(* A timeout that is not positive, or a run cancelled by now, is an error;   *)
(* otherwise the shell starts in a session of its own.                       *)
Refuse == /\ at = "idle"
          /\ Over("error")
          /\ UNCHANGED <<timed, procs, comm, expired, signal>>

Start(t) == /\ at = "idle" /\ ~signal.set
            /\ at' = "waits" /\ timed' = t
            /\ group' = {Leader} /\ holds' = {Leader}
            /\ UNCHANGED <<detached, comm, expired, signal, outcome>>

-----------------------------------------------------------------------------
(* The command.                                                              *)
Living == group \union detached

Fork(c, leaves, redirects) ==
    /\ group # {} /\ c \notin Living
    /\ IF leaves THEN detached' = detached \union {c} /\ UNCHANGED group
                 ELSE group' = group \union {c} /\ UNCHANGED detached
    /\ holds' = IF redirects THEN holds ELSE holds \union {c}
    /\ UNCHANGED <<at, timed, comm, expired, signal, outcome>>

Exit(p) == /\ p \in Living
           /\ group' = group \ {p} /\ detached' = detached \ {p} /\ holds' = holds \ {p}
           /\ UNCHANGED <<at, timed, comm, expired, signal, outcome>>

\* end of file on the pipe, and the shell was waited for
Communicated == /\ at \in {"waits", "drains"} /\ comm = "open"
                /\ holds = {} /\ Leader \notin group
                /\ comm' = "done"
                /\ UNCHANGED <<at, timed, procs, expired, signal, outcome>>
-----------------------------------------------------------------------------
Expire == /\ at = "waits" /\ timed /\ ~expired
          /\ expired' = TRUE
          /\ UNCHANGED <<at, timed, procs, comm, signal, outcome>>

Cancel == /\ at # "over" /\ ~signal.set
          /\ signal' = [signal EXCEPT !.set = TRUE]
          /\ UNCHANGED <<at, timed, procs, comm, expired, outcome>>

(* Mutant: a command with a timeout is not watched.                          *)
WatchUntimed == /\ at = "waits" /\ signal.set /\ ~signal.seen /\ ~timed
                /\ signal' = [signal EXCEPT !.seen = TRUE]
                /\ UNCHANGED <<at, timed, procs, comm, expired, outcome>>

(* _wait_for_cancel looks every 50 ms.                                       *)
Watch == /\ at = "waits" /\ signal.set /\ ~signal.seen
         /\ signal' = [signal EXCEPT !.seen = TRUE]
         /\ UNCHANGED <<at, timed, procs, comm, expired, outcome>>

(* Mutant: only the shell is killed.                                         *)
KillShell == /\ group' = group \ {Leader}
             /\ holds' = holds \ {Leader}
             /\ UNCHANGED detached

(* _kill_process_tree: SIGKILL to the group; a group that is gone is fine.   *)
Kill == /\ group' = {}
        /\ holds' = holds \ group
        /\ UNCHANGED detached

(* asyncio.wait returns with everything that is done by then: output that    *)
(* has ended wins, else the group is killed and the rest of the output read. *)
Wake == /\ at = "waits" /\ (comm = "done" \/ expired \/ signal.seen)
        /\ IF comm = "done"
           THEN Over("exited") /\ UNCHANGED procs
           ELSE at' = "drains" /\ Kill /\ UNCHANGED outcome
        /\ UNCHANGED <<timed, comm, expired, signal>>

Drained == /\ at = "drains" /\ comm # "open"
           /\ Over(IF signal.seen THEN "cancelled" ELSE "timed out")
           /\ UNCHANGED <<timed, procs, comm, expired, signal>>

(* The task of the call is cancelled.  While the rest of the output is read  *)
(* the cancellation goes to the reader, whose end is taken for an answer.    *)
Abort == /\ \/ /\ at = "waits"
               /\ Kill /\ Over("aborted")
            \/ /\ at = "drains"
               /\ Over(IF signal.seen THEN "cancelled" ELSE "timed out")
               /\ UNCHANGED procs
         /\ comm' = IF comm = "open" THEN "cancelled" ELSE comm
         /\ UNCHANGED <<timed, expired, signal>>

Next == \/ Refuse
        \/ \E t \in BOOLEAN : Start(t)
        \/ \E c \in Child, leaves, redirects \in BOOLEAN : Fork(c, leaves, redirects)
        \/ \E p \in Process : Exit(p)
        \/ Communicated \/ Expire \/ Cancel \/ Watch \/ Wake \/ Drained \/ Abort

Fairness == WF_vars(Communicated) /\ WF_vars(Watch) /\ WF_vars(Wake) /\ WF_vars(Drained)

Spec == Init /\ [][Next]_vars /\ Fairness
-----------------------------------------------------------------------------
(* website/content/reference/tools.md:116: a timeout kills the whole process *)
(* group.  Nothing of the group runs on after the timeout, a cancelled run   *)
(* or a cancelled task ended the call, whatever it started meanwhile.        *)
GroupIsGone == outcome \in {"timed out", "cancelled", "aborted"} => group = {}

(* The output of a call that reports the end of its command is all of it,    *)
(* and a timeout or a cancellation is reported only if there was one.        *)
OutcomeIsTrue == /\ outcome = "exited" => comm = "done"
                 /\ outcome = "timed out" => expired
                 /\ outcome = "cancelled" => signal.set

(* A command whose timeout has passed, or whose run is cancelled, ends, if   *)
(* no process that left the group keeps the pipe open.                       *)
CallEnds == (at = "waits" /\ (expired \/ signal.set)) ~> (at = "over" \/ holds \intersect detached # {})

(* However output, timeout, cancellation and abort race, a call that ended   *)
(* left nothing of its group behind and says what happened.                  *)
CallIsOver == GroupIsGone /\ OutcomeIsTrue
=============================================================================
