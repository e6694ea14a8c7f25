----------------------------- MODULE OAuthLogin -----------------------------
(* The two login flows of the subscription providers, one after another in   *)
(* the login screen of the interface.  The browser flow (oauth.py,           *)
(* oauth_anthropic.py) races the callback server's thread against a pasted   *)
(* answer and falls back to a prompt.  The device flow (oauth_device.py,     *)
(* oauth_github_copilot.py) polls until a deadline.  A code is the number of *)
(* the flow whose page issued it, so that a browser tab of an abandoned flow *)
(* may still answer; the exchange for tokens is one step.                    *)
EXTENDS Naturals

CONSTANTS None,
          MaxFlows,  \* bound: logins started
          MaxTime    \* bound: when a device code expires at the latest

LoginAssumption == MaxFlows \in Nat /\ MaxTime \in Nat /\ None \notin Nat

Flow  == 1 .. MaxFlows
Input == [code : Flow \union {None}, state : Flow \union {None}]

VARIABLES flow,    \* the login in progress or the last one
          at,      \* where it is
          server,  \* its callback server listens
          future,  \* the server's future: open, set to a code, or closed
          posted,  \* codes the server's threads have handed to the event loop
          typed,   \* the last answer submitted in the screen, or None
          used,    \* the answer whose code is exchanged, or None
          clock,   \* time since the device code was issued
          device   \* the device flow: deadline, interval and last poll

browser == <<server, future, posted, typed, used>>
timing  == <<clock, device>>
vars    == <<flow, at, browser, timing>>

NoDevice == [deadline |-> 0, interval |-> 1, polled |-> 0, due |-> 0, early |-> FALSE]

Open   == [is |-> "open", code |-> None]
Closed == [is |-> "closed", code |-> None]
IsSet  == future.is = "set"

Init == /\ flow = 0 /\ at = "over"
        /\ server = FALSE /\ future = Closed /\ posted = {}
        /\ typed = None /\ used = None
        /\ clock = 0 /\ device = NoDevice

(* A login starts with a fresh screen; the server gets its port or not.      *)
StartBrowser ==
    /\ at = "over" /\ flow < MaxFlows
    /\ flow' = flow + 1 /\ at' = "waits"
    /\ server' \in BOOLEAN
    /\ future' = IF server' THEN Open ELSE Closed
    /\ posted' = {} /\ typed' = None /\ used' = None
    /\ UNCHANGED timing

(* do_GET, in a thread of the server: the state must be this flow's, and the *)
(* code goes to the loop unless the future is done by now.                   *)
Callback(f) ==
    /\ server
    /\ posted' = IF f = flow /\ future = Open THEN posted \union {f} ELSE posted
    /\ UNCHANGED <<flow, at, server, future, typed, used, timing>>

\* the loop sets the future; one that is done already raises, which is logged
Deliver == /\ posted # {}
           /\ \E f \in posted : future' = IF future = Open THEN [is |-> "set", code |-> f] ELSE future
           /\ posted' = {}
           /\ UNCHANGED <<flow, at, server, typed, used, timing>>

(* on_input_submitted: what is typed stays the answer to every prompt until  *)
(* something else is submitted.                                              *)
Submit(v) == /\ at \in {"waits", "prompts", "exchanges"}
             /\ typed' = v
             /\ UNCHANGED <<flow, at, server, future, posted, used, timing>>

(* Mutant: the server is not closed.                                         *)
LeaveListening(l) == at' = l /\ UNCHANGED <<server, future>>

(* Leaving the login closes its server and the future it waits for.          *)
Leave(l) == /\ at' = l
            /\ server' = FALSE /\ future' = Closed

(* parse_authorization_input and _validate_state.                            *)
Accepted(v) == v.state \in {None, flow}

Take(v, otherwise) ==
    IF ~Accepted(v) THEN Leave("over") /\ UNCHANGED used
    ELSE IF v.code = None /\ otherwise = "over" THEN Leave("over") /\ UNCHANGED used
    ELSE IF v.code = None THEN at' = "prompts" /\ UNCHANGED <<server, future, used>>
    ELSE at' = "exchanges" /\ used' = v /\ UNCHANGED <<server, future>>

(* _wait_for_authorization_code: whichever is done first, either if both     *)
(* are; the wait for the other is cancelled.                                 *)
FirstAnswer ==
    /\ at = "waits"
    /\ \/ /\ IsSet
          /\ at' = "exchanges"
          /\ used' = [code |-> future.code, state |-> flow]
          /\ UNCHANGED <<server, future>>
       \/ /\ typed # None
          /\ Take(typed, "prompts")
    /\ UNCHANGED <<flow, posted, typed, timing>>

(* on_prompt: answered at once if something was typed.                       *)
PromptAnswered == /\ at = "prompts" /\ typed # None
                  /\ Take(typed, "over")
                  /\ UNCHANGED <<flow, posted, typed, timing>>

\* the exchange succeeds or fails, or the user goes back or closes the screen
Exchanged == /\ at = "exchanges"
             /\ Leave("over")
             /\ UNCHANGED <<flow, posted, typed, used, timing>>

Abandon == /\ at # "over"
           /\ Leave("over")
           /\ UNCHANGED <<flow, posted, typed, used, timing>>

(* The device flow waits one interval before it polls for the first time.    *)
Soonest(wait) == IF clock + wait <= device.deadline THEN clock + wait ELSE device.deadline

StartDevice(deadline, interval) ==
    /\ at = "over" /\ flow < MaxFlows
    /\ flow' = flow + 1 /\ at' = "polling"
    /\ clock' = 0
    /\ device' = [deadline |-> deadline, interval |-> interval, polled |-> 0, early |-> FALSE,
                  due |-> IF interval <= deadline THEN interval ELSE deadline]
    /\ typed' = None /\ used' = None
    /\ UNCHANGED <<server, future, posted>>

(* poll_oauth_device_code: the answer to a poll, pending or slow_down, may   *)
(* change the interval.                                                      *)
Poll(interval) ==
    /\ at = "polling" /\ device.due <= clock /\ clock < device.deadline
    /\ device' = [device EXCEPT !.interval = interval,
                                !.polled = clock,
                                !.early = clock - device.polled < device.interval,
                                !.due = Soonest(interval)]
    /\ UNCHANGED <<flow, at, browser, clock>>

DeviceEnds == /\ at = "polling"
              /\ \/ device.due <= clock
                 \/ clock >= device.deadline
              /\ at' = "over"
              /\ UNCHANGED <<flow, browser, timing>>

Tick == /\ at = "polling" /\ clock < device.deadline
        /\ clock' = clock + 1
        /\ UNCHANGED <<flow, at, browser, device>>

Next == \/ StartBrowser
        \/ \E f \in Flow : f <= flow /\ Callback(f)
        \/ Deliver
        \/ \E v \in Input : Submit(v)
        \/ FirstAnswer \/ PromptAnswered \/ Exchanged \/ Abandon
        \/ \E deadline \in 1 .. MaxTime, interval \in 1 .. 2 : StartDevice(deadline, interval)
        \/ \E interval \in 1 .. 3 : Poll(interval)
        \/ DeviceEnds \/ Tick

Spec == Init /\ [][Next]_vars
FairSpec == Spec /\ WF_vars(Tick) /\ WF_vars(DeviceEnds)
-----------------------------------------------------------------------------
(* A code that arrives at the callback server, or is pasted with its state,  *)
(* is exchanged in the flow that asked for it only: a tab left open by an    *)
(* abandoned login never completes a later one.                              *)
CodeOfThisFlow == /\ IsSet => future.code = flow
                  /\ at = "exchanges" => used.state \in {None, flow}

(* The port of the callback server is free again when the login is over,     *)
(* however it ended, and nothing waits for it.                               *)
ServerCloses == at = "over" => ~server /\ future = Closed

(* No poll comes sooner after the last one than the interval the server      *)
(* asked for.                                                                *)
PollsArePaced == ~device.early

(* What a login leaves to the next one, whichever of the server, the pasted  *)
(* answer, the poll and the user is first: no code, no port and no waiter,   *)
(* and no poll sooner than the server asked for.                             *)
LoginIsItsOwn == CodeOfThisFlow /\ ServerCloses /\ PollsArePaced
=============================================================================
