---------------------------- MODULE MCCodingSession ----------------------------
(* CodingSession with some of its environment left out, for the properties     *)
(* that only hold without it.                                                  *)
EXTENDS CodingSession

(* No run is torn down: a consumer that reads every event it asked for.        *)
UntornNext == Progress \/ User \/ TerminalCommand \/ Restart
UntornSpec == Init /\ [][UntornNext]_vars
=============================================================================
