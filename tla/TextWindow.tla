----------------------------- MODULE TextWindow -----------------------------
(* How much of a text a tool shows (tau_coding/tools.py): truncate_head and  *)
(* truncate_tail, and a model that reads a whole file with the read tool by  *)
(* following the offsets its hints give.  A line is its number of bytes.     *)
EXTENDS Naturals, Sequences, SequencesExt, FiniteSetsExt

CONSTANTS Files,     \* the files read, each a nonempty sequence of lines
          Limits,    \* the limits a call may pass, or None
          None,
          MaxLines,  \* DEFAULT_MAX_OUTPUT_LINES
          MaxBytes   \* DEFAULT_MAX_OUTPUT_BYTES

WindowAssumption == /\ Files \subseteq Seq(Nat) \ {<<>>}
                    /\ Limits \subseteq (Nat \ {0}) \union {None} /\ None \notin Nat
                    /\ MaxLines \in Nat \ {0} /\ MaxBytes \in Nat \ {0}

VARIABLES text,    \* text.split("\n") of the file
          offset,  \* the offset of the next call
          seen,    \* line numbers shown so far, or fetched with the command a hint gives
          page,    \* the last answer
          ended    \* it gave no offset to go on with

vars == <<text, offset, seen, page, ended>>

(* The bytes of the lines, and with the newlines between them:               *)
(* len("\n".join(lines).encode()).                                           *)
Total(lines) ==
    LET upTo[n \in 0 .. Len(lines)] == IF n = 0 THEN 0 ELSE upTo[n - 1] + lines[n]
    IN  upTo[Len(lines)]
Bytes(lines) == IF lines = <<>> THEN 0 ELSE Total(lines) + (Len(lines) - 1)

(* _split_lines_for_counting: a final newline does not begin a line.         *)
Counted(lines) == IF lines # <<>> /\ Last(lines) = 0 THEN Front(lines) ELSE lines

(* Mutant: few lines are shown whole however long they are.                  *)
WholeByLines(lines) == Len(Counted(lines)) <= MaxLines

Whole(lines) == /\ Len(Counted(lines)) <= MaxLines
                /\ Bytes(lines) <= MaxBytes

(* The loops of truncate_head and truncate_tail take a line while the bytes  *)
(* so far, with the newline before it, and the number of lines allow it.     *)
Taken(lines) ==
    LET step[n \in 0 .. Len(lines)] ==
          IF n = 0 THEN [count |-> 0, bytes |-> 0, by |-> "none"]
          ELSE LET so   == step[n - 1]
                   more == lines[n] + (IF n > 1 THEN 1 ELSE 0)
               IN  IF so.by # "none" THEN so
                   ELSE IF n > MaxLines THEN [so EXCEPT !.by = "lines"]
                   ELSE IF so.bytes + more > MaxBytes THEN [so EXCEPT !.by = "bytes"]
                   ELSE [count |-> n, bytes |-> so.bytes + more, by |-> "none"]
    IN  step[Len(lines)]

(* truncate_head: count lines are kept; a first line that is too long is not *)
(* cut.                                                                      *)
Head_(lines) ==
    IF Whole(lines) THEN [count |-> Len(lines), cut |-> FALSE, long |-> FALSE]
    ELSE IF Counted(lines) # <<>> /\ lines[1] > MaxBytes
      THEN [count |-> 0, cut |-> TRUE, long |-> TRUE]
    ELSE [count |-> Taken(Counted(lines)).count, cut |-> TRUE, long |-> FALSE]

(* truncate_tail: the last lines; a last line that is too long keeps its     *)
(* last bytes.                                                               *)
Tail_(lines) ==
    LET back == Taken(Reverse(Counted(lines)))
    IN  IF Whole(lines) THEN lines
        ELSE IF back.count = 0 /\ back.by = "bytes" THEN <<MaxBytes>>
        ELSE Reverse(SubSeq(Reverse(Counted(lines)), 1, back.count))
-----------------------------------------------------------------------------
NoPage == [lines |-> <<>>, next |-> None]

Init == /\ text \in Files
        /\ offset = None /\ seen = <<>> /\ page = NoPage /\ ended = FALSE

Start == IF offset = None THEN 1 ELSE offset

Selected(limit) ==
    LET last == IF limit = None THEN Len(text) ELSE Min({Start + limit - 1, Len(text)})
    IN  SubSeq(text, Start, last)

(* The text part of the read tool's execute.  The offset a hint gives is the *)
(* line after the last one shown; of a line that is too long the hint gives  *)
(* a command, after which the reader goes on behind it.                      *)
Read(limit) ==
    /\ ~ended /\ Start <= Len(text)
    /\ LET lines == Selected(limit)
           kept  == Head_(lines)
           after == Start + (IF kept.long THEN 1 ELSE kept.count)
           next  == IF kept.cut THEN after
                    ELSE IF limit # None /\ after <= Len(text) THEN after
                    ELSE None
       IN  /\ page' = [lines |-> SubSeq(lines, 1, kept.count), next |-> next]
           /\ seen' = seen \o [n \in 1 .. after - Start |-> Start + n - 1]
           /\ offset' = next
           /\ ended' = (next = None)
    /\ UNCHANGED text

(* An offset past the end is refused, and nothing more is read.              *)
Beyond == /\ ~ended /\ Start > Len(text)
          /\ ended' = TRUE
          /\ UNCHANGED <<text, offset, seen, page>>

Next == Beyond \/ \E limit \in Limits : Read(limit)

Spec == Init /\ [][Next]_vars
-----------------------------------------------------------------------------
(* A model that follows the offsets has been shown every line of the file,   *)
(* each once and in order, when a page gives no further offset.              *)
EveryLineOnce == /\ seen = [n \in 1 .. Len(seen) |-> n]
                 /\ ended => Len(seen) = Len(text)

(* No page is larger than the limits, and the tail that a command's output   *)
(* is cut to is the longest that keeps them.                                 *)
Fits(lines) == Len(lines) <= MaxLines /\ Bytes(lines) <= MaxBytes

WithinLimits ==
    /\ Bytes(page.lines) <= MaxBytes /\ Fits(Counted(page.lines))
    /\ Bytes(Tail_(text)) <= MaxBytes /\ Fits(Counted(Tail_(text)))
    /\ \A s \in Suffixes(Counted(text)) : Fits(s) => Len(s) <= Len(Tail_(text))

(* A file is read as a whole through pages of which none is too large.       *)
PagesCoverFile == EveryLineOnce /\ WithinLimits
=============================================================================
