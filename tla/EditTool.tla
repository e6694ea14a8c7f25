------------------------------ MODULE EditTool ------------------------------
(* The edit tool (tau_coding/tools.py): exact replacements in one text file, *)
(* all of them or none.  A text is a sequence of characters, of which "r"    *)
(* and "n" are carriage return and line feed; two calls may be in flight,    *)
(* and the file may be removed or changed by others between their steps.     *)
EXTENDS Integers, Sequences, SequencesExt, FiniteSetsExt

CONSTANTS Texts,   \* what the file may hold
          Edits,   \* the replacements a call may ask for: [old, new]
          Call,    \* the calls
          None

EditAssumption == /\ Texts \subseteq Seq(STRING)
                  /\ Edits \subseteq [old : Seq(STRING), new : Seq(STRING)]

VARIABLES file,    \* the text of the file, or None
          call     \* what each call does and found

vars == <<file, call>>

NoCall == [at |-> "no", edits |-> <<>>, found |-> None, result |-> None]

Init == /\ file \in Texts
        /\ call = [c \in Call |-> NoCall]
-----------------------------------------------------------------------------
(* str.find and str.replace for one character or the pair "r" "n".           *)
At(s, t, i) == i + Len(t) - 1 <= Len(s) /\ SubSeq(s, i, i + Len(t) - 1) = t

Places(s, t) == {i \in 1 .. Len(s) : At(s, t, i)}

Before(s, i) == IF i = 1 THEN "" ELSE s[i - 1]

\* "\r\n" and "\r" become "\n"
normalize_to_lf(s) ==
    LET upTo[k \in 0 .. Len(s)] ==
          IF k = 0 THEN <<>>
          ELSE IF s[k] = "n" /\ Before(s, k) = "r" THEN upTo[k - 1]
          ELSE Append(upTo[k - 1], IF s[k] = "r" THEN "n" ELSE s[k])
    IN  upTo[Len(s)]

\* Path.read_text opens the file with universal newlines
read_text(s) == normalize_to_lf(s)

detect_line_ending(s) ==
    LET crlf == Places(s, <<"r", "n">>)
        lf   == Places(s, <<"n">>)
    IN  IF crlf # {} /\ Min(crlf) < Min(lf) THEN <<"r", "n">> ELSE <<"n">>

restore_line_endings(s, ending) ==
    LET upTo[k \in 0 .. Len(s)] ==
          IF k = 0 THEN <<>> ELSE upTo[k - 1] \o (IF s[k] = "n" THEN ending ELSE <<s[k]>>)
    IN  upTo[Len(s)]

(* _count_occurrences: after a match the search goes on behind it.           *)
count_occurrences(s, t) ==
    LET upTo[k \in 0 .. Len(s)] ==
          IF k = 0 THEN [count |-> 0, start |-> 1]
          ELSE LET so == upTo[k - 1]
               IN  IF k >= so.start /\ At(s, t, k)
                   THEN [count |-> so.count + 1, start |-> k + Len(t)] ELSE so
    IN  upTo[Len(s)].count

Span(s, e) == [start |-> Min(Places(s, e.old)), end |-> Min(Places(s, e.old)) + Len(e.old), new |-> e.new]

\* by start; two spans that start at one place overlap
Overlap(spans) ==
    \E a, b \in DOMAIN spans : a # b /\ spans[a].start <= spans[b].start /\ spans[b].start < spans[a].end

\* the text with the span that starts at the place p replaced, if there is one
Replaced(text, spans, p) ==
    LET here == {i \in DOMAIN spans : spans[i].start = p}
        x    == spans[CHOOSE i \in here : TRUE]
    IN  IF here = {} THEN text
        ELSE SubSeq(text, 1, x.start - 1) \o x.new \o SubSeq(text, x.end, Len(text))

(* Mutant: the spans are replaced from the first to the last.                *)
SplicedForward(s, spans) ==
    LET after[k \in 0 .. Len(s)] == IF k = 0 THEN s ELSE Replaced(after[k - 1], spans, k)
    IN  after[Len(s)]

\* the spans are replaced from the last to the first
Spliced(s, spans) ==
    LET after[k \in 0 .. Len(s)] ==
          IF k = 0 THEN s ELSE Replaced(after[k - 1], spans, Len(s) + 1 - k)
    IN  after[Len(s)]

Fails(what) == [ok |-> FALSE, text |-> what]

apply_edits_to_normalized_content(s, edits) ==
    LET wanted == [i \in DOMAIN edits |-> [old |-> normalize_to_lf(edits[i].old),
                                           new |-> normalize_to_lf(edits[i].new)]]
        spans  == [i \in DOMAIN wanted |-> Span(s, wanted[i])]
    IN  IF \E i \in DOMAIN wanted : wanted[i].old = <<>> THEN Fails("empty")
        ELSE IF \E i \in DOMAIN wanted : count_occurrences(s, wanted[i].old) # 1 THEN Fails("not once")
        ELSE IF Overlap(spans) THEN Fails("overlap")
        ELSE IF Spliced(s, spans) = s THEN Fails("no change")
        ELSE [ok |-> TRUE, text |-> Spliced(s, spans)]
-----------------------------------------------------------------------------
(* The arguments are prepared and checked, and the file is there.            *)
Ask(c, edits) ==
    /\ call[c].at = "no"
    /\ call' = [call EXCEPT ![c].edits = edits,
                            ![c].at = IF edits = <<>> \/ file = None THEN "done" ELSE "asked",
                            ![c].result = IF edits = <<>> \/ file = None THEN "failed" ELSE None]
    /\ UNCHANGED file

(* Under the lock of the path, without an await: read, replace, write back.  *)
Apply(c) ==
    /\ call[c].at = "asked"
    /\ IF file = None
       THEN /\ call' = [call EXCEPT ![c].at = "done", ![c].result = "failed"]
            /\ UNCHANGED file
       ELSE LET content == read_text(file)
                ending  == detect_line_ending(content)
                new     == apply_edits_to_normalized_content(normalize_to_lf(content), call[c].edits)
            IN  /\ call' = [call EXCEPT ![c].at = "done", ![c].found = file,
                                        ![c].result = IF new.ok THEN "ok" ELSE "failed"]
                /\ file' = IF new.ok THEN restore_line_endings(new.text, ending) ELSE file

(* The write tool: arguments checked, then the text in one step under the    *)
(* same lock; missing directories are made.                                  *)
Write(c, s) == /\ call[c].at = "no"
               /\ file' = s
               /\ call' = [call EXCEPT ![c].at = "done", ![c].result = "ok"]

\* someone else removes or rewrites the file
Change(s) == /\ \E c \in Call : call[c].at = "asked"
             /\ file' = s
             /\ UNCHANGED call

Next == \/ \E c \in Call, n \in 0 .. 2 : \E edits \in [1 .. n -> Edits] : Ask(c, edits)
        \/ \E c \in Call : Apply(c) \/ \E s \in Texts : Write(c, s)
        \/ \E s \in Texts \union {None} : Change(s)

Spec == Init /\ [][Next]_vars
-----------------------------------------------------------------------------
(* What the edits mean: each old text stands at one place of the text as it  *)
(* was read, these places do not meet, and every character outside of them   *)
(* is kept while each place holds its new text.                              *)
Meant(s, edits) ==
    LET place(i) == Min(Places(s, normalize_to_lf(edits[i].old)))
        size(i)  == Len(normalize_to_lf(edits[i].old))
        part(k)  == LET here == {i \in DOMAIN edits : k \in place(i) .. place(i) + size(i) - 1}
                    IN  IF here = {} THEN <<s[k]>>
                        ELSE LET i == CHOOSE i \in here : TRUE
                             IN  IF k = place(i) THEN normalize_to_lf(edits[i].new) ELSE <<>>
    IN  FlattenSeq([k \in 1 .. Len(s) |-> part(k)])

(* A successful edit changes the file to what its replacements mean together,*)
(* however they are ordered and whatever the lengths; one that fails leaves  *)
(* the file alone.                                                           *)
EditIsMeant ==
    [][\A c \in Call : call[c].at = "asked" /\ call'[c].at = "done" =>
         IF call'[c].result = "ok"
         THEN normalize_to_lf(file') = Meant(normalize_to_lf(file), call[c].edits)
         ELSE file' = file]_vars
=============================================================================
