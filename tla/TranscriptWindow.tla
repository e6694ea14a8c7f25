--------------------------- MODULE TranscriptWindow ---------------------------
(* The mounted rows of the transcript (tau_coding/tui/widgets.py,             *)
(* TranscriptView): a window of the items, extended as events arrive, moved   *)
(* as the reader scrolls, and rebuilt at once by a refresh.  Rows are put in  *)
(* their place when mount is called; awaiting it only waits for the screen.   *)
EXTENDS Naturals, Sequences, SequencesExt

CONSTANTS Window, Page, Overscan,   \* TRANSCRIPT_WINDOW_ITEMS, _PAGE_ITEMS, _OVERSCAN_ITEMS
          MaxItems,                 \* bound: items a transcript grows to
          MaxMade                   \* bound: items ever made, replaced ones included

WindowAssumption == Window \in Nat \ {0} /\ Page \in 1..Window /\ Overscan \in Nat

VARIABLES items,      \* [id, thinking]: the state's items
          made,       \* items made so far
          rows,       \* [of, thinking, active]: mounted rows; of is 0 while streaming
          first, end, \* the window: items first + 1 .. end
          follow,     \* _follow_output
          atEnd,      \* whether the view is scrolled to its end
          shift,      \* the window shift that is scheduled
          show,       \* show_thinking
          takes,      \* which streaming rows take fragments
          placeholder,\* _hidden_thinking_placeholder_visible
          phase, start, said,  \* the message that streams, and its blocks
          stale       \* the rows were extended while the reader was elsewhere,
                      \* or rebuilt under a streaming message

reader == <<follow, atEnd, shift, show>>
stream == <<phase, start, said>>
vars == <<items, made, rows, first, end, reader, takes, placeholder, stream, stale>>

Least(a, b) == IF a < b THEN a ELSE b
Less(a, b) == IF a > b THEN a - b ELSE 0

Init == /\ items = <<>> /\ made = 0 /\ rows = <<>> /\ first = 0 /\ end = 0
        /\ follow = TRUE /\ atEnd = TRUE /\ shift = "none" /\ show \in BOOLEAN
        /\ takes = {} /\ placeholder = FALSE
        /\ phase = "idle" /\ start = 0 /\ said = <<>> /\ stale = FALSE

Streaming == phase = "streaming"
ShouldFollow == follow \/ atEnd
Latest == end >= Len(items)
Row(item) == [of |-> item.id, thinking |-> item.thinking, active |-> FALSE]
StreamRow(thinking) == [of |-> 0, thinking |-> thinking, active |-> TRUE]

(* The rows of a stretch of items: hidden thinking in a row is one row.       *)
Shows(its, k, visible) == visible \/ ~its[k].thinking \/ k = 1 \/ ~its[k - 1].thinking
RowsOf(its, visible) ==
  LET upTo[k \in 0 .. Len(its)] ==
        IF k = 0 THEN <<>>
        ELSE IF Shows(its, k, visible) THEN Append(upTo[k - 1], Row(its[k])) ELSE upTo[k - 1]
  IN  upTo[Len(its)]

\* the rows of rs that are in a set
Among(rs, S) ==
  LET upTo[k \in 0 .. Len(rs)] ==
        IF k = 0 THEN <<>>
        ELSE IF rs[k] \in S THEN Append(upTo[k - 1], rs[k]) ELSE upTo[k - 1]
  IN  upTo[Len(rs)]

---------------------------------------------------------------------------
(* _redraw: every row is dropped and the window is mounted anew.              *)
Redraw(its, keep, a, b, typing) ==
  LET total == Len(its)
      e == IF keep /\ b > a THEN Least(b, total) ELSE total
      f == IF keep /\ b > a THEN (IF e - Least(a, e) > Window THEN e - Window ELSE Least(a, e))
           ELSE Less(total, Window)
      tail == e = total /\ typing
  IN /\ first' = f /\ end' = e
     /\ rows' = RowsOf(SubSeq(its, f + 1, e), show) \o (IF tail THEN <<StreamRow(FALSE)>> ELSE <<>>)
     /\ takes' = IF tail THEN {"text"} ELSE {}
     /\ placeholder' = (e = total /\ e > f /\ its[e].thinking /\ ~show)

(* append_item of the last item of its; forced for what the user sends.       *)
AppendItem(its, forced) ==
  LET index == Len(its) - 1
      followed == forced \/ ShouldFollow
      grown == index + 1
  IN /\ follow' = (follow \/ forced) /\ atEnd' = followed
     /\ UNCHANGED <<shift, show>>
     /\ IF end < index /\ followed THEN Redraw(its, FALSE, first, end, FALSE)
        ELSE IF index > end THEN
          /\ rows' = [i \in DOMAIN rows |-> [rows[i] EXCEPT !.active = FALSE]]
          /\ takes' = {} /\ UNCHANGED <<first, end, placeholder>>
        ELSE IF grown - first > Window + Overscan
             THEN Redraw(its, TRUE, Less(grown, Window), grown, FALSE)
        ELSE /\ end' = grown /\ takes' = {} /\ placeholder' = FALSE
             /\ rows' = Append([i \in DOMAIN rows |-> [rows[i] EXCEPT !.active = FALSE]],
                               Row(its[Len(its)]))
             /\ UNCHANGED first

(* A user's message (forced), a tool's row or a status line.                  *)
Item(forced) ==
  /\ ~Streaming /\ Len(items) < MaxItems /\ made < MaxMade
  /\ LET its == Append(items, [id |-> made + 1, thinking |-> FALSE])
     IN  items' = its /\ AppendItem(its, forced)
  /\ made' = made + 1 /\ phase' = "asked"
  /\ stale' = IF end < Len(items) /\ (forced \/ ShouldFollow) THEN FALSE
              ELSE stale \/ ~(forced \/ ShouldFollow) \/ end < Len(items)
  /\ UNCHANGED <<start, said>>

---------------------------------------------------------------------------
(* A streamed message: rows of its own until it ends.                         *)
MessageStart ==
  /\ phase = "asked" /\ phase' = "streaming" /\ start' = Len(items) /\ said' = <<>>
  /\ UNCHANGED <<items, made, rows, first, end, reader, takes, placeholder, stale>>

Said(block) == IF said # <<>> /\ said[Len(said)] = block THEN said ELSE Append(said, block)

(* A streamed thinking row goes above the streamed text.                      *)
Mounted(row) ==
  IF "text" \in takes
  THEN LET i == CHOOSE j \in DOMAIN rows : rows[j] = StreamRow(FALSE) IN InsertAt(rows, i, row)
  ELSE Append(rows, row)

TextDelta ==
  /\ Streaming /\ Len(said) < 2 /\ said' = Said("text")
  /\ IF Latest
     THEN /\ takes' = {"text"} \union (IF "text" \in takes THEN takes ELSE {})
          /\ rows' = IF "text" \in takes THEN rows ELSE Append(rows, StreamRow(FALSE))
          /\ atEnd' = ShouldFollow
     ELSE UNCHANGED <<takes, rows, atEnd>>
  /\ UNCHANGED <<items, made, first, end, follow, shift, show, placeholder, phase, start, stale>>

ThinkingDelta ==
  /\ Streaming /\ Len(said) < 2 /\ said' = Said("thinking")
  /\ LET new == ~\E i \in (start + 1)..Len(items) : items[i].thinking
         total == Len(items) + (IF new THEN 1 ELSE 0)
     IN /\ new => made < MaxMade
        /\ items' = IF new THEN Append(items, [id |-> made + 1, thinking |-> TRUE]) ELSE items
        /\ made' = IF new THEN made + 1 ELSE made
        /\ IF end < Less(total, 1) THEN UNCHANGED <<rows, end, takes, placeholder, atEnd>>
           ELSE /\ end' = total /\ atEnd' = ShouldFollow
                /\ placeholder' = ~show
                /\ rows' = IF (show /\ "thinking" \in takes) \/ (~show /\ placeholder)
                           THEN rows ELSE Mounted(StreamRow(TRUE))
                /\ takes' = IF show THEN takes \union {"thinking"}
                            ELSE IF placeholder THEN takes ELSE takes \ {"thinking"}
  /\ UNCHANGED <<first, follow, shift, show, phase, start, stale>>

(* The provisional items are replaced by the message's blocks.                *)
Ended == SubSeq(items, 1, start) \o
           [i \in DOMAIN said |-> [id |-> made + i, thinking |-> said[i] = "thinking"]]

(* Mutant: the streamed rows stay above the blocks.                           *)
FinishStructuredKeeping(its) ==
  LET blocks == RowsOf(SubSeq(its, start + 1, Len(its)), show)
      total == Len(its)
  IN /\ IF total - first > Window + Overscan
        THEN Redraw(its, TRUE, Less(total, Window), total, FALSE)
        ELSE /\ rows' = rows \o blocks /\ end' = total /\ takes' = {}
             /\ placeholder' = (its[total].thinking /\ ~show)
             /\ UNCHANGED first
     /\ atEnd' = ShouldFollow /\ UNCHANGED <<follow, shift, show>>

(* finish_structured_assistant_message: the active rows make way for the      *)
(* blocks; the window is taken to reach the last item.                        *)
FinishStructured(its) ==
  LET left == Among(rows, {r \in Range(rows) : ~r.active})
      blocks == RowsOf(SubSeq(its, start + 1, Len(its)), show)
      total == Len(its)
  IN /\ IF total - first > Window + Overscan
        THEN Redraw(its, TRUE, Less(total, Window), total, FALSE)
        ELSE /\ rows' = left \o blocks /\ end' = total /\ takes' = {}
             /\ placeholder' = (its[total].thinking /\ ~show)
             /\ UNCHANGED first
     /\ atEnd' = ShouldFollow /\ UNCHANGED <<follow, shift, show>>

(* finish_assistant_message: the streamed row becomes the item's.             *)
FinishText(its) ==
  IF "text" \in takes
  THEN /\ rows' = [i \in DOMAIN rows |->
                     IF rows[i] = StreamRow(FALSE) THEN Row(its[Len(its)]) ELSE rows[i]]
       /\ takes' = takes \ {"text"} /\ placeholder' = FALSE
       /\ UNCHANGED <<first, end, reader>>
  ELSE AppendItem(its, FALSE)

MessageEnd ==
  /\ Streaming /\ said # <<>> /\ start + Len(said) <= MaxItems /\ made + Len(said) <= MaxMade
  /\ items' = Ended /\ made' = made + Len(said) /\ phase' = "idle" /\ start' = 0 /\ said' = <<>>
  /\ IF said = <<"text">> THEN FinishText(Ended) ELSE FinishStructured(Ended)
  /\ stale' = (stale \/ ~ShouldFollow \/ end < Len(items))

(* update_from_state, _refresh: a reader who does not follow keeps the window.*)
UpdateFromState(its, typing) ==
  LET retained == \E r \in Range(rows), i \in DOMAIN its : r.of = its[i].id
      followed == ShouldFollow \/ ~retained
  IN /\ follow' = (follow \/ ~retained) /\ atEnd' = followed /\ UNCHANGED <<shift, show>>
     /\ Redraw(its, retained /\ ~followed, first, end, typing)

(* A message that failed shows its blocks and an error, by a refresh.         *)
MessageFails ==
  /\ Streaming /\ start < MaxItems /\ made < MaxMade
  /\ LET its == Append(SubSeq(items, 1, start), [id |-> made + 1, thinking |-> FALSE])
     IN  items' = its /\ UpdateFromState(its, FALSE)
  /\ made' = made + 1 /\ phase' = "idle" /\ start' = 0 /\ said' = <<>> /\ stale' = FALSE

Refresh ==
  /\ items # <<>> /\ UpdateFromState(items, Streaming /\ Contains(said, "text"))
  /\ stale' = Streaming
  /\ UNCHANGED <<items, made, stream>>

---------------------------------------------------------------------------
(* The reader scrolls, watch_scroll_y; a shift is scheduled near an edge.     *)
ScrollUp(toTop) ==
  /\ follow' = FALSE /\ atEnd' = FALSE /\ rows # <<>>
  /\ shift' = IF toTop /\ first > 0 /\ shift = "none" THEN "earlier" ELSE shift
  /\ UNCHANGED <<items, made, rows, first, end, show, takes, placeholder, stream, stale>>

ScrollToEnd ==
  /\ ~follow /\ rows # <<>> /\ atEnd' = TRUE /\ follow' = Latest
  /\ shift' = IF ~Latest /\ shift = "none" THEN "later" ELSE shift
  /\ UNCHANGED <<items, made, rows, first, end, show, takes, placeholder, stream, stale>>

Shift(direction) ==
  /\ shift = direction
  /\ LET earlier == direction = "earlier"
         moves == IF earlier THEN first > 0 ELSE end < Len(items)
         f == IF earlier THEN Less(first, Page)
              ELSE Less(Least(Len(items), end + Page), Window)
         e == IF earlier THEN Least(Len(items), f + Window)
              ELSE Least(Len(items), end + Page)
     IN IF moves
        THEN /\ shift' = "anchoring" /\ atEnd' = FALSE /\ stale' = Streaming
             /\ Redraw(items, TRUE, f, e, Streaming /\ Contains(said, "text"))
        ELSE /\ shift' = "none" /\ UNCHANGED <<rows, first, end, takes, placeholder, atEnd, stale>>
  /\ UNCHANGED <<items, made, follow, show, stream>>

(* restore_anchor scrolls to the anchor, away from where the view was.        *)
RestoreAnchor == /\ shift = "anchoring" /\ shift' = "none"
                 /\ follow' = FALSE /\ atEnd' = FALSE
                 /\ UNCHANGED <<items, made, rows, first, end, show, takes,
                                placeholder, stream, stale>>

(* update_thinking_visibility: thinking rows are dropped and mounted again.   *)
(* Those of the item k wait for the row of the next item that has one; the    *)
(* rows that are passed in the search for it, n so far, are not searched      *)
(* again.                                                                     *)
Replaced(its, others, so, k) ==
  LET hits == {j \in so.n + 1 .. Len(others) : others[j].of = its[k].id}
      hit == CHOOSE j \in hits : \A i \in hits : j <= i
      to(n) == SubSeq(others, so.n + 1, n)
  IN IF its[k].thinking
     THEN [so EXCEPT !.pending = IF Shows(its, k, ~show) THEN Append(@, Row(its[k])) ELSE @]
     ELSE IF hits = {}
     THEN [so EXCEPT !.placed = @ \o to(Len(others)), !.n = Len(others)]
     ELSE [n |-> hit, pending |-> <<>>,
           placed |-> so.placed \o to(hit - 1) \o so.pending \o <<others[hit]>>]

Remounted(its, others) ==
  LET upTo[k \in 0 .. Len(its)] ==
        IF k = 0 THEN [n |-> 0, placed |-> <<>>, pending |-> <<>>]
        ELSE Replaced(its, others, upTo[k - 1], k)
      over == upTo[Len(its)]
  IN  over.placed \o SubSeq(others, over.n + 1, Len(others)) \o over.pending

ToggleThinking ==
  LET again == Remounted(SubSeq(items, first + 1, end),
                         Among(rows, {r \in Range(rows) : ~r.thinking}))
  IN /\ show' = ~show /\ rows' = again
     /\ takes' = takes \ {"thinking"}
     /\ placeholder' = (again # <<>> /\ show /\ again[Len(again)].thinking)
     /\ stale' = (stale \/ Streaming)
     /\ UNCHANGED <<items, made, first, end, follow, atEnd, shift, stream>>

Next == \/ (\E forced \in BOOLEAN : Item(forced)) \/ MessageStart \/ TextDelta \/ ThinkingDelta
        \/ MessageEnd \/ MessageFails \/ Refresh
        \/ (\E toTop \in BOOLEAN : ScrollUp(toTop)) \/ ScrollToEnd
        \/ (\E d \in {"earlier", "later"} : Shift(d)) \/ RestoreAnchor \/ ToggleThinking

Spec == Init /\ [][Next]_vars

---------------------------------------------------------------------------
Of(rs) == [i \in DOMAIN rs |-> rs[i].of]

(* Between messages the rows are the items of the window, each once and in    *)
(* order, up to the last item when the reader follows, and never many more    *)
(* than a window: unless items came while the reader was elsewhere, or the    *)
(* rows were rebuilt while a message streamed.                                *)
WindowIsMounted ==
  ~Streaming /\ ~stale =>
    \E e \in {end, Len(items)} :
      /\ Of(rows) = Of(RowsOf(SubSeq(items, first + 1, e), show))
      /\ follow /\ shift # "anchoring" => e = Len(items)
      /\ e - first <= Window + Overscan + 1
=============================================================================
