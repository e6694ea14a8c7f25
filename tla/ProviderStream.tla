--------------------------- MODULE ProviderStream ---------------------------
(* One streamed request to a model, through each of the provider adapters of *)
(* tau_ai: requests and their retries, the chunks of a response read until   *)
(* it ends, fails or breaks off, the run's cancellation, and the events that *)
(* reach the agent loop.  The server's answers are all those its protocol    *)
(* allows; a piece of content is named by its attempt and its place.         *)
EXTENDS CanonicalStream, FiniteSets, SequencesExt

CONSTANTS Providers,   \* the adapters: "chat", "responses", "codex", "anthropic", "mistral", "google"
          MaxRetries,  \* config.max_retries
          MaxChunks    \* bound: chunks of one response

ProvidersAssumption ==
    Providers \subseteq {"chat", "responses", "codex", "anthropic", "mistral", "google"}

VARIABLES provider, at, attempt, cancelled,
          sent,    \* the chunks of this attempt's response
          parser,  \* what the adapter keeps of them
          stream   \* the generator of CanonicalStream

vars == <<provider, at, attempt, cancelled, sent, parser, stream>>

NewParser == [content |-> FALSE, thinking |-> FALSE, tools |-> <<>>]

Init == /\ provider \in Providers
        /\ at = "request" /\ attempt = 0 /\ cancelled = FALSE
        /\ sent = <<>> /\ parser = NewParser /\ stream = Fresh

Piece == <<attempt, Len(sent) + 1>>

\* the pieces of tool k's arguments
Opened == Cardinality({i \in DOMAIN sent : sent[i].is = "tool"})
Open(k) == ~\E i \in DOMAIN sent : sent[i] = [is |-> "tool end", tool |-> k]

Chunks == [is : {"text", "thinking", "transient error", "error", "junk", "end"}]
          \union {[is |-> "tool", tool |-> Opened + 1]}
          \union [is : {"arguments", "tool end"}, tool : {k \in 1 .. Opened : Open(k)}]
-----------------------------------------------------------------------------
(* What the parsers make of a chunk: the parser after it, the events, and    *)
(* whether the adapter stops to read: not, at its end, or with an error.     *)
Reads(p, events)   == [parser |-> p, events |-> events, stops |-> "no"]
AtEnd(p)           == [parser |-> p, events |-> <<>>, stops |-> "end"]
Fails(p, again)    == [parser |-> p, events |-> <<>>, stops |-> IF again THEN "transient" ELSE "error"]

\* the builder of a tool gets one more piece
Built(p, k) == [p EXCEPT !.tools[k] = Append(@, Piece)]
NewTool(p)  == [p EXCEPT !.tools = Append(@, <<>>)]
Emitted(p)  == [p EXCEPT !.content = TRUE]

(* Mutant: what was said does not forbid a retry.                            *)
SaidOnly(p, c) == Reads(p, << [is |-> c.is, piece |-> Piece] >>)

Said(p, c) == Reads(IF c.is = "text" THEN Emitted(p)
                    ELSE [p EXCEPT !.thinking = TRUE, !.content = @ \/ provider # "codex"],
                    << [is |-> c.is, piece |-> Piece] >>)

ChatFeed(p, c) ==
    CASE c.is \in {"text", "thinking"} -> Said(p, c)
      [] c.is = "tool"                 -> Reads(Emitted(NewTool(p)), <<>>)
      [] c.is = "arguments"            -> Reads(Emitted(Built(p, c.tool)), <<>>)
      [] c.is = "junk"                 -> Fails(p, FALSE)
      [] c.is = "end"                  -> AtEnd(p)
      [] OTHER                         -> Reads(p, <<>>)

MistralFeed(p, c) == IF c.is = "junk" THEN Reads(p, <<>>) ELSE ChatFeed(p, c)

ResponsesFeed(p, c) ==
    CASE c.is \in {"text", "thinking"}           -> Said(p, c)
      [] c.is = "tool"                           -> Reads(NewTool(p), <<>>)
      [] c.is = "arguments"                      -> Reads(Emitted(Built(p, c.tool)), <<>>)
      [] c.is \in {"error", "transient error"}   -> Fails(p, FALSE)
      [] c.is = "end"                            -> AtEnd(p)
      [] OTHER                                   -> Reads(p, <<>>)

CodexFeed(p, c) ==
    CASE c.is \in {"text", "thinking"}           -> Said(p, c)
      [] c.is = "tool"                           -> Reads(NewTool(p), <<>>)
      [] c.is = "arguments"                      -> Reads(Built(p, c.tool), <<>>)
      [] c.is = "tool end"                       -> Reads(Emitted(p), << [is |-> "tool_call", pieces |-> p.tools[c.tool]] >>)
      [] c.is \in {"error", "transient error"}   ->
           Fails(p, c.is = "transient error" /\ ~p.content /\ ~p.thinking /\ attempt < MaxRetries)
      [] c.is = "end"                            -> AtEnd(p)
      [] OTHER                                   -> Reads(p, <<>>)

\* the message_stop of the protocol is not looked at: the body ends
AnthropicFeed(p, c) ==
    CASE c.is \in {"text", "thinking"}           -> Said(p, c)
      [] c.is = "tool"                           -> Reads(Emitted(NewTool(p)), <<>>)
      [] c.is = "arguments"                      -> Reads(Emitted(Built(p, c.tool)), <<>>)
      [] c.is \in {"error", "transient error"}   ->
           Fails(p, c.is = "transient error" /\ ~p.content /\ attempt < MaxRetries)
      [] c.is = "junk"                           -> Fails(p, FALSE)
      [] OTHER                                   -> Reads(p, <<>>)

\* a function call comes whole
GoogleFeed(p, c) ==
    CASE c.is \in {"text", "thinking"} -> Said(p, c)
      [] c.is = "tool"                 -> Reads(Emitted(p), << [is |-> "tool_call", pieces |-> <<Piece>>] >>)
      [] OTHER                         -> Reads(p, <<>>)

Feed(p, c) == CASE provider = "chat"      -> ChatFeed(p, c)
                [] provider = "mistral"   -> MistralFeed(p, c)
                [] provider = "responses" -> ResponsesFeed(p, c)
                [] provider = "codex"     -> CodexFeed(p, c)
                [] provider = "anthropic" -> AnthropicFeed(p, c)
                [] provider = "google"    -> GoogleFeed(p, c)

(* finalize: the tool calls that were built, in their order, then the end.   *)
Finalize(p) ==
    LET calls == IF provider \in {"codex", "google"} THEN <<>>
                 ELSE [k \in DOMAIN p.tools |-> [is |-> "tool_call", pieces |-> p.tools[k]]]
    IN  Append(calls, [is |-> "response_end"])
-----------------------------------------------------------------------------
Over(s) == at' = "over" /\ stream' = Exhausted(s)

(* Mutant: attempts are not counted.                                         *)
AgainUncounted == /\ at' = "backoff"
                  /\ sent' = <<>> /\ parser' = NewParser
                  /\ stream' = Canonical(stream, [is |-> "retry"])
                  /\ UNCHANGED attempt

\* the next attempt starts with a new parser, after a pause
Again == /\ attempt' = attempt + 1
         /\ at' = "backoff"
         /\ sent' = <<>> /\ parser' = NewParser
         /\ stream' = Canonical(stream, [is |-> "retry"])

GivesUp(s) == Over(Canonical(s, [is |-> "error"])) /\ UNCHANGED <<attempt, sent, parser>>

(* An answer with an error status: retried if it may pass, else an error.    *)
Refused(transient) ==
    /\ at = "request"
    /\ IF transient /\ attempt < MaxRetries THEN Again ELSE GivesUp(stream)
    /\ UNCHANGED <<provider, cancelled>>

(* The resolver of a login's credentials fails: Codex, which asks it for     *)
(* every attempt, reports it, elsewhere it raises through the stream.        *)
Unauthorized ==
    /\ at = "request"
    /\ \/ provider = "codex" /\ GivesUp(stream)
       \/ /\ provider \in {"chat", "responses", "anthropic"} /\ attempt = 0
          /\ at' = "raised"
          /\ UNCHANGED <<attempt, sent, parser, stream>>
    /\ UNCHANGED <<provider, cancelled>>

Accepted == /\ at = "request"
            /\ at' = "body"
            /\ stream' = Canonical(stream, [is |-> "response_start"])
            /\ UNCHANGED <<provider, attempt, cancelled, sent, parser>>

(* A chunk of the body, unless the run is cancelled, which returns.          *)
Chunk(c) ==
    /\ at = "body" /\ Len(sent) < MaxChunks
    /\ LET r == Feed(parser, c)
           s == CanonicalAll(stream, r.events)
       IN  IF cancelled
           THEN Over(stream) /\ UNCHANGED <<attempt, sent, parser>>
           ELSE CASE r.stops = "no"        -> /\ sent' = Append(sent, c)
                                              /\ parser' = r.parser /\ stream' = s
                                              /\ UNCHANGED <<at, attempt>>
                  [] r.stops = "end"       -> /\ Over(CanonicalAll(stream, Finalize(r.parser)))
                                              /\ UNCHANGED <<attempt, sent, parser>>
                  [] r.stops = "error"     -> GivesUp(stream)
                  [] r.stops = "transient" -> Again
    /\ UNCHANGED <<provider, cancelled>>

(* The body ends, with or without the protocol's end.                        *)
BodyEnds == /\ at = "body"
            /\ Over(CanonicalAll(stream, Finalize(parser)))
            /\ UNCHANGED <<provider, attempt, cancelled, sent, parser>>

(* A connection that fails, breaks off or times out.                         *)
Breaks == /\ at \in {"request", "body"}
          /\ IF ~parser.content /\ attempt < MaxRetries THEN Again ELSE GivesUp(stream)
          /\ UNCHANGED <<provider, cancelled>>

(* wait_for_retry.                                                           *)
Waited == /\ at = "backoff"
          /\ IF cancelled THEN Over(stream) ELSE at' = "request" /\ UNCHANGED stream
          /\ UNCHANGED <<provider, attempt, cancelled, sent, parser>>

Cancel == /\ ~cancelled /\ at \notin {"over", "raised"}
          /\ cancelled' = TRUE
          /\ UNCHANGED <<provider, at, attempt, sent, parser, stream>>

Next == \/ \E transient \in BOOLEAN : Refused(transient)
        \/ Unauthorized \/ Accepted \/ BodyEnds \/ Breaks \/ Waited \/ Cancel
        \/ \E c \in Chunks : Chunk(c)

(* A request that is not answered and a body that stalls time out.           *)
Fairness == WF_vars(Breaks) /\ WF_vars(Waited)

Spec == Init /\ [][Next]_vars /\ Fairness
-----------------------------------------------------------------------------
(* The loop sees one well-formed message per request, whatever was retried,  *)
(* and nothing after its end.                                                *)
OneMessage == Grammar(stream.out) = "over" <=> at = "over"

(* dev-notes/anthropic-stream-error-recovery.md:26: nothing is asked for     *)
(* again of which the user saw a part.  The Codex adapter does it after      *)
(* thinking when the connection breaks off.                                  *)
NothingTwice ==
    \A b \in DOMAIN stream.blocks : \A i \in DOMAIN stream.blocks[b].pieces :
      \/ stream.blocks[b].pieces[i][1] = attempt
      \/ provider = "codex" /\ stream.blocks[b].kind = "thinking"

(* A message that is done holds what the server sent of it, in order: every  *)
(* piece of text and thinking, and for every call its arguments.  The Codex  *)
(* adapter leaves out calls that were not completed.                         *)
Place(is, i) == IF is THEN << <<attempt, i>> >> ELSE <<>>
Sent(kind)   == FlattenSeq([i \in DOMAIN sent |-> Place(sent[i].is = kind, i)])
Arguments(k) == FlattenSeq([i \in DOMAIN sent |->
                              Place(sent[i] = [is |-> "arguments", tool |-> k], i)])

Kept(kind) == FlattenSeq([i \in DOMAIN stream.blocks |->
                IF stream.blocks[i].kind = kind THEN stream.blocks[i].pieces ELSE <<>>])
Calls == FlattenSeq([i \in DOMAIN stream.blocks |->
           IF stream.blocks[i].kind = "tool" THEN <<stream.blocks[i]>> ELSE <<>>])

DoneIsComplete ==
    stream.ending = "done" =>
      /\ Kept("text") = Sent("text")
      /\ provider # "codex" => Kept("thinking") = Sent("thinking")
      /\ provider \notin {"codex", "google"} =>
           /\ Len(Calls) = Opened
           /\ \A k \in 1 .. Opened : Calls[k].pieces = Arguments(k)
      /\ provider = "codex" => Len(Calls) = Cardinality({k \in 1 .. Opened : ~Open(k)})

(* A request ends.                                                           *)
StreamEnds == <>(at \in {"over", "raised"})

(* What reaches the loop is one message, none of it twice, and all of it if  *)
(* it says so, whatever failed and was tried again.                          *)
StreamIsFaithful == OneMessage /\ NothingTwice /\ DoneIsComplete
=============================================================================
