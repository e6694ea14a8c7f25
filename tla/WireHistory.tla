---------------------------- MODULE WireHistory -----------------------------
(* How the providers' adapters of tau_ai write a session's messages into a   *)
(* request.  The session may have been led with any of them before, so that  *)
(* each reads what the others left.  A message of the history is the user's, *)
(* an assistant's with its blocks and the API it came from, or the result of *)
(* one call; a request is the sequence of its parts.  Call identifiers       *)
(* become portable ones, which is one to one (portable_tool_call_id).        *)
EXTENDS Naturals, Sequences, SequencesExt, FiniteSets, FiniteSetsExt

CONSTANTS Apis,         \* "chat", "responses", "codex", "anthropic", "google", "mistral"
          Shapes,       \* the kinds of blocks an assistant message may have, in order
          MaxMessages,  \* bound
          OldGemini     \* a Google model without images in function responses

HistoryAssumption == /\ Shapes \subseteq Seq({"text", "thinking", "call"})
                     /\ OldGemini \in BOOLEAN

VARIABLE history

User(image)        == [role |-> "user", image |-> image]
Assistant(api, kinds, id) ==
    [role |-> "assistant", api |-> api,
     blocks |-> [i \in DOMAIN kinds |-> IF kinds[i] = "call" THEN [is |-> "call", id |-> <<id, i>>]
                                        ELSE [is |-> kinds[i]]]]
Result(id, image)  == [role |-> "result", id |-> id, image |-> image]

Is(kind, blocks) ==
    LET upTo[k \in 0 .. Len(blocks)] ==
          IF k = 0 THEN <<>>
          ELSE IF blocks[k].is = kind THEN Append(upTo[k - 1], blocks[k]) ELSE upTo[k - 1]
    IN  upTo[Len(blocks)]

Part(is)       == [is |-> is]
Call(b)        == [is |-> "call", id |-> b.id]
Answer(id)     == [is |-> "answer", id |-> id]
Reasoning(api) == [is |-> "reasoning", of |-> api]
Pictures       == [is |-> "images"]
If(c, s)       == IF c THEN s ELSE <<>>

\* text in one part: message.text
Text(blocks) == If(Is("text", blocks) # <<>>, << Part("text") >>)
Calls(blocks) == LET calls == Is("call", blocks) IN [i \in DOMAIN calls |-> Call(calls[i])]
-----------------------------------------------------------------------------
(* Chat and Mistral: the images of tool results wait until the results are   *)
(* over.  Chat keeps the reasoning under the name of a field if it has one.  *)
Deferred(own) ==  \* own: the parts of each assistant message
    LET step(so, i) ==
          LET m == history[i]
              flushed == [parts |-> so.parts \o so.wait, wait |-> <<>>]
          IN  CASE m.role = "user"      -> [flushed EXCEPT !.parts = Append(@, Part("user"))]
                [] m.role = "assistant" -> [flushed EXCEPT !.parts = @ \o own[i]]
                [] m.role = "result"    -> [parts |-> Append(so.parts, Answer(m.id)),
                                            wait |-> IF m.image THEN <<Pictures>> ELSE so.wait]
        upTo[k \in 0 .. Len(history)] ==
          IF k = 0 THEN [parts |-> <<>>, wait |-> <<>>] ELSE step(upTo[k - 1], k)
        end == upTo[Len(history)]
    IN  end.parts \o end.wait

Assistants == {i \in DOMAIN history : history[i].role = "assistant"}

ChatMessage(m) ==
    If(m.api \notin {"responses", "codex", "anthropic"} /\ Is("thinking", m.blocks) # <<>>, <<Reasoning("field")>>)
      \o Text(m.blocks) \o Calls(m.blocks)

_messages_to_openai_chat ==
    Deferred([i \in Assistants |-> ChatMessage(history[i])])

MistralMessage(m) == If(Is("thinking", m.blocks) # <<>>, <<Reasoning("field")>>)
                       \o Text(m.blocks) \o Calls(m.blocks)

_messages_to_mistral == Deferred([i \in Assistants |-> MistralMessage(history[i])])

(* Responses and Codex: a reasoning item is a signature that parses as an    *)
(* object, which only these two write.                                       *)
Items(m) == [i \in DOMAIN If(m.api \in {"responses", "codex"}, Is("thinking", m.blocks))
              |-> Reasoning(m.api)]

ResponsesParts(m) ==
    CASE m.role = "user"      -> << Part("user") >>
      [] m.role = "assistant" -> Items(m) \o Text(m.blocks) \o Calls(m.blocks)
      [] m.role = "result"    -> << Answer(m.id) >>

_messages_to_responses_input == FlattenSeq([i \in DOMAIN history |-> ResponsesParts(history[i])])

CodexBlock(m, b) ==
    CASE b.is = "thinking" -> If(m.api \in {"responses", "codex"}, <<Reasoning(m.api)>>)
      [] b.is = "text"     -> << Part("text") >>
      [] OTHER             -> <<>>

CodexBlocks(m) == FlattenSeq([i \in DOMAIN m.blocks |-> CodexBlock(m, m.blocks[i])])

CodexParts(m) ==
    CASE m.role = "user"      -> << Part("user") >>
      [] m.role = "assistant" -> CodexBlocks(m) \o Calls(m.blocks)
      [] m.role = "result"    -> << Answer(m.id) >>

codex_responses_input == FlattenSeq([i \in DOMAIN history |-> CodexParts(history[i])])

(* Anthropic: blocks in their order; reasoning of another API is dropped.    *)
BlockParts(m, b, keep) ==
    CASE b.is = "thinking" -> If(keep, <<Reasoning(m.api)>>)
      [] b.is = "text"     -> << Part("text") >>
      [] b.is = "call"     -> << Call(b) >>

InOrder(m, keep) == FlattenSeq([i \in DOMAIN m.blocks |-> BlockParts(m, m.blocks[i], keep)])

(* Mutant: reasoning is sent back whoever wrote it.                          *)
_anthropic_message_all(m) ==
    CASE m.role = "user"      -> << Part("user") >>
      [] m.role = "assistant" -> InOrder(m, TRUE)
      [] m.role = "result"    -> << Answer(m.id) >>

_anthropic_message(m) ==
    CASE m.role = "user"      -> << Part("user") >>
      [] m.role = "assistant" -> InOrder(m, m.api = "anthropic")
      [] m.role = "result"    -> << Answer(m.id) >>

\* a message left without content is left out
Payload ==
    LET written(m) == [role |-> m.role, parts |-> _anthropic_message(m)]
        upTo[k \in 0 .. Len(history)] ==
          IF k = 0 THEN <<>>
          ELSE IF _anthropic_message(history[k]) = <<>> THEN upTo[k - 1]
          ELSE Append(upTo[k - 1], written(history[k]))
    IN  upTo[Len(history)]

(* Google: every signature is sent back; images after their result.          *)
_messages_to_google(m) ==
    CASE m.role = "user"      -> << Part("user") >>
      [] m.role = "assistant" -> IF m.blocks = <<>> THEN << Part("text") >> ELSE InOrder(m, TRUE)
      [] m.role = "result"    -> << Answer(m.id) >> \o If(m.image /\ OldGemini, <<Pictures>>)

Wire(api) == CASE api = "chat"      -> _messages_to_openai_chat
               [] api = "mistral"   -> _messages_to_mistral
               [] api = "responses" -> _messages_to_responses_input
               [] api = "codex"     -> codex_responses_input
               [] api = "anthropic" -> FlattenSeq([i \in DOMAIN Payload |-> Payload[i].parts])
               [] api = "google"    -> FlattenSeq([i \in DOMAIN history |-> _messages_to_google(history[i])])
-----------------------------------------------------------------------------
(* _previous_request_boundary: the last user-role message before the last    *)
(* assistant one; it and the last message are marked for the cache.          *)
LastBelow(n, assistant) ==
    LET S == {i \in 1 .. n : (Payload[i].role = "assistant") = assistant}
    IN  IF S = {} THEN 0 ELSE Max(S)

_previous_request_boundary ==
    LET last == LastBelow(Len(Payload), TRUE)
    IN  IF last = 0 THEN 0 ELSE LastBelow(last - 1, FALSE)

Marked == {i \in {Len(Payload), _previous_request_boundary} \ {0} : Payload[i].role # "assistant"}
-----------------------------------------------------------------------------
(* The history grows as the agent loop makes it: no request is sent, and     *)
(* nothing else is added, before every call of a message has its result.     *)
Unanswered ==
    LET called == UNION {{history[i].blocks[b].id : b \in {b \in DOMAIN history[i].blocks : history[i].blocks[b].is = "call"}}
                         : i \in {i \in DOMAIN history : history[i].role = "assistant"}}
    IN  called \ {history[i].id : i \in {i \in DOMAIN history : history[i].role = "result"}}

Init == history = << User(FALSE) >>

Grows(m) == Len(history) < MaxMessages /\ history' = Append(history, m)

Next == \/ /\ Unanswered = {}
           /\ \/ \E image \in BOOLEAN : Grows(User(image))
              \/ \E api \in Apis, kinds \in Shapes : Grows(Assistant(api, kinds, Len(history)))
        \/ \E id \in Unanswered, image \in BOOLEAN : Grows(Result(id, image))

Spec == Init /\ [][Next]_history
-----------------------------------------------------------------------------
(* In every provider's form of a history whose calls are answered each call  *)
(* is answered exactly once, and nothing stands between the calls of a       *)
(* message and the last of their answers.  Not so at Google with a model     *)
(* that takes images in messages of their own.                               *)
Position(w, p) == {i \in DOMAIN w : w[i] = p}

AnswersFollowCalls ==
    Unanswered = {} => \A api \in Apis : LET w == Wire(api) IN
      \A i \in {i \in DOMAIN w : w[i].is = "call"} :
        LET at == Position(w, Answer(w[i].id))
        IN  /\ Cardinality(at) = 1 /\ Min(at) > i
            /\ api # "google" \/ ~OldGemini =>
                 \A j \in i .. Min(at) : w[j].is \notin {"user", "images"}

(* dev-notes/portable-tool-call-ids.md:41: "Thinking signatures are opaque   *)
(* provider-owned state".  No request carries the reasoning state of another *)
(* API, but for the two that share one; Google's adapter does not look.      *)
Shared(api) == IF api \in {"codex", "responses"} THEN {"codex", "responses"} ELSE {api, "field"}

ReasoningStaysHome ==
    \A api \in Apis \ {"google"} : \A i \in DOMAIN Wire(api) :
      Wire(api)[i].is = "reasoning" => Wire(api)[i].of \in Shared(api)

(* anthropic.py:553: the second breakpoint is the message at which the last  *)
(* request ended, when nothing was left out and no two assistant messages    *)
(* follow each other.  A request ends before each assistant message.         *)
Tidy == /\ Len(Payload) = Len(history)
        /\ \A i \in 1 .. Len(history) - 1 : ~(history[i].role = "assistant" /\ history[i + 1].role = "assistant")

BoundaryIsLastRequest ==
    Tidy => \A i \in DOMAIN history :
      /\ history[i].role = "assistant"
      /\ \A j \in i + 1 .. Len(history) : history[j].role # "assistant"
      => _previous_request_boundary = i - 1

(* A history led with any of the providers can be sent to any other, and     *)
(* what Anthropic has cached of it is asked for again.                       *)
HistoryIsPortable == AnswersFollowCalls /\ ReasoningStaysHome /\ BoundaryIsLastRequest
=============================================================================
