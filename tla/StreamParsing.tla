---------------------------- MODULE StreamParsing ----------------------------
(***************************************************************************)
(* How a model's streamed reply is put together for its span               *)
(* (parseStream and the parsers it calls, internal/proxy/parser.go).       *)
(*                                                                         *)
(* A reply is a sequence of items: text, thinking or tool calls, each with *)
(* a body of tokens.  A vendor sends it in chunks, cut up at will; the     *)
(* stream may end anywhere, since clients leave, upstreams fail and what   *)
(* is kept has a limit.  Each parser is a loop over the captured chunks:   *)
(* acc is what its variables hold after those sent so far, and Parsed what *)
(* it would return if the stream ended there.  A part of a message is      *)
(* written like an item, whichever shape the vendor gives it.  Events that *)
(* no parser looks at are left out, and a chunk cut in two is no chunk:    *)
(* decodeObject returns nothing for it.                                    *)
(***************************************************************************)
EXTENDS Integers, Sequences, FiniteSets, SequencesExt, Functions, TLC

CONSTANTS
    Vendors,   \* a subset of {"anthropic", "chat", "responses", "gemini"}
    Replies,   \* for each vendor the replies it may give
    Usages,    \* for each vendor the tokens that a reply may have cost besides its own
    MaxPiece,  \* bound: tokens in one chunk
    NULL       \* an absent field, or an empty string

Kinds == {"text", "thinking", "call"}

\* What Gemini puts beside a text that shows its thinking.
ThoughtMark == [thought |-> TRUE]

IsItem(it) ==
    /\ it \in [kind : Kinds, call : {it.call}, body : Seq(ToSet(it.body)) \ {<<>>}]
    /\ it.kind = "text" => it.call \in {NULL, ThoughtMark}
    /\ it.kind = "thinking" => it.call = NULL
    /\ it.kind = "call" =>
          \* what is called, and by which id, if the vendor gives calls ids
          /\ it.call \in [id : {it.call.id}, tool : {it.call.tool}]
          \* the arguments are a JSON object, which no proper prefix is
          /\ \A k \in DOMAIN it.body : it.body[k] = "}" <=> k = Len(it.body)

IsReply(reply) ==
    /\ reply \in Seq(ToSet(reply)) \ {<<>>}
    /\ \A i \in DOMAIN reply : IsItem(reply[i])

ASSUME VendorsAreKnown == Vendors \subseteq {"anthropic", "chat", "responses", "gemini"}
ASSUME RepliesAreReplies == \A v \in Vendors : \A reply \in Replies[v] : IsReply(reply)
ASSUME PiecesAreBounded == MaxPiece \in Nat \ {0}

\* The tokens of the request, each in one place: not cached, read from the cache,
\* or written to it; and those of thinking that the reply does not show.
ASSUME UsagesAreUsages ==
    \A v \in Vendors : Usages[v] \subseteq [{"fresh", "read", "created", "thought"} -> Nat]

\* What chunks report of the usage.
UsageObjects ==
    LET Count == Nat \cup {NULL}
    IN  [input : Count, read : Count, created : Count, output : Nat]
        \cup [api : {"chat", "responses"}, input : Nat, output : Nat, read : Nat]
        \cup [input : Nat, read : Nat, candidates : Nat, thoughts : Nat]

ASSUME NullIsAbsent ==
    /\ NULL \notin Nat /\ NULL \notin UsageObjects
    /\ NULL \notin {"id", "stop", "response.completed", "response.output_item.done",
                    "response.output_text.delta"}

VARIABLES
    vendor,  \* who replies: the vendor, and for openai which of its two APIs
    reply,   \* the reply it gives
    counts,  \* the other tokens it cost
    item,    \* the item it is sending, 0 before the first chunk
    offset,  \* how many tokens of it are sent
    acc,     \* the parser's variables after the chunks sent so far
    phase    \* "items", then "end", "bare" or "incomplete"

vars == <<vendor, reply, counts, item, offset, acc, phase>>

------------------------------------------------------------------------------
(* What the parsers share *)

\* A part of a message, or an item of the responses API, which has an id.  form says
\* whether a call's arguments are kept as a JSON value, or as the text there is.
Part(kind, id, call, body, form) ==
    [kind |-> kind, id |-> id, call |-> call, body |-> body, form |-> form]

NoCall == [id |-> NULL, tool |-> NULL]

\* Thinking is kept as its length only.
Redacted(body) == [k \in DOMAIN body |-> "."]

ParsesAsJSON(s) == s # <<>> /\ Last(s) = "}"

\* A parsedResponse; the model comes and is kept as the id is.
Blank == [id |-> NULL, finish |-> <<>>, hasUsage |-> FALSE, input |-> 0, output |-> 0,
          read |-> 0, created |-> 0, messages |-> <<>>]

AddFinish(finish, reason) ==
    IF reason = NULL \/ reason \in ToSet(finish) THEN finish ELSE Append(finish, reason)

TakeId(old, id) == IF id = NULL THEN old ELSE id

\* f, with a value for x.
Put(f, x, value) == [y \in DOMAIN f \cup {x} |-> IF y = x THEN value ELSE f[y]]

\* The numbers of a set in their order.
Ordered(S) ==
    CHOOSE s \in [1 .. Cardinality(S) -> S] : \A i, j \in DOMAIN s : i < j => s[i] < s[j]

Field(chunk, name) == IF name \in DOMAIN chunk THEN chunk[name] ELSE NULL

\* number: 0 for what is not there.
Number(value) == IF value = NULL THEN 0 ELSE value

Counted(result, input, output, read) ==
    [result EXCEPT !.hasUsage = TRUE, !.input = input, !.output = output, !.read = read]

------------------------------------------------------------------------------
(* Anthropic *)

\* Mutant of ApplyAnthropicUsage: reports are added up.
ApplyAnthropicUsageAdds(result, usage) ==
    IF usage = NULL THEN result
    ELSE LET read    == Number(usage.read)
             created == Number(usage.created)
             input   == Number(usage.input) + read + created
         IN  [Counted(result, result.input + input, result.output + Number(usage.output),
                      result.read + read) EXCEPT !.created = @ + created]

\* A report overwrites the last one, with 0 what it leaves out, but for the output.
\* The vendor's input does not hold the cached tokens, the span's does.
ApplyAnthropicUsage(result, usage) ==
    IF usage = NULL THEN result
    ELSE LET read    == Number(usage.read)
             created == Number(usage.created)
         IN  [Counted(result, Number(usage.input) + read + created,
                      IF usage.output = NULL THEN result.output ELSE usage.output, read)
                EXCEPT !.created = created]

\* A block under construction; its JSON arrives in partial.
Block(kind, call, body) ==
    [kind |-> kind, call |-> call, body |-> IF kind = "thinking" THEN Redacted(body) ELSE body,
     partial |-> <<>>]

\* Mutant of Extended: the latest piece of a call's arguments only.
ExtendedLast(block, kind, piece) ==
    CASE kind = "text"     -> [block EXCEPT !.body = @ \o piece]
      [] kind = "thinking" -> [block EXCEPT !.body = @ \o Redacted(piece)]
      [] kind = "call"     -> [block EXCEPT !.partial = piece]

\* A block after a text_delta, thinking_delta or input_json_delta.
Extended(block, kind, piece) ==
    CASE kind = "text"     -> [block EXCEPT !.body = @ \o piece]
      [] kind = "thinking" -> [block EXCEPT !.body = @ \o Redacted(piece)]
      [] kind = "call"     -> [block EXCEPT !.partial = @ \o piece]

AnthropicChunk(a, chunk) ==
    CASE chunk.type = "message_start" ->
            [result |-> ApplyAnthropicUsage([a.result EXCEPT !.id = chunk.id], chunk.usage),
             blocks |-> a.blocks]
      [] chunk.type = "content_block_start" ->
            [result |-> a.result,
             blocks |-> Put(a.blocks, chunk.index, Block(chunk.kind, chunk.call, chunk.body))]
      [] chunk.type = "content_block_delta" ->
            LET known == chunk.index \in DOMAIN a.blocks
                block == IF known THEN a.blocks[chunk.index] ELSE Block(NULL, NULL, <<>>)
            IN  [result |-> a.result,
                 blocks |-> Put(a.blocks, chunk.index, Extended(block, chunk.kind, chunk.body))]
      [] chunk.type = "message_delta" ->
            LET finish == AddFinish(a.result.finish, chunk.finish)
            IN  [result |-> ApplyAnthropicUsage([a.result EXCEPT !.finish = finish], chunk.usage),
                 blocks |-> a.blocks]

\* A call's arguments, if any came, replace the empty ones of its start.
Finished(block) ==
    IF block.partial = <<>> THEN Part(block.kind, NULL, block.call, block.body, "json")
    ELSE Part(block.kind, NULL, block.call, block.partial,
              IF ParsesAsJSON(block.partial) THEN "json" ELSE "raw")

OrderedBlocks(blocks) ==
    LET indexes == Ordered(DOMAIN blocks)
    IN  [i \in DOMAIN indexes |-> Finished(blocks[indexes[i]])]

ParseAnthropicChunks(a) == [a.result EXCEPT !.messages = OrderedBlocks(a.blocks)]

ParseAnthropicJSON(object) ==
    [ApplyAnthropicUsage(Blank, object.usage) EXCEPT
        !.id       = object.id,
        !.finish   = AddFinish(@, object.finish),
        !.messages = [i \in DOMAIN object.content |->
                         LET block == object.content[i]
                         IN  Finished(Block(block.kind, block.call, block.body))]]

------------------------------------------------------------------------------
(* Gemini *)

\* A text is appended to the part before it if that is a text, whichever of the two
\* is marked as a thought: the mark of the first one stays.
MergeGeminiPart(parts, part) ==
    IF parts # <<>> /\ part.kind = "text" /\ Last(parts).kind = "text"
    THEN [parts EXCEPT ![Len(parts)].body = @ \o part.body]
    ELSE Append(parts, part)

MergeGeminiParts(parts) == FoldLeft(MergeGeminiPart, <<>>, parts)

\* A part that is an empty text and nothing else is dropped.
AddPart(parts, part) ==
    IF part.kind = "text" /\ part.call = NULL /\ part.body = <<>> THEN parts
    ELSE Append(parts, part)

AddParts(parts, more) == FoldLeft(AddPart, parts, more)

GeminiChunk(a, chunk) ==
    LET used == IF chunk.usage = NULL THEN a.result
                ELSE Counted(a.result, chunk.usage.input,
                             chunk.usage.candidates + chunk.usage.thoughts, chunk.usage.read)
    IN  [result |-> [used EXCEPT !.id     = TakeId(@, chunk.id),
                                 !.finish = AddFinish(@, chunk.finish)],
         parts  |-> AddParts(a.parts, chunk.parts)]

ParseGeminiChunks(a) == [a.result EXCEPT !.messages = MergeGeminiParts(a.parts)]

------------------------------------------------------------------------------
(* OpenAI *)

\* A usage object names its counts as one of the two APIs does.
ApplyResponsesUsage(result, usage) ==
    IF usage = NULL THEN result
    ELSE IF usage.api = "responses"
    THEN Counted(result, usage.input, usage.output, usage.read)
    ELSE Counted(result, 0, 0, 0)

ApplyOpenAIUsage(result, usage) ==
    IF usage = NULL THEN result
    ELSE IF usage.api = "chat" /\ usage.input # 0
    THEN Counted(result, usage.input, usage.output, usage.read)
    ELSE ApplyResponsesUsage(result, usage)

AddFinishOf(finish, choice) == AddFinish(finish, choice.finish)

AddFinishes(finish, choices) == FoldLeft(AddFinishOf, finish, choices)

\* A tool call so far, after another delta of its index.
ToolDelta(tools, tool) ==
    LET current == IF tool.index \in DOMAIN tools THEN tools[tool.index]
                   ELSE Part("call", NULL, NoCall, <<>>, "raw")
    IN  Put(tools, tool.index,
            Part("call", NULL, [id   |-> TakeId(current.call.id, tool.call.id),
                                tool |-> TakeId(current.call.tool, tool.call.tool)],
                 current.body \o tool.body, "raw"))

ToolDeltas(tools, deltas) == FoldLeft(ToolDelta, tools, deltas)

\* The text of a response.output_text.delta.
TextDelta(chunk) ==
    IF Field(chunk, "type") = "response.output_text.delta" THEN chunk.delta ELSE <<>>

ParseResponsesCompleted(response) ==
    [ApplyResponsesUsage(Blank, response.usage) EXCEPT
        !.id       = response.id,
        !.finish   = AddFinish(@, response.status),
        !.messages = response.output]

\* A chunk of either API; a chunk of chat completions has one choice or none.
OpenAIChunk(a, chunk) ==
    LET type     == Field(chunk, "type")
        response == IF "response" \in DOMAIN chunk THEN chunk.response
                    ELSE [id |-> NULL, usage |-> NULL]
        choices  == IF "choices" \in DOMAIN chunk THEN chunk.choices ELSE <<>>
        named    == [a.result EXCEPT !.id = TakeId(TakeId(@, response.id), Field(chunk, "id"))]
        used     == ApplyOpenAIUsage(ApplyResponsesUsage(named, response.usage),
                                     Field(chunk, "usage"))
    IN  [result    |-> [used EXCEPT !.finish =
                          AddFinishes(@, choices)],
         content   |-> a.content \o TextDelta(chunk)
                          \o FlattenSeq([i \in DOMAIN choices |-> choices[i].content]),
         tools     |-> ToolDeltas(a.tools,
                          FlattenSeq([i \in DOMAIN choices |-> choices[i].tools])),
         sawChoice |-> a.sawChoice \/ choices # <<>> \/ type = "response.output_text.delta",
         items     |-> IF type = "response.output_item.done" THEN Append(a.items, chunk.item)
                       ELSE a.items,
         completed |-> a.completed \/ type = "response.completed",
         final     |-> IF type = "response.completed" THEN ParseResponsesCompleted(response)
                       ELSE a.final]

\* The one message: its content, then its calls by index.
ParseOpenAIChunks(a) ==
    LET indexes == Ordered(DOMAIN a.tools)
        message == <<Part("text", NULL, NULL, a.content, "raw")>>
                      \o [i \in DOMAIN indexes |-> a.tools[indexes[i]]]
    IN  [a.result EXCEPT !.messages = IF a.sawChoice THEN message ELSE <<>>]

\* Mutant of MergeItems: an item as often as it is reported.
MergeItemsAll(output, items) == output \o items

MergeItem(merged, it) ==
    IF it.id # NULL /\ \E i \in DOMAIN merged : merged[i].id = it.id
    THEN merged ELSE Append(merged, it)

\* The output of response.completed with the items that were done, each id once.
MergeItems(output, items) == FoldLeft(MergeItem, <<>>, output \o items)

ParseResponsesChunks(a) ==
    IF ~ a.completed THEN ParseOpenAIChunks(a)
    ELSE IF a.items = <<>> THEN a.final
    ELSE [a.final EXCEPT !.messages = MergeItems(@, a.items)]

ParseOpenAIJSON(object) ==
    [ApplyOpenAIUsage(Blank, object.usage) EXCEPT
        !.id       = object.id,
        !.finish   = AddFinish(@, object.finish),
        !.messages = object.output]

NoChunks(v) ==
    CASE v = "anthropic" -> [result |-> Blank, blocks |-> <<>>]
      [] v = "gemini"    -> [result |-> Blank, parts |-> <<>>]
      [] v \in {"chat", "responses"} ->
            [result |-> Blank, content |-> <<>>, tools |-> <<>>, sawChoice |-> FALSE,
             items |-> <<>>, completed |-> FALSE, final |-> Blank]

ReadChunk(v, a, chunk) ==
    CASE v = "anthropic"             -> AnthropicChunk(a, chunk)
      [] v = "gemini"                -> GeminiChunk(a, chunk)
      [] v \in {"chat", "responses"} -> OpenAIChunk(a, chunk)

ReadChunks(v, a, chunks) == FoldLeft(LAMBDA b, chunk : ReadChunk(v, b, chunk), a, chunks)

ParseStream(v, a) ==
    CASE v = "anthropic"             -> ParseAnthropicChunks(a)
      [] v = "gemini"                -> ParseGeminiChunks(a)
      [] v \in {"chat", "responses"} -> ParseResponsesChunks(a)

------------------------------------------------------------------------------
(* What a vendor sends *)

ReplyId == "id"

AddLength(n, it) == n + Len(it.body)

\* How many tokens of the reply are sent.
Sent == FoldLeft(AddLength, offset, SubSeq(reply, 1, item - 1))

Input  == counts.fresh + counts.read + counts.created
Output == Sent + counts.thought

\* usage: the input of openai has the cached tokens in it.
OpenAIUsage(api) == [api |-> api, input |-> Input, output |-> Output, read |-> counts.read]

AnthropicUsage(output) ==
    [input |-> counts.fresh, read |-> counts.read, created |-> counts.created, output |-> output]

\* The output alone.
BareUsage == [input |-> NULL, read |-> NULL, created |-> NULL, output |-> Output]

\* usageMetadata, with so many tokens of the reply.
GeminiUsage(sent) ==
    [input |-> Input, read |-> counts.read, candidates |-> sent, thoughts |-> counts.thought]

Item(i) == Part(reply[i].kind, NULL, reply[i].call, reply[i].body, "json")

\* Items of the responses API have names of their own.
OutputItem(i) == Part(reply[i].kind, i, reply[i].call, reply[i].body, "raw")

Choice(finish, content, tools) == [finish |-> finish, content |-> content, tools |-> tools]

ChatChunk(choices, usage) == [id |-> ReplyId, choices |-> choices, usage |-> usage]

Init ==
    /\ vendor \in Vendors
    /\ reply \in Replies[vendor]
    /\ counts \in Usages[vendor]
    /\ item = 0
    /\ offset = 0
    /\ acc = NoChunks(vendor)
    /\ phase = "items"

Send(chunks) == acc' = ReadChunks(vendor, acc, chunks)

\* The item is sent, or the reply is about to begin.
AtEnd == item = 0 \/ offset = Len(reply[item].body)

\* The chunks that open the reply: none for Gemini.
Opening ==
    CASE vendor = "anthropic" ->
            <<[type |-> "message_start", id |-> ReplyId, usage |-> AnthropicUsage(1)]>>
      [] vendor = "chat"      -> <<ChatChunk(<<Choice(NULL, <<>>, <<>>)>>, NULL)>>
      [] vendor = "responses" ->
            <<[type |-> "response.created", response |-> [id |-> ReplyId, usage |-> NULL]]>>
      [] vendor = "gemini"    -> <<>>

\* The chunks that begin the i-th item.
Beginning(i) ==
    CASE vendor = "anthropic" ->
            <<[type |-> "content_block_start", index |-> i - 1, kind |-> reply[i].kind,
               call |-> reply[i].call, body |-> <<>>]>>
      [] vendor = "chat" /\ reply[i].kind = "call" ->
            <<ChatChunk(<<Choice(NULL, <<>>, <<[index |-> i, call |-> reply[i].call, body |-> <<>>]>>)>>,
                        NULL)>>
      [] OTHER -> <<>>

\* The chunks that carry a piece of the i-th item, the last one if it is done.
Carrying(i, piece, done) ==
    CASE vendor = "anthropic" ->
            <<[type |-> "content_block_delta", index |-> i - 1, kind |-> reply[i].kind,
               body |-> piece]>>
      [] vendor = "chat" /\ reply[i].kind = "text" ->
            <<ChatChunk(<<Choice(NULL, piece, <<>>)>>, NULL)>>
      [] vendor = "chat" /\ reply[i].kind = "call" ->
            <<ChatChunk(<<Choice(NULL, <<>>, <<[index |-> i, call |-> NoCall, body |-> piece]>>)>>,
                        NULL)>>
      [] vendor = "responses" ->
            (IF reply[i].kind = "text"
             THEN <<[type |-> "response.output_text.delta", delta |-> piece]>> ELSE <<>>)
            \o (IF done THEN <<[type |-> "response.output_item.done", item |-> OutputItem(i)]>>
                ELSE <<>>)
      [] vendor = "gemini" ->
            IF reply[i].kind = "text"
            THEN <<[id |-> ReplyId, finish |-> NULL, usage |-> GeminiUsage(Sent + Len(piece)),
                    parts |-> <<Part("text", NULL, reply[i].call, piece, "json")>>]>>
            ELSE IF done
            THEN <<[id |-> ReplyId, finish |-> "stop", usage |-> GeminiUsage(Sent + Len(piece)),
                    parts |-> <<Item(i)>>]>>
            ELSE <<>>
      [] OTHER -> <<>>

Response(output) ==
    [id |-> ReplyId, status |-> "stop", usage |-> OpenAIUsage("responses"), output |-> output]

\* The chunks that end the reply.  Vendors that answer with response.completed
\* may leave its output empty.
Endings ==
    CASE vendor = "anthropic" ->
            {<<[type |-> "message_delta", finish |-> "stop", usage |-> AnthropicUsage(Output)]>>}
      [] vendor = "chat" ->
            {<<ChatChunk(<<Choice("stop", <<>>, <<>>)>>, NULL),
               ChatChunk(<<>>, OpenAIUsage("chat"))>>}
      [] vendor = "responses" ->
            {<<[type |-> "response.completed", response |-> Response(output)]>> :
                output \in {<<>>, [i \in DOMAIN reply |-> OutputItem(i)]}}
      [] vendor = "gemini" ->
            {<<[id |-> ReplyId, finish |-> "stop", usage |-> GeminiUsage(Sent),
                parts |-> <<Part("text", NULL, NULL, <<>>, "json")>>]>>}

Start ==
    /\ phase = "items"
    /\ item = 0
    /\ item' = 1 /\ offset' = 0
    /\ Send(Opening \o Beginning(1))
    /\ UNCHANGED <<vendor, reply, counts, phase>>

SendPiece ==
    /\ phase = "items"
    /\ ~AtEnd
    /\ \E n \in 1 .. MaxPiece :
          /\ offset + n <= Len(reply[item].body)
          /\ offset' = offset + n
          /\ Send(Carrying(item, SubSeq(reply[item].body, offset + 1, offset + n),
                           offset' = Len(reply[item].body)))
    /\ UNCHANGED <<vendor, reply, counts, item, phase>>

NextItem ==
    /\ phase = "items"
    /\ item > 0 /\ AtEnd /\ item < Len(reply)
    /\ item' = item + 1 /\ offset' = 0
    /\ Send(Beginning(item + 1))
    /\ UNCHANGED <<vendor, reply, counts, phase>>

Finish ==
    /\ phase = "items"
    /\ item = Len(reply) /\ AtEnd
    /\ \E ending \in Endings : Send(ending)
    /\ phase' = "end"
    /\ UNCHANGED <<vendor, reply, counts, item, offset>>

\* The last report of an anthropic API may count the output only.
FinishBare ==
    /\ phase = "items"
    /\ vendor = "anthropic" /\ item = Len(reply) /\ AtEnd
    /\ Send(<<[type |-> "message_delta", finish |-> "stop", usage |-> BareUsage]>>)
    /\ phase' = "bare"
    /\ UNCHANGED <<vendor, reply, counts, item, offset>>

\* The responses API stops early, at a limit or in an error, and says so.
StopEarly ==
    /\ phase = "items"
    /\ vendor = "responses" /\ item > 0
    /\ Send(<<[type |-> "response.incomplete", response |-> Response(<<>>)]>>)
    /\ phase' = "incomplete"
    /\ UNCHANGED <<vendor, reply, counts, item, offset>>

Next == Start \/ SendPiece \/ NextItem \/ Finish \/ FinishBare \/ StopEarly

Spec == Init /\ [][Next]_vars

------------------------------------------------------------------------------
(* Properties *)

Parsed == ParseStream(vendor, acc)

TextOf(messages) ==
    FlattenSeq([i \in DOMAIN messages |->
        IF messages[i].kind = "text" THEN messages[i].body ELSE <<>>])

CallsOf(messages) ==
    LET calls == {i \in DOMAIN messages : messages[i].kind = "call"}
    IN  {[call |-> messages[i].call, body |-> messages[i].body] : i \in calls}

\* The part of the reply that is sent: the last item perhaps not in full.
SentItems ==
    [i \in 1 .. item |-> IF i < item THEN reply[i]
                         ELSE [reply[i] EXCEPT !.body = SubSeq(@, 1, offset)]]

SentCalls == {c \in CallsOf(SentItems) : ParsesAsJSON(c.body)}

\* The reply as the same vendor answers it without streaming.
Whole ==
    LET texts   == TextOf(reply)
        indexes == Ordered({i \in DOMAIN reply : reply[i].kind = "call"})
        calls   == [k \in DOMAIN indexes |->
                       LET it == reply[indexes[k]] IN Part("call", NULL, it.call, it.body, "raw")]
    IN  CASE vendor = "anthropic" ->
                ParseAnthropicJSON([id |-> ReplyId, finish |-> "stop", content |-> reply,
                                    usage |-> AnthropicUsage(Output)])
          [] vendor = "gemini" ->
                ParseGeminiChunks(GeminiChunk(NoChunks(vendor),
                                   [id |-> ReplyId, finish |-> "stop", usage |-> GeminiUsage(Sent),
                                    parts |-> [i \in DOMAIN reply |-> Item(i)]]))
          [] vendor = "chat" ->
                ParseOpenAIJSON([id |-> ReplyId, finish |-> "stop", usage |-> OpenAIUsage("chat"),
                                 output |-> <<Part("text", NULL, NULL, texts, "raw")>> \o calls])
          [] vendor = "responses" ->
                ParseOpenAIJSON([id |-> ReplyId, finish |-> "stop",
                                 usage |-> OpenAIUsage("responses"),
                                 output |-> [i \in DOMAIN reply |-> OutputItem(i)]])

\* However a reply was cut into chunks, its span is the one of the same reply
\* sent whole: id, finish reasons, the counts of input, output and cache, and every
\* part in its order.  A last report of the output alone loses the counts of the
\* input, and nothing else.
StreamedAsWhole ==
    /\ phase = "end" => Parsed = Whole
    /\ phase = "bare" => Parsed = [Whole EXCEPT !.input = 0, !.read = 0, !.created = 0]

\* Wherever a stream ends, its span has the text that was sent up to there, in
\* order and once (with that of Gemini's thoughts, which is not kept apart from
\* it), and every call that was sent in full, so that a later result finds its
\* origin; calls of the responses API only if the stream was completed (see
\* PartialResponsesKept).
CutKeepsSent ==
    /\ TextOf(Parsed.messages) = TextOf(SentItems)
    /\ (vendor = "responses" => phase = "end") => SentCalls \subseteq CallsOf(Parsed.messages)

\* docs/proxy.md: "A client disconnect mid-stream keeps the partial Responses
\* output."
PartialResponsesKept ==
    vendor = "responses" => SentCalls \subseteq CallsOf(Parsed.messages)

==============================================================================
