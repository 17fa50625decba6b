----------------------------- MODULE Conversation -----------------------------
(***************************************************************************)
(* An agent's conversation with a model, as the proxy captures it.  The    *)
(* client sends its history, the model replies as in StreamParsing, the    *)
(* proxy captures the exchange, and the client goes on: it runs the tools  *)
(* that were called and sends the results, asks something else, or asks    *)
(* again, because the reply was cut or it did not like it.  Requests hold  *)
(* the whole history, or what is left of it after the oldest messages were *)
(* dropped, or for the responses API only what is new.                     *)
(*                                                                         *)
(* Captures are made one after the other and nothing expires; what happens *)
(* when they overlap and expire is in ProxyCapture, which takes calls,     *)
(* results and anchors as they are computed here.                          *)
(***************************************************************************)
EXTENDS ReplyCosts

CONSTANTS
    FollowUps,    \* for each vendor the replies after the first
    FollowUsage,  \* what they cost besides their own tokens
    MaxExchanges  \* bound on the exchanges

INSTANCE ToolHistories

VARIABLES
    history,  \* the messages of the conversation so far
    request,  \* [messages, whole]: what the client sent of them
    prompt,   \* how many prompts the user has made
    client,   \* "reads" the reply, or "decides" what to do next
    origins,  \* proxy_tool_calls: the known calls, with the exchange that issued them
    turns,    \* proxy_turns: the keys of the turns, as they began
    spans,    \* the spans of tool results
    log       \* history: what was captured

talk == <<history, request, prompt, client, origins, turns, spans, log>>

ASSUME ConversationEnds == MaxExchanges \in Nat \ {0}
ASSUME FollowUpsAreReplies ==
    \A v \in Vendors : FollowUps[v] # {} /\ \A r \in FollowUps[v] : IsReply(r)
ASSUME FollowUsageIsUsage == FollowUsage \in [{"fresh", "read", "created", "thought"} -> Nat]
ASSUME NullIsNoRole == NULL # "user"

------------------------------------------------------------------------------
(* Messages *)

\* The exchange that goes on, or has just been captured.
Exchange == IF client = "reads" THEN Len(log) + 1 ELSE Len(log)

\* The ids of one reply are not those of another.
Named(call) == IF call.id = NULL THEN call ELSE [call EXCEPT !.id = <<"id", Exchange, @>>]

NamedPart(part) == IF part.kind # "call" THEN part ELSE [part EXCEPT !.call = Named(@)]

\* Parts as the messages of a vendor.
Spoken(role, parts) ==
    LET named == [i \in DOMAIN parts |-> NamedPart(parts[i])]
    IN  IF vendor = "responses"
        THEN [i \in DOMAIN named |->
                IF named[i].kind = "call" THEN Message(NULL, "function_call", <<named[i]>>)
                ELSE Message("assistant", "message", <<named[i]>>)]
        ELSE IF named = <<>> THEN <<>> ELSE <<Message(role, NULL, named)>>

\* outputMessages, of what was captured of the reply.
OutputMessages == Spoken("assistant", Parsed.messages)

\* The reply as the client keeps it.
ReplyMessages ==
    Spoken(IF vendor = "gemini" THEN "model" ELSE "assistant", [i \in DOMAIN reply |-> Item(i)])

\* Every prompt says the same.
PromptPart == Part("text", NULL, NULL, <<"go", "on">>, "raw")

PromptMessage == Message("user", IF vendor = "responses" THEN "message" ELSE NULL, <<PromptPart>>)

\* The result of the i-th item; its body tells which call it is of.
ResultPart(i) ==
    Part("result", NULL,
         [Named(reply[i].call) EXCEPT !.tool = IF vendor = "gemini" THEN @ ELSE NULL],
         <<"result", Exchange, i>>, "raw")

\* The results, in an order, with a prompt in the same message or not.
ResultMessages(order, prompted) ==
    LET results == [j \in DOMAIN order |-> ResultPart(order[j])]
    IN  IF vendor \in {"anthropic", "gemini"}
        THEN <<Message("user", NULL, results \o IF prompted THEN <<PromptPart>> ELSE <<>>)>>
        ELSE [j \in DOMAIN order |->
                Message(IF vendor = "chat" THEN "tool" ELSE NULL,
                        IF vendor = "chat" THEN NULL ELSE "function_call_output",
                        <<results[j]>>)]
             \o IF prompted THEN <<PromptMessage>> ELSE <<>>

CallItems == {i \in DOMAIN reply : reply[i].kind = "call"}

\* Results without ids are in the order of the calls.
ResultOrders ==
    IF \A i \in CallItems : reply[i].call.id # NULL THEN SetToSeqs(CallItems)
    ELSE {Ordered(CallItems)}

------------------------------------------------------------------------------
(* The proxy *)

Request(messages, whole) == [messages |-> messages, whole |-> whole]

\* The turn that proxyTurn finds: of the prompt, at its position, or the latest one.
TurnKey(messages) ==
    LET anchor == TurnAnchor(vendor, messages)
    IN  IF anchor >= 0 THEN <<anchor, messages[anchor + 1]>>
        ELSE IF turns # <<>> THEN Last(turns)
        ELSE <<anchor, Exchange>>

\* toolSpansLocked: the span of a result, under the exchange that issued its call,
\* which also tells the name and the arguments if the request does not.
ToolSpan(r) ==
    LET known  == r.key \in DOMAIN origins
        origin == IF known THEN origins[r.key] ELSE [tool |-> NULL, args |-> NULL, by |-> NULL]
    IN  [key    |-> r.key,
         result |-> r.result,
         parent |-> origin.by,
         tool   |-> IF r.call.tool = NULL THEN origin.tool ELSE r.call.tool,
         args   |-> IF r.call.args = NULL THEN origin.args ELSE r.call.args,
         sentBy |-> Exchange]

\* The reply will be the next message of the history.
CallPosition == IF vendor = "gemini" THEN Len(request.messages) ELSE 0

\* The capture of an exchange, at the end of its stream or where it was cut.  A call
\* that is known stays as it is.
Capture ==
    /\ client = "reads"
    /\ LET issued == ToolCalls(vendor, OutputMessages, CallPosition)
           turn   == TurnKey(request.messages)
       IN  /\ spans' = spans \cup {ToolSpan(r) : r \in ToolResults(vendor, request.messages)}
           /\ origins' = origins @@ [k \in DOMAIN issued |->
                            [tool |-> issued[k].tool, args |-> issued[k].args, by |-> Exchange]]
           /\ turns' = IF turn \in ToSet(turns) THEN turns ELSE Append(turns, turn)
           /\ log' = Append(log, [reply |-> reply, issued |-> DOMAIN issued, turn |-> turn,
                                  prompt |-> prompt, whole |-> request.whole,
                                  position |-> Len(request.messages)])
    /\ client' = "decides"
    /\ UNCHANGED <<vars, history, request, prompt>>

------------------------------------------------------------------------------
(* The client *)

ConversationInit ==
    /\ Init
    /\ history = <<PromptMessage>>
    /\ request = Request(history, TRUE)
    /\ prompt = 1
    /\ client = "reads"
    /\ origins = <<>>
    /\ turns = <<>>
    /\ spans = {}
    /\ log = <<>>

\* A chunk of the reply.
Receive ==
    /\ client = "reads"
    /\ Next
    /\ UNCHANGED talk

\* The client sends r, and another reply begins.
Ask(r) ==
    /\ client = "decides"
    /\ Len(log) < MaxExchanges
    /\ request' = r
    /\ client' = "reads"
    /\ reply' \in FollowUps[vendor]
    /\ counts' = FollowUsage
    /\ item' = 0
    /\ offset' = 0
    /\ acc' = NoChunks(vendor)
    /\ phase' = "items"
    /\ UNCHANGED <<vendor, origins, turns, spans, log>>

AskAgain ==
    /\ Ask(request)
    /\ UNCHANGED <<history, prompt>>

\* What the client may send of messages, of which the last so many are new: all of
\* them, those from its last prompt on, or the new ones, which go on with the rest of a
\* turn if there is no prompt among them.
Requests(messages, new) ==
    LET last   == TurnAnchor(vendor, history)
        recent == SubSeq(messages, Len(messages) - new + 1, Len(messages))
    IN  {Request(messages, TRUE), Request(SubSeq(messages, last + 1, Len(messages)), last = 0)}
        \cup IF vendor = "responses"
             THEN {Request(recent, TurnAnchor(vendor, recent) = -1)} ELSE {}

\* The client has the whole reply and sends new messages after it.
GoOn(new, prompted) ==
    LET messages == history \o ReplyMessages \o new
    IN  /\ phase \in {"end", "bare"}
        /\ history' = messages
        /\ prompt' = IF prompted THEN prompt + 1 ELSE prompt
        /\ \E r \in Requests(messages, Len(new)) : Ask(r)

SendResults ==
    \E order \in ResultOrders, prompted \in BOOLEAN :
        CallItems # {} /\ GoOn(ResultMessages(order, prompted), prompted)

SendPrompt == CallItems = {} /\ GoOn(<<PromptMessage>>, TRUE)

ConversationNext == Receive \/ Capture \/ AskAgain \/ SendResults \/ SendPrompt

ConversationSpec == ConversationInit /\ [][ConversationNext]_<<vars, talk>>

------------------------------------------------------------------------------
(* Properties *)

\* What a reply costs depends on the reply alone, so PricedAlike is asked of the
\* first one of each conversation: by every path it costs the same, and a cost that
\* is stated is kept.
FirstPricedAlike == log = <<>> => PricedAlike

\* The exchanges up to the n-th were sent with their whole history, or as the rest
\* of a turn.
WholeUpTo(n) == \A y \in 1 .. n : log[y].whole

PartsOf(messages) == UNION {ToSet(messages[i].parts) : i \in DOMAIN messages}

\* docs/proxy.md: tool results are linked to the model call that issued them, by
\* their ids also when history is pruned and results are reordered, else by their
\* position while history is kept.  So every result that was sent has one span,
\* under the exchange whose reply called the tool, with the tool and the arguments
\* of the call, whether replies were cut, asked for again, or sent back at all.  What
\* is known by its position alone goes to the first reply at that position which
\* called the tool, though another one replaced it.
ResultsFindCalls ==
    /\ client = "decides" =>
          \A p \in PartsOf(request.messages) :
              p.kind = "result" => \E s \in spans : s.result = p.body
    /\ \A s \in spans :
          LET by   == s.result[2]
              part == log[by].reply[s.result[3]]
              issuers == {y \in 1 .. by : s.key \in log[y].issued}
          IN  part.call.id # NULL \/ WholeUpTo(s.sentBy) =>
                /\ s.tool = part.call.tool
                /\ s.args = part.body
                /\ \A u \in spans : u.result = s.result => u.key = s.key
                /\ IF part.call.id # NULL THEN s.parent = by
                   ELSE /\ issuers # {} /\ s.parent = Min(issuers)
                        /\ \A y \in issuers : log[y].position = log[by].position

\* docs/proxy.md: each prompt is a turn of its own, also one with the same words, and
\* all exchanges that continue it belong to that turn, asked again or not, if the
\* history is kept.
PromptsMakeTurns ==
    \A e, f \in DOMAIN log :
        WholeUpTo(Max({e, f})) => (log[e].turn = log[f].turn <=> log[e].prompt = log[f].prompt)

==============================================================================
