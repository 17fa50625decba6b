---------------------------- MODULE ToolHistories ----------------------------
(***************************************************************************)
(* What the proxy reads from the messages of a request and of a reply: the *)
(* tool calls and the tool results with the keys that join them            *)
(* (toolCalls and toolResults, internal/proxy/parser.go), and the prompt   *)
(* that a request belongs to (turnAnchor, internal/proxy/turns.go).        *)
(*                                                                         *)
(* A message has parts: text, thinking, calls and results.  A call and a   *)
(* result name their tool and have the id of the call; only Gemini may     *)
(* leave the id out, and only Gemini names the tool in a result.  The      *)
(* items of the responses API are messages of one part.  The parameter v   *)
(* is the vendor, for openai one of its two APIs.                          *)
(***************************************************************************)
EXTENDS Integers, Sequences, FiniteSets, SequencesExt, TLC

CONSTANT NULL  \* an absent field, or an empty string

Message(role, type, parts) == [role |-> role, type |-> type, parts |-> parts]

IsAssistant(message) == message.role \in {"assistant", "model"}

IssuesCalls(message) == IsAssistant(message) \/ message.type = "function_call"

\* geminiToolKey: the key of a call, or of its result, that has no id: the tool, the
\* position of the message that calls, and which call of this tool it is.
PositionKey(tool, turn, ordinal) == <<tool, turn, ordinal>>

\* How many parts before the j-th are of the same kind and name the same tool.
Ordinal(parts, j) ==
    Cardinality({i \in 1 .. j - 1 : /\ parts[i].kind = parts[j].kind
                                    /\ parts[i].call.tool = parts[j].call.tool})

\* The id, or for Gemini the position.
KeyOf(v, parts, j, turn) ==
    LET call == parts[j].call
    IN  IF v = "gemini" /\ call.id = NULL
        THEN PositionKey(call.tool, turn, Ordinal(parts, j)) ELSE call.id

\* The calls of a message that may issue some, with their keys.
MessageCalls(v, message, turn) ==
    LET parts == SelectSeq(message.parts, LAMBDA p : p.kind = "call")
    IN  IF IssuesCalls(message)
        THEN [j \in DOMAIN parts |->
                [key  |-> KeyOf(v, parts, j, turn),
                 call |-> [tool |-> parts[j].call.tool, args |-> parts[j].body]]]
        ELSE <<>>

\* toolCalls: of calls with one key the last; turn is the position of the first of
\* the messages.
ToolCalls(v, messages, turn) ==
    LET all   == FlattenSeq([i \in DOMAIN messages |-> MessageCalls(v, messages[i], turn + i - 1)])
        calls == SelectSeq(all, LAMBDA c : NULL \notin {c.key, c.call.tool})
    IN  [k \in {calls[i].key : i \in DOMAIN calls} |->
            Last(SelectSeq(calls, LAMBDA c : c.key = k)).call]

\* The position of the last message of the model, counted from 0; -1 for none.
LastAssistant(messages) ==
    Max({i - 1 : i \in {j \in DOMAIN messages : IssuesCalls(messages[j])}} \cup {-1})

\* Mutant of RecentMessages: all the results of the history.
AllMessages(messages) == messages

\* Only what comes after the last message of the model is new.
RecentMessages(messages) == SubSeq(messages, LastAssistant(messages) + 2, Len(messages))

\* toolResults: each key once, with the call if the request has it.  Gemini keys are
\* positions, so only the last message of the model can have their calls.
ToolResults(v, messages) ==
    LET last    == LastAssistant(messages)
        calls   == IF v = "gemini" /\ last >= 0
                   THEN ToolCalls(v, <<messages[last + 1]>>, last)
                   ELSE ToolCalls(v, messages, 0)
        recent  == RecentMessages(messages)
        parts   == SelectSeq(FlattenSeq([i \in DOMAIN recent |-> recent[i].parts]),
                             LAMBDA p : p.kind = "result")
        keys    == [j \in DOMAIN parts |-> KeyOf(v, parts, j, last)]
        Unknown == [tool |-> NULL, args |-> NULL]
        Result(j) ==
            [key    |-> keys[j],
             call   |-> IF keys[j] \in DOMAIN calls THEN calls[keys[j]]
                        ELSE [Unknown EXCEPT !.tool = parts[j].call.tool],
             result |-> parts[j].body]
    IN  {Result(j) : j \in {i \in DOMAIN parts :
                              keys[i] # NULL /\ \A k \in 1 .. i - 1 : keys[k] # keys[i]}}

\* Mutant of IsPrompt: any message of the user.
IsFromUser(v, message) == message.role = "user"

\* A message of the user that is more than the results of tools.
IsPrompt(v, message) ==
    /\ message.role = "user"
    /\ CASE v = "anthropic" -> \E i \in DOMAIN message.parts : message.parts[i].kind # "result"
         [] v = "gemini"    -> \E i \in DOMAIN message.parts : message.parts[i].kind = "text"
         [] v = "chat"      -> TRUE
         [] v = "responses" -> message.type \in {NULL, "message"}

\* turnAnchor: the position of the last prompt, -1 for none.
TurnAnchor(v, messages) ==
    Max({i - 1 : i \in {j \in DOMAIN messages : IsPrompt(v, messages[j])}} \cup {-1})

==============================================================================
