---------------------------- MODULE MCConversation ----------------------------
(***************************************************************************)
(* A small instance of Conversation: three exchanges, the first with the   *)
(* replies and usages of MCReplyCosts, the others with a text, with a call *)
(* of the same tool, or with two calls, for Gemini with ids and without.   *)
(***************************************************************************)
EXTENDS Conversation, MCReplyCosts

Next1 == Call("c1", "f", <<"{", "}">>)
Next2 == Call("c2", "g", <<"{", "}">>)

MCFollowUps ==
    [v \in {"anthropic", "chat", "responses", "gemini"} |->
        {<<Short>>, <<Next1, Next2>>}
        \cup IF v = "gemini" THEN {<<Unnamed>>} ELSE {}]

MCFollowUsage == Used(1, 0, 0, 0)

==============================================================================
