---- MODULE MCLLMClient ----
(* Instance of LLMClient: one kind of request for every way the three      *)
(* entry points differ.                                                    *)
EXTENDS LLMClient

CONSTANTS a, b

Kind(call, oneShot, replaySafe, discovery, malformed) ==
    [call |-> call, oneShot |-> oneShot, replaySafe |-> replaySafe,
     discovery |-> discovery, malformed |-> malformed]

Chat        == Kind("raw", FALSE, FALSE, FALSE, FALSE)
BadChat     == Kind("raw", FALSE, FALSE, FALSE, TRUE)
Stream      == Kind("stream", FALSE, FALSE, FALSE, FALSE)
ProxiedList == Kind("passthrough", FALSE, TRUE, TRUE, FALSE)
ProxiedBody == Kind("passthrough", TRUE, FALSE, FALSE, FALSE)

AllKinds  == {Chat, BadChat, Stream, ProxiedList, ProxiedBody}
BodyKinds == {ProxiedBody}
ChatKinds == {Chat}
====
