---------------------------- MODULE UnaryCallInv ----------------------------
(***************************************************************************)
(* The inductive invariant of UnaryCall: what the places of client,        *)
(* exchange and server say of each other.                                  *)
(***************************************************************************)
EXTENDS UnaryCall

\* Before the fetch there is no exchange and no timer; until it has settled
\* a call has no result.
ClientInv(c) ==
    /\ pc[c] \in {"idle", "importing"} => wire[c] = "none" /\ timer[c] = "off"
    /\ pc[c] = "fetching" => wire[c] # "none"
    /\ pc[c] = "reading" => wire[c] \in {"headers", "complete", "cut"}
    /\ pc[c] # "settled" => result[c] = Pending
    /\ timer[c] = "armed" => pc[c] = "fetching" \/ result[c].code = "thrown"

\* Nothing reaches the server that was not sent, and no response comes that
\* it has not given.
WireInv(c) ==
    /\ wire[c] = "none" => server[c] = "none"
    /\ wire[c] \in {"headers", "complete", "cut"} =>
        server[c] \in {"refused", "returned"}

\* The response is one of those its origin can give.
AnswerInv(c) ==
    /\ server[c] = "refused" => answer[c] \in OtherReplies
    /\ server[c] = "returned" => answer[c] \in BodyReplies

\* What is settled was either never sent, or read from the response given, or
\* says nothing of it.
ResultInv(c) ==
    /\ Unsent(result[c]) => wire[c] = "none"
    /\ result[c].payload \in {"value", "envelope"} =>
        /\ server[c] \in {"refused", "returned"}
        /\ result[c] = Verdict(answer[c])
    /\ result[c].payload = "output" =>
        /\ server[c] \in {"refused", "returned"}
        /\ Verdict(answer[c]).payload = "value"

CallInv(c) == ClientInv(c) /\ WireInv(c) /\ AnswerInv(c) /\ ResultInv(c)

Inv == TypeOK /\ \A c \in Calls : CallInv(c)
=============================================================================
