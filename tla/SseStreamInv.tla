---------------------------- MODULE SseStreamInv ----------------------------
(***************************************************************************)
(* The inductive invariant of SseStream.  TLC checks it on the instances   *)
(* of MCSseStream; SseStreamProofs proves it inductive for all of them.    *)
(***************************************************************************)
EXTENDS SseStream

\* consume is in its loop, or has not begun.
InLoop == gen \in {"start", "fetching", "reading", "yielded"}

GenInv ==
    /\ InLoop => exit = "none"
    /\ ~InLoop => exit # "none"
    /\ shim = "importing" => gen = "start" /\ next = "pending"
    /\ shim = "start" => gen \in {"start", "closed"} /\ next = "idle"
    /\ gen = "start" => wire = "idle" /\ handed = 0 /\ (next = "pending" => shim = "importing")
    /\ gen \in {"fetching", "reading"} => next = "pending"
    /\ gen = "yielded" => next = "idle"
    /\ gen \in {"reading", "yielded", "closing"} =>
        wire \notin {"idle", "requested", "refused"}
    /\ gen = "closing" /\ next = "idle" => cancel # "no"
    /\ gen = "closed" => outcome # "none" \/ cancel # "no"
    /\ outcome = "done" => gen = "closed" /\ exit \in {"end", "eof"}
    /\ gen = "closed" => next = "idle" /\ wire \notin {"requested", "open"}
    /\ cancel = "returned" => gen = "closed"

\* Before the response there is nothing on the server.
WireInv ==
    wire \in {"idle", "requested", "refused"} =>
        server = "none" /\ pipe = <<>> /\ made = 0 /\ handed = 0

\* The response holds the events the consumer has not been handed, all of
\* them; the end event is there once the server is done, and is the last.
WholeInv ==
    cancel = "no" /\ ~cut /\ InLoop =>
        /\ wire \in {"idle", "requested", "refused", "open", "eof"}
        /\ wire = "open" =>
            /\ server \in {"rejecting", "streaming", "ending"}
            /\ made = handed + Len(pipe)
            /\ \A i \in 1..Len(pipe) : pipe[i].kind # "end"
        /\ wire = "eof" =>
            /\ server = "done"
            /\ made + 1 = handed + Len(pipe)
            /\ Len(pipe) # 0
            /\ \A i \in 1..Len(pipe) : pipe[i].kind = "end" <=> i = Len(pipe)

\* consume leaves its loop over a whole response for no other reason than
\* that the response is over.
ExitInv ==
    cancel = "no" /\ ~cut =>
        /\ exit # "eof"
        /\ exit = "end" => handed = made /\ server = "done"

IInv == GenInv /\ WireInv /\ WholeInv /\ ExitInv
=============================================================================
