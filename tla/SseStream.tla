----------------------------- MODULE SseStream -----------------------------
(***************************************************************************)
(* One subscription over SSE from end to end: the stream the rpc macro     *)
(* builds, sse_response_for of router.rs, the HTTP response in between,    *)
(* and the iterators stacked on the client: the consume generator of       *)
(* sse.ts, the iterator around it that owns the AbortController, the lazy  *)
(* generator of index.ts's defaultTransport, and its validateAsyncIterable.*)
(*                                                                         *)
(* The consumer pulls with next() and may give up with return().  A for-   *)
(* await loop calls return() only between two next() calls, and not at all *)
(* after a next() that rejected; a "hasty" consumer holds the iterator and *)
(* calls return() while a next() is pending.                               *)
(***************************************************************************)
EXTENDS Naturals, Sequences

CONSTANTS Call,        \* the one subscription
          Clients,     \* the client set-ups considered
          MaxFrames    \* bound: frames the stream yields

\* lazy: through defaultTransport; checked: with an output schema; hasty: above.
Setups == [lazy : BOOLEAN, checked : BOOLEAN, hasty : BOOLEAN]

ASSUME SetupAssumption == Clients \subseteq Setups /\ MaxFrames \in Nat

VARIABLES
    setup,       \* the client's set-up
    next,        \* the consumer's next(): "idle" or "pending"
    outcome,     \* how the last next() left the loop: "none" while it runs
    cancel,      \* return(): "no", "asked" or "returned"
    handed,      \* items handed to the consumer or its output schema
    shim,        \* the lazy generator: "start", "importing", then "ready"
    gen,         \* where the consume generator is
    exit,        \* why consume left its loop
    wire,        \* the request and its response
    pipe,        \* events of the response that consume has not parsed
    cut,         \* the network ended the response before the server did
    server,      \* the response body on the server
    made         \* events the stream has put on the response

consumerVars == <<setup, next, outcome, cancel, handed>>
clientVars   == <<consumerVars, shim, gen, exit>>
serverVars   == <<server, made>>
vars == <<clientVars, wire, pipe, cut, serverVars>>

Events == [kind : {"data", "error", "end"}, n : Nat]

TypeOK ==
    /\ setup \in Setups
    /\ next \in {"idle", "pending"}
    /\ outcome \in {"none", "done", "threw"}
    /\ cancel \in {"no", "asked", "returned"}
    /\ handed \in Nat
    /\ shim \in {"start", "importing", "ready"}
    /\ gen \in {"start", "fetching", "reading", "yielded", "closing", "closed"}
    /\ exit \in {"none", "end", "error", "eof", "failed", "returned"}
    /\ wire \in {"idle", "requested", "refused", "open", "eof", "broken", "aborted"}
    /\ pipe \in Seq(Events)
    /\ cut \in BOOLEAN
    /\ server \in {"none", "rejecting", "streaming", "ending", "done", "dropped"}
    /\ made \in Nat

Init ==
    /\ setup \in Clients
    /\ next = "idle"
    /\ outcome = "none"
    /\ cancel = "no"
    /\ handed = 0
    /\ shim = IF setup.lazy THEN "start" ELSE "ready"
    /\ gen = "start"
    /\ exit = "none"
    /\ wire = "idle"
    /\ pipe = <<>>
    /\ cut = FALSE
    /\ server = "none"
    /\ made = 0

-----------------------------------------------------------------------------
(* The consumer, and the requests it makes of the generators.              *)

\* consume runs to its first fetch, or on to its next read.
Pull ==
    \/ gen = "start" /\ gen' = "fetching" /\ wire' = "requested"
    \/ gen = "yielded" /\ gen' = "reading" /\ UNCHANGED wire

\* Whatever part of the response has not reached the parser may be lost.
LosesTail == \E k \in 0..Len(pipe) : pipe' = SubSeq(pipe, 1, k)

\* controller.abort(): errors the fetch or its body, if there is one.
Abort ==
    /\ wire' = IF wire \in {"requested", "open", "eof"} THEN "aborted" ELSE wire
    /\ LosesTail

Running == outcome = "none" /\ cancel = "no"

ConsumerNext ==
    /\ Running
    /\ next = "idle"
    /\ next' = "pending"
    /\ IF shim = "start"
       THEN shim' = "importing" /\ UNCHANGED <<gen, wire>>
       ELSE Pull /\ UNCHANGED shim
    /\ UNCHANGED <<setup, outcome, cancel, handed, exit, pipe, cut, serverVars>>

ImportResolves ==
    /\ shim = "importing"
    /\ shim' = "ready"
    /\ Pull
    /\ UNCHANGED <<consumerVars, exit, pipe, cut, serverVars>>

ImportFails ==
    /\ shim = "importing"
    /\ shim' = "ready"
    /\ gen' = "closed"
    /\ exit' = "failed"
    /\ next' = "idle"
    /\ outcome' = "threw"
    /\ UNCHANGED <<setup, cancel, handed, wire, pipe, cut, serverVars>>

\* Mutant: return() of the iterator only forwards to the generator.
ForgetsAbort ==
    /\ Running
    /\ next = "pending" => setup.hasty
    /\ cancel' = "asked"
    /\ UNCHANGED <<setup, next, outcome, handed, shim, gen, exit, wire, pipe, cut, serverVars>>

\* The iterator of sse.ts aborts at once and queues the return behind a
\* pending next; the lazy generator queues it and leaves the abort for later.
ConsumerReturn ==
    /\ Running
    /\ next = "pending" => setup.hasty
    /\ cancel' = "asked"
    /\ IF setup.lazy THEN UNCHANGED <<wire, pipe>> ELSE Abort
    /\ UNCHANGED <<setup, next, outcome, handed, shim, gen, exit, cut, serverVars>>

\* Mutant: consume has no finally block.
SkipsFinally ==
    /\ cancel = "asked"
    /\ next = "idle"
    /\ gen \in {"start", "yielded"}
    /\ gen' = "closed"
    /\ exit' = "returned"
    /\ UNCHANGED <<consumerVars, shim, wire, pipe, cut, serverVars>>

\* The queued return reaches consume.  Before the first next there is no
\* request to cancel; later its finally block runs.
ReturnReaches ==
    /\ cancel = "asked"
    /\ next = "idle"
    /\ \/ /\ gen = "start"
          /\ gen' = "closed"
          /\ UNCHANGED <<wire, pipe>>
       \/ /\ gen = "yielded"
          /\ gen' = "closing"
          /\ IF setup.lazy THEN Abort ELSE UNCHANGED <<wire, pipe>>
    /\ exit' = "returned"
    /\ UNCHANGED <<consumerVars, shim, cut, serverVars>>

ReturnResolves ==
    /\ cancel = "asked"
    /\ next = "idle"
    /\ gen = "closed"
    /\ cancel' = "returned"
    /\ UNCHANGED <<setup, next, outcome, handed, shim, gen, exit, wire, pipe, cut, serverVars>>

-----------------------------------------------------------------------------
(* The consume generator.                                                  *)

FetchResolves ==
    /\ gen = "fetching"
    /\ wire \in {"open", "eof"}
    /\ gen' = "reading"
    /\ UNCHANGED <<consumerVars, shim, exit, wire, pipe, cut, serverVars>>

\* Mutant: the failure is kept as the response's state.
KeepsStatus ==
    /\ gen = "fetching"
    /\ wire \in {"refused", "broken", "aborted"}
    /\ gen' = "closed"
    /\ exit' = wire
    /\ next' = "idle"
    /\ outcome' = "threw"
    /\ UNCHANGED <<setup, cancel, handed, shim, wire, pipe, cut, serverVars>>

\* fetch rejects, or resolves with a status that is not 2xx.
FetchFails ==
    /\ gen = "fetching"
    /\ wire \in {"refused", "broken", "aborted"}
    /\ gen' = "closed"
    /\ exit' = "failed"
    /\ next' = "idle"
    /\ outcome' = "threw"
    /\ UNCHANGED <<setup, cancel, handed, shim, wire, pipe, cut, serverVars>>

Parses(kind) ==
    /\ gen = "reading"
    /\ pipe # <<>>
    /\ Head(pipe).kind = kind
    /\ pipe' = Tail(pipe)

\* The item is yielded.  A schema that refuses it makes next() reject, and
\* leaves the generator where it is.
ReadsData(valid) ==
    /\ Parses("data")
    /\ valid \/ setup.checked
    /\ gen' = "yielded"
    /\ handed' = handed + 1
    /\ next' = "idle"
    /\ outcome' = IF valid THEN "none" ELSE "threw"
    /\ UNCHANGED <<setup, cancel, shim, exit, wire, cut, serverVars>>

\* Mutant: an error event ends the loop as an end event does.
SwallowsError(kind) ==
    /\ Parses(kind)
    /\ gen' = "closing"
    /\ exit' = "end"
    /\ UNCHANGED <<consumerVars, shim, wire, cut, serverVars>>

\* Mutant: an error event makes next() reject and leaves the loop running.
GoesOnAfterError(kind) ==
    /\ Parses(kind)
    /\ gen' = IF kind = "error" THEN "yielded" ELSE "closing"
    /\ exit' = kind
    /\ next' = IF kind = "error" THEN "idle" ELSE next
    /\ UNCHANGED <<setup, outcome, cancel, handed, shim, wire, cut, serverVars>>

ReadsLast(kind) ==
    /\ Parses(kind)
    /\ gen' = "closing"
    /\ exit' = kind
    /\ UNCHANGED <<consumerVars, shim, wire, cut, serverVars>>

\* Mutant: the loop does not look at done.
IgnoresEof ==
    /\ gen = "reading"
    /\ pipe = <<>>
    /\ wire = "eof"
    /\ UNCHANGED vars

\* A body that is over without an end event ends the loop like one with it.
ReadsEof ==
    /\ gen = "reading"
    /\ pipe = <<>>
    /\ wire = "eof"
    /\ gen' = "closing"
    /\ exit' = "eof"
    /\ UNCHANGED <<consumerVars, shim, wire, pipe, cut, serverVars>>

ReadFails ==
    /\ gen = "reading"
    /\ pipe = <<>>
    /\ wire \in {"broken", "aborted"}
    /\ gen' = "closing"
    /\ exit' = "failed"
    /\ UNCHANGED <<consumerVars, shim, wire, pipe, cut, serverVars>>

\* Mutant: finally releases the lock and does not cancel the reader.
OnlyReleasesLock ==
    /\ gen = "closing"
    /\ gen' = "closed"
    /\ next' = "idle"
    /\ outcome' = IF next = "idle" THEN outcome
                  ELSE IF exit \in {"end", "eof"} THEN "done" ELSE "threw"
    /\ UNCHANGED <<setup, cancel, handed, shim, exit, wire, pipe, cut, serverVars>>

\* finally: reader.cancel(), then the pending next() settles.
ReaderCancelled ==
    /\ gen = "closing"
    /\ gen' = "closed"
    /\ wire' = IF wire = "open" THEN "aborted" ELSE wire
    /\ next' = "idle"
    /\ outcome' = IF next = "idle" THEN outcome
                  ELSE IF exit \in {"end", "eof"} THEN "done" ELSE "threw"
    /\ UNCHANGED <<setup, cancel, handed, shim, exit, pipe, cut, serverVars>>

-----------------------------------------------------------------------------
(* The server.                                                             *)

Sends(kind) ==
    pipe' = IF wire = "open" THEN Append(pipe, [kind |-> kind, n |-> made + 1])
            ELSE pipe

\* The route answers 200 and the body starts.  Input that is not JSON, or
\* does not decode, or does not validate, is worth one error event.
ServerAccepts ==
    /\ server = "none"
    /\ wire \in {"requested", "aborted"}
    /\ server' \in {"streaming", "rejecting"}
    /\ wire' = IF wire = "requested" THEN "open" ELSE wire
    /\ UNCHANGED <<clientVars, pipe, cut, made>>

\* No such route, or a layer in front of it turns the request away.
ServerRefuses ==
    /\ wire = "requested"
    /\ wire' = "refused"
    /\ UNCHANGED <<clientVars, pipe, cut, serverVars>>

ServerRejects ==
    /\ server = "rejecting"
    /\ server' = "ending"
    /\ Sends("error")
    /\ made' = made + 1
    /\ UNCHANGED <<clientVars, wire, cut>>

\* An item; or an error, after which a macro stream ends (an item that does
\* not serialize) and a hand-written one goes on if it likes.
ServerYields(kind) ==
    /\ server = "streaming"
    /\ made < MaxFrames
    /\ Sends(kind)
    /\ made' = made + 1
    /\ UNCHANGED <<clientVars, wire, cut, server>>

ServerStreamEnds ==
    /\ server = "streaming"
    /\ server' = "ending"
    /\ UNCHANGED <<clientVars, wire, pipe, cut, made>>

\* The chained end event, and with it the end of the body.
ServerEnds ==
    /\ server = "ending"
    /\ server' = "done"
    /\ Sends("end")
    /\ wire' = IF wire = "open" THEN "eof" ELSE wire
    /\ UNCHANGED <<clientVars, cut, made>>

\* hyper sees the connection go and drops the body with the stream in it.
ServerDrops ==
    /\ server \in {"rejecting", "streaming", "ending"}
    /\ wire \in {"aborted", "broken", "eof"}
    /\ server' = "dropped"
    /\ UNCHANGED <<clientVars, wire, pipe, cut, made>>

\* The connection breaks, or an intermediary ends the response as if it were
\* complete.
NetworkCuts(how) ==
    /\ wire \in IF how = "broken" THEN {"requested", "open", "eof"} ELSE {"open"}
    /\ wire' = how
    /\ LosesTail
    /\ cut' = TRUE
    /\ UNCHANGED <<clientVars, serverVars>>

-----------------------------------------------------------------------------
\* The consumer is through with the subscription.
Over == outcome # "none" \/ cancel = "returned"

ServerOver == server \in {"none", "done", "dropped"}

Finished == Over /\ ServerOver /\ UNCHANGED vars

ConsumerStep == ConsumerNext \/ ConsumerReturn

\* What the client's generators do once they have been asked.
ClientStep ==
    \/ ImportResolves \/ ImportFails
    \/ ReturnReaches \/ ReturnResolves
    \/ FetchResolves \/ FetchFails
    \/ \E valid \in BOOLEAN : ReadsData(valid)
    \/ \E kind \in {"error", "end"} : ReadsLast(kind)
    \/ ReadsEof \/ ReadFails \/ ReaderCancelled

\* What the server does on its own, as opposed to what the stream does.
ServerStep == ServerAccepts \/ ServerRefuses \/ ServerRejects \/ ServerEnds \/ ServerDrops

StreamStep == ServerStreamEnds \/ \E kind \in {"data", "error"} : ServerYields(kind)

Next ==
    \/ ConsumerStep
    \/ ClientStep
    \/ ServerStep
    \/ StreamStep
    \/ \E how \in {"broken", "eof"} : NetworkCuts(how)
    \/ Finished

Spec == Init /\ [][Next]_vars

\* The client's event loop and the server's runtime keep going, and the server
\* answers.  Nothing is assumed of the consumer, the stream or the network.
Fairness == WF_vars(ClientStep) /\ WF_vars(ServerStep)

FairSpec == Spec /\ Fairness

-----------------------------------------------------------------------------
(* Properties.                                                             *)

\* A loop that comes to its end by itself, over a response that was not cut
\* short, has been handed every event of the stream, and none was an error.
CompletionIsWhole ==
    outcome = "done" /\ cancel = "no" /\ ~cut =>
        handed = made /\ server = "done"

\* Once return() has resolved nothing is left of the request on the client:
\* the generator is closed and the response is not being read.
ReturnReleases ==
    cancel = "returned" => gen = "closed" /\ wire \notin {"requested", "open"}

\* A pending next() settles once the response is over, however that came.
NextSettles ==
    next = "pending" /\ (server \in {"done", "dropped"} \/ wire = "broken") ~> next = "idle"

\* When the consumer is through, the server's stream does not stay behind.
Released == Over ~> ServerOver

\* The same, unless the consumer is through because its output schema refused
\* an item, which leaves the generator at that item.
ReleasedUnlessRefused ==
    Over /\ ~(outcome = "threw" /\ gen = "yielded") ~> ServerOver

Phase ==
    IF exit \in {"end", "error"} THEN "ended"
    ELSE IF exit # "none" THEN "lost"
    ELSE IF gen = "start" /\ next = "idle" THEN "unsent"
    ELSE IF cancel = "asked" THEN "closing"
    ELSE "open"

Abs == INSTANCE Subscription WITH
    Subs <- {Call},
    phase <- [s \in {Call} |-> Phase],
    count <- [s \in {Call} |-> handed + IF Phase = "ended" THEN 1 ELSE 0]

\* The SSE stream keeps the promise of Subscription, with an error or an end
\* event as its closing frame.
ImplementsSubscription == Abs!AbsSafety

\* A subscription the consumer has given up is over in the end, unless the
\* return() is queued behind a pending next().
ReturnEnds == ~(setup.lazy /\ setup.hasty) => Abs!ClosingEnds(Call)
=============================================================================
