----------------------------- MODULE UnaryCall -----------------------------
(***************************************************************************)
(* A query or mutation end to end: the client proxy (index.ts), the lazily *)
(* imported HttpTransport (http.ts), one HTTP exchange, the unary route of *)
(* the router (router.rs) and the handler the #[rpc] macro generates       *)
(* around the procedure's body (rpc_attr.rs).                              *)
(*                                                                         *)
(* Values are abstracted to what is judged of them: a request is a record  *)
(* of the judgements the code on its way makes, a response is its status,  *)
(* the shape of its body and the error code in it.                         *)
(***************************************************************************)
EXTENDS Naturals

CONSTANTS
    Calls,          \* the calls made through one client
    Requests,       \* the requests they may make
    UserErrors,     \* [code, status] of the errors a procedure may return
    LayerReplies    \* the responses a middleware layer may give on its own

\* A request: its kind in the client's `kinds` map, its HTTP method, whether
\* the input schema accepts it, whether a timeout is set, whether the server
\* has the procedure, what the server makes of the input, and whether an
\* output schema is checked.
RequestType ==
    [kind : {"query", "subscription"}, method : {"POST", "GET"},
     accepted : BOOLEAN, timed : BOOLEAN, known : BOOLEAN,
     input : {"unreadable", "misfit", "invalid", "good"}, checked : BOOLEAN]

\* A response.  code is "none" unless the body is an `err` envelope.
Shapes == {"ok", "err", "json", "text"}
OwnCodes ==
    {"none", "ok", "decode_error", "validation_error", "not_found", "http_error",
     "serialization_error", "transport_error", "invalid_kind", "thrown"}
Codes ==
    OwnCodes \cup {e.code : e \in UserErrors} \cup {a.code : a \in LayerReplies}
ReplyType == [status : Nat, shape : Shapes, code : Codes]

ASSUME RequestsAssumption == Requests \subseteq RequestType
ASSUME UserErrorsAssumption == UserErrors \subseteq [code : Codes, status : Nat]
ASSUME LayerRepliesAssumption == LayerReplies \subseteq ReplyType

VARIABLES
    module,     \* the memoised import() of http.js
    request,    \* request[c]: what call c asks
    pc,         \* pc[c]: where the client is
    timer,      \* timer[c]: the abort timer
    wire,       \* wire[c]: the HTTP exchange
    server,     \* server[c]: what the server has done with the request
    answer,     \* answer[c]: the response it gives
    result      \* result[c]: how the promise settled

vars == <<module, request, pc, timer, wire, server, answer, result>>

NoRequest == [kind |-> "none"]
NoReply   == [status |-> 0, shape |-> "text", code |-> "none"]

\* How a promise settles.  payload tells where the error's payload is from:
\* the server's envelope, a text of the transport, the schema's issues on
\* the input or the output, or nothing for an exception that is no TautError.
Settled(code, status, payload) ==
    [code |-> code, status |-> status, payload |-> payload]
Pending == Settled("none", 0, "none")

Reply(status, shape, code) ==
    [status |-> status, shape |-> shape, code |-> code]

Init ==
    /\ module = "none"
    /\ request = [c \in Calls |-> NoRequest]
    /\ pc = [c \in Calls |-> "idle"]
    /\ timer = [c \in Calls |-> "off"]
    /\ wire = [c \in Calls |-> "none"]
    /\ server = [c \in Calls |-> "none"]
    /\ answer = [c \in Calls |-> NoReply]
    /\ result = [c \in Calls |-> Pending]

-----------------------------------------------------------------------------
(* The client.                                                             *)

Settle(c, r) ==
    /\ pc' = [pc EXCEPT ![c] = "settled"]
    /\ result' = [result EXCEPT ![c] = r]

\* The proxy's apply: the input schema refuses at once; otherwise the call
\* waits for the transport, whose import the first call starts.
Invoke(c, q) ==
    /\ pc[c] = "idle"
    /\ request' = [request EXCEPT ![c] = q]
    /\ IF q.accepted
       THEN /\ pc' = [pc EXCEPT ![c] = "importing"]
            /\ module' = IF module = "none" THEN "loading" ELSE module
            /\ UNCHANGED result
       ELSE /\ Settle(c, Settled("validation_error", 0, "input"))
            /\ UNCHANGED module
    /\ UNCHANGED <<timer, wire, server, answer>>

ImportSettles ==
    /\ module = "loading"
    /\ module' \in {"ready", "failed"}
    /\ UNCHANGED <<request, pc, timer, wire, server, answer, result>>

\* ensureHttp memoises the promise, so a failed import fails every call.
ImportRejects(c) ==
    /\ pc[c] = "importing"
    /\ module = "failed"
    /\ Settle(c, Settled("thrown", 0, "none"))
    /\ UNCHANGED <<module, request, timer, wire, server, answer>>

\* Mutant: the lazy transport does not hand timeoutMs on.
NeverArmed(c) == "off"

Armed(c) == IF request[c].timed THEN "armed" ELSE "off"

CallSubscription(c) ==
    /\ pc[c] = "importing"
    /\ module = "ready"
    /\ request[c].kind = "subscription"
    /\ Settle(c, Settled("invalid_kind", 0, "text"))
    /\ UNCHANGED <<module, request, timer, wire, server, answer>>

\* The `headers` thunk throws: the timer is set by then, and stays set.
HeadersThrow(c) ==
    /\ pc[c] = "importing"
    /\ module = "ready"
    /\ request[c].kind # "subscription"
    /\ timer' = [timer EXCEPT ![c] = Armed(c)]
    /\ Settle(c, Settled("thrown", 0, "none"))
    /\ UNCHANGED <<module, request, wire, server, answer>>

StartFetch(c) ==
    /\ pc[c] = "importing"
    /\ module = "ready"
    /\ request[c].kind # "subscription"
    /\ timer' = [timer EXCEPT ![c] = Armed(c)]
    /\ pc' = [pc EXCEPT ![c] = "fetching"]
    /\ wire' = [wire EXCEPT ![c] = "requested"]
    /\ UNCHANGED <<module, request, server, answer, result>>

\* Mutant: the timeout only races with the fetch and aborts nothing.
FiresWithoutAbort(c) ==
    /\ timer[c] = "armed"
    /\ timer' = [timer EXCEPT ![c] = "off"]
    /\ IF pc[c] = "fetching"
       THEN Settle(c, Settled("transport_error", 0, "text"))
       ELSE UNCHANGED <<pc, result>>
    /\ UNCHANGED <<module, request, wire, server, answer>>

\* The timer aborts the request.  It is off once the headers are here, and
\* one that an earlier exception left behind has nothing to abort.
TimerFires(c) ==
    /\ timer[c] = "armed"
    /\ timer' = [timer EXCEPT ![c] = "off"]
    /\ IF pc[c] = "fetching"
       THEN /\ wire' = [wire EXCEPT ![c] = "aborted"]
            /\ Settle(c, Settled("transport_error", 0, "text"))
       ELSE UNCHANGED <<wire, pc, result>>
    /\ UNCHANGED <<module, request, server, answer>>

FetchFails(c) ==
    /\ pc[c] = "fetching"
    /\ wire[c] = "broken"
    /\ timer' = [timer EXCEPT ![c] = "off"]
    /\ Settle(c, Settled("transport_error", 0, "text"))
    /\ UNCHANGED <<module, request, wire, server, answer>>

\* Mutant: the timer is cleared only when fetch fails.
LeavesTimer(c) ==
    /\ pc[c] = "fetching"
    /\ wire[c] \in {"headers", "complete", "cut"}
    /\ pc' = [pc EXCEPT ![c] = "reading"]
    /\ UNCHANGED <<module, request, timer, wire, server, answer, result>>

\* fetch resolves with the headers; from here no timer runs.
FetchResolves(c) ==
    /\ pc[c] = "fetching"
    /\ wire[c] \in {"headers", "complete", "cut"}
    /\ timer' = [timer EXCEPT ![c] = "off"]
    /\ pc' = [pc EXCEPT ![c] = "reading"]
    /\ UNCHANGED <<module, request, wire, server, answer, result>>

IsOk(status) == status \in 200..299

\* Mutant: every JSON body of a success status is the value.
VerdictByStatus(a) ==
    CASE a.shape = "text" -> Settled("decode_error", a.status, "text")
      [] a.shape # "text" /\ IsOk(a.status) -> Settled("ok", a.status, "value")
      [] a.shape = "err" /\ ~IsOk(a.status) ->
            Settled(a.code, a.status, "envelope")
      [] OTHER -> Settled("http_error", a.status, "text")

\* Mutant: the body is handed on as the error, without its envelope.
VerdictOfBody(a) ==
    CASE a.shape = "text" -> Settled("decode_error", a.status, "text")
      [] a.shape = "ok" /\ IsOk(a.status) -> Settled("ok", a.status, "value")
      [] OTHER -> Settled(a.code, a.status, a.shape)

\* What HttpTransport.call makes of a whole response.
Verdict(a) ==
    CASE a.shape = "text" -> Settled("decode_error", a.status, "text")
      [] a.shape = "ok" /\ IsOk(a.status) -> Settled("ok", a.status, "value")
      [] a.shape # "text" /\ a.shape # "ok" /\ IsOk(a.status) ->
            Settled("decode_error", a.status, "text")
      [] a.shape = "err" /\ ~IsOk(a.status) ->
            Settled(a.code, a.status, "envelope")
      [] OTHER -> Settled("http_error", a.status, "text")

\* The body is whole.  The output schema judges a value; errors pass it by.
ReadsBody(c) ==
    /\ pc[c] = "reading"
    /\ wire[c] = "complete"
    /\ \/ Settle(c, Verdict(answer[c]))
       \/ /\ Verdict(answer[c]).payload = "value"
          /\ request[c].checked
          /\ Settle(c, Settled("validation_error", 0, "output"))
    /\ UNCHANGED <<module, request, timer, wire, server, answer>>

\* The connection is lost within the body: resp.json() rejects.
BodyFails(c) ==
    /\ pc[c] = "reading"
    /\ wire[c] = "cut"
    /\ Settle(c, Settled("decode_error", answer[c].status, "text"))
    /\ UNCHANGED <<module, request, timer, wire, server, answer>>

-----------------------------------------------------------------------------
(* The server.                                                             *)

\* A status hyper sends without a body.
Bodiless == {204, 304}

\* procedure_result_into_response on an error: a number that is no status
\* becomes 500.
ErrorReply(status, code) ==
    LET st == IF status \in 100..999 THEN status ELSE 500
    IN  IF st \in Bodiless THEN Reply(st, "text", "none")
        ELSE Reply(st, "err", code)

\* StandardError's variants: their codes and what http_status makes of them.
StandardErrors ==
    {[code |-> "bad_request", status |-> 400],
     [code |-> "validation_error", status |-> 400],
     [code |-> "unauthenticated", status |-> 401],
     [code |-> "forbidden", status |-> 403],
     [code |-> "not_found", status |-> 404],
     [code |-> "conflict", status |-> 409],
     [code |-> "unprocessable_entity", status |-> 422],
     [code |-> "rate_limited", status |-> 429],
     [code |-> "internal", status |-> 500],
     [code |-> "service_unavailable", status |-> 503],
     [code |-> "timeout", status |-> 504]}

Answers(c, how, a) ==
    /\ server' = [server EXCEPT ![c] = how]
    /\ answer' = [answer EXCEPT ![c] = a]
    /\ UNCHANGED <<module, request, pc, timer, wire, result>>

\* Mutant: a request may be delivered again once it has been answered.
ReachesAgain(c) == wire[c] # "none" /\ server[c] # "running"

\* The request has left the client.  What the client does to the exchange
\* afterwards does not take back what the server has already received.
Reaches(c) == wire[c] # "none" /\ server[c] = "none"

LayerAnswers(c) ==
    /\ Reaches(c)
    /\ \E a \in LayerReplies : Answers(c, "refused", a)

NotFound(c) ==
    /\ Reaches(c)
    /\ ~request[c].known
    /\ Answers(c, "refused", ErrorReply(404, "not_found"))

\* A unary procedure is mounted for POST alone.
WrongMethod(c) ==
    /\ Reaches(c)
    /\ request[c].known
    /\ request[c].method # "POST"
    /\ Answers(c, "refused", Reply(405, "text", "none"))

Routed(c) == Reaches(c) /\ request[c].known /\ request[c].method = "POST"

\* RpcInput cannot take the body, or serde cannot make the input type of it.
DecodeRefuses(c) ==
    /\ Routed(c)
    /\ request[c].input \in {"unreadable", "misfit"}
    /\ Answers(c, "refused", ErrorReply(400, "decode_error"))

ValidateRefuses(c) ==
    /\ Routed(c)
    /\ request[c].input = "invalid"
    /\ Answers(c, "refused", ErrorReply(400, "validation_error"))

HandlerStarts(c) ==
    /\ Routed(c)
    /\ request[c].input = "good"
    /\ Answers(c, "running", NoReply)

\* Mutant: an output serde cannot serialise is answered like an input.
ReturnsDecodeError(c) ==
    /\ server[c] = "running"
    /\ \/ Answers(c, "returned", Reply(200, "ok", "none"))
       \/ Answers(c, "returned", ErrorReply(400, "decode_error"))

HandlerReturnsOk(c) ==
    /\ server[c] = "running"
    /\ \/ Answers(c, "returned", Reply(200, "ok", "none"))
       \/ Answers(c, "returned", ErrorReply(500, "serialization_error"))

HandlerReturnsErr(c) ==
    /\ server[c] = "running"
    /\ \E e \in UserErrors : Answers(c, "returned", ErrorReply(e.status, e.code))

\* A panic takes the connection's task down, and the connection with it.
HandlerPanics(c) ==
    /\ server[c] = "running"
    /\ server' = [server EXCEPT ![c] = "panicked"]
    /\ wire' = [wire EXCEPT ![c] = IF @ = "requested" THEN "broken" ELSE @]
    /\ UNCHANGED <<module, request, pc, timer, answer, result>>

\* The connection is gone: hyper drops the handler's future where it waits.
ServerDrops(c) ==
    /\ server[c] = "running"
    /\ wire[c] \in {"aborted", "broken"}
    /\ server' = [server EXCEPT ![c] = "dropped"]
    /\ UNCHANGED <<module, request, pc, timer, wire, answer, result>>

-----------------------------------------------------------------------------
(* The network.                                                            *)

HeadersArrive(c) ==
    /\ wire[c] = "requested"
    /\ server[c] \in {"refused", "returned"}
    /\ wire' = [wire EXCEPT ![c] = "headers"]
    /\ UNCHANGED <<module, request, pc, timer, server, answer, result>>

BodyArrives(c) ==
    /\ wire[c] = "headers"
    /\ wire' = [wire EXCEPT ![c] = "complete"]
    /\ UNCHANGED <<module, request, pc, timer, server, answer, result>>

NetworkBreaks(c) ==
    /\ wire[c] \in {"requested", "headers"}
    /\ wire' = [wire EXCEPT ![c] = IF @ = "headers" THEN "cut" ELSE "broken"]
    /\ UNCHANGED <<module, request, pc, timer, server, answer, result>>

-----------------------------------------------------------------------------
Resumes(c) ==
    \/ ImportRejects(c)
    \/ CallSubscription(c)
    \/ HeadersThrow(c)
    \/ StartFetch(c)

ClientStep(c) ==
    \/ Resumes(c)
    \/ FetchFails(c)
    \/ FetchResolves(c)
    \/ ReadsBody(c)
    \/ BodyFails(c)

ServerTakes(c) ==
    \/ LayerAnswers(c)
    \/ NotFound(c)
    \/ WrongMethod(c)
    \/ DecodeRefuses(c)
    \/ ValidateRefuses(c)
    \/ HandlerStarts(c)

HandlerEnds(c) ==
    \/ HandlerReturnsOk(c)
    \/ HandlerReturnsErr(c)
    \/ HandlerPanics(c)

Next ==
    \/ ImportSettles
    \/ \E c \in Calls :
        \/ \E q \in Requests : Invoke(c, q)
        \/ ClientStep(c)
        \/ TimerFires(c)
        \/ ServerTakes(c)
        \/ HandlerEnds(c)
        \/ ServerDrops(c)
        \/ HeadersArrive(c)
        \/ BodyArrives(c)
        \/ NetworkBreaks(c)

Spec == Init /\ [][Next]_vars

\* The client's event loop: timers fire, and promises that have settled are
\* resumed.  That the import() settles is not promised.
ClientFairness ==
    \A c \in Calls : WF_vars(ClientStep(c)) /\ WF_vars(TimerFires(c))

\* The server notices a dead connection.  No handler, no request and no body
\* is promised to come to its end.
PeerFairness == \A c \in Calls : WF_vars(ServerDrops(c))

FairSpec == Spec /\ ClientFairness /\ PeerFairness

-----------------------------------------------------------------------------
(* Properties.                                                             *)

PcValues == {"idle", "importing", "fetching", "reading", "settled"}
WireValues ==
    {"none", "requested", "headers", "complete", "broken", "cut", "aborted"}
ServerValues ==
    {"none", "refused", "running", "returned", "panicked", "dropped"}

Payloads == {"none", "value", "text", "envelope", "input", "output"}
ResultType == [code : Codes, status : Nat, payload : Payloads]

\* The types of the variables.
TypeOK ==
    /\ module \in {"none", "loading", "ready", "failed"}
    /\ request \in [Calls -> Requests \cup {NoRequest}]
    /\ pc \in [Calls -> PcValues]
    /\ timer \in [Calls -> {"off", "armed"}]
    /\ wire \in [Calls -> WireValues]
    /\ server \in [Calls -> ServerValues]
    /\ answer \in [Calls -> ReplyType]
    /\ result \in [Calls -> ResultType]

\* The responses that come of the procedure's body, and those that any other
\* part of the server gives: the caller knows both sets, and sees a result.
BodyReplies ==
    {ErrorReply(e.status, e.code) : e \in UserErrors}
        \cup {Reply(200, "ok", "none"), ErrorReply(500, "serialization_error")}
OtherReplies ==
    LayerReplies \cup
        {ErrorReply(404, "not_found"), Reply(405, "text", "none"),
         ErrorReply(400, "decode_error"), ErrorReply(400, "validation_error")}

Means(replies, r) == \E a \in replies : Verdict(a) = r
MeansOnly(replies, others, r) == Means(replies, r) /\ ~Means(others, r)

\* The results of a call that sent nothing.
Unsent(r) ==
    \/ r.payload = "input"
    \/ r \in {Settled("thrown", 0, "none"), Settled("invalid_kind", 0, "text")}

\* What the caller may conclude from a result.  One that the body and another
\* part of the server can both have given, as the `not_found` of the router
\* and of StandardError, leaves it in doubt.
VerdictOf(r) ==
    CASE r = Pending -> "none"
      [] Unsent(r) -> "refused"
      [] r.payload = "value" /\ MeansOnly(BodyReplies, OtherReplies, r) -> "value"
      [] r.payload = "envelope" /\ MeansOnly(BodyReplies, OtherReplies, r) -> "error"
      [] r.payload \in {"value", "envelope"}
            /\ MeansOnly(OtherReplies, BodyReplies, r) -> "refused"
      [] r.payload = "output"
            /\ \A a \in OtherReplies : Verdict(a).payload # "value" -> "error"
      [] OTHER -> "doubt"

Effect(c) ==
    CASE server[c] \in {"none", "refused"} -> "none"
      [] server[c] = "running" -> "running"
      [] server[c] = "returned" -> "done"
      [] server[c] \in {"panicked", "dropped"} -> "cut"

Contract == INSTANCE CallContract WITH
    effect <- [c \in Calls |-> Effect(c)],
    verdict <- [c \in Calls |-> VerdictOf(result[c])]

\* A call keeps the contract of CallContract: its body runs at most once,
\* a value or an error of the procedure means that it ran to its end, and a
\* refusal that it did not run and never will.
ImplementsContract == Contract!Spec

Ran(c) == server[c] \notin {"none", "refused"}

\* A call the caller must take for refused never ran: not before the refusal
\* and, the request being answered or never sent, not after it.
RefusedNeverRuns ==
    \A c \in Calls : VerdictOf(result[c]) = "refused" => ~Ran(c)

\* `not_found` is the router's word for a procedure it does not have: a call
\* that fails with it did not run.
NotFoundDidNotRun ==
    \A c \in Calls :
        (result[c].payload = "envelope" /\ result[c].code = "not_found") => ~Ran(c)

\* What the server answered reaches the caller unchanged or not at all: a
\* value is an `ok` body at a success status, an error of the server's has
\* its code and status.
ResultIsAnswer ==
    \A c \in Calls :
        /\ result[c].payload = "value" =>
            /\ server[c] \in {"refused", "returned"}
            /\ answer[c].shape = "ok"
            /\ result[c].status = answer[c].status
        /\ result[c].payload = "envelope" =>
            /\ server[c] \in {"refused", "returned"}
            /\ answer[c].shape = "err"
            /\ result[c].code = answer[c].code
            /\ result[c].status = answer[c].status

\* An abort timer runs only while the call waits for the headers: one that
\* outlived them would abort the reading of an answer that is already here.
\* The exception is a call whose `headers` thunk threw.
TimerGuardsFetch ==
    \A c \in Calls : timer[c] = "armed" =>
        pc[c] = "fetching" \/ result[c].code = "thrown"

\* Where a call with a timeout may wait for ever: for the import of the
\* transport, before the timer is set, and for the rest of a body, after it is
\* cleared.
Stalled(c) ==
    \/ pc[c] = "importing" /\ module = "loading"
    \/ pc[c] = "reading" /\ wire[c] = "headers"

\* A call with a timeout settles unless it is left at one of these two waits,
\* whatever server and network do.
SettlesUnlessStalled ==
    \A c \in Calls :
        (pc[c] # "idle" /\ request[c].timed) ~> [](pc[c] = "settled" \/ Stalled(c))

\* The handler of a call that has settled without its answer does not run
\* on: the abort takes the exchange down, and the server drops the handler.
AbandonedStops ==
    \A c \in Calls :
        (pc[c] = "settled" /\ server[c] = "running") ~> (server[c] # "running")
=============================================================================
