-------------------------- MODULE UnaryCallProofs --------------------------
(***************************************************************************)
(* Proofs about UnaryCall: its types, its inductive invariant, the safety  *)
(* properties that follow, and that it implements CallContract.            *)
(***************************************************************************)
EXTENDS UnaryCallInv, TLAPS

-----------------------------------------------------------------------------
(* The operators on responses and results.                                 *)

\* Records built by Reply and Settled have their types.
LEMMA ReplyTyped ==
    ASSUME NEW st \in Nat, NEW sh \in Shapes, NEW code \in Codes
    PROVE  /\ Reply(st, sh, code) \in ReplyType
           /\ Reply(st, sh, code).status = st
           /\ Reply(st, sh, code).shape = sh
           /\ Reply(st, sh, code).code = code
BY DEF Reply, ReplyType

LEMMA SettledTyped ==
    ASSUME NEW code \in Codes, NEW st \in Nat, NEW p \in Payloads
    PROVE  /\ Settled(code, st, p) \in ResultType
           /\ Settled(code, st, p).code = code
           /\ Settled(code, st, p).status = st
           /\ Settled(code, st, p).payload = p
BY DEF Settled, ResultType

\* An error response is an envelope under its code, or has no body at all.
LEMMA ErrorReplyIs ==
    ASSUME NEW st \in Nat, NEW code \in Codes
    PROVE  /\ ErrorReply(st, code) \in ReplyType
           /\ ErrorReply(st, code).shape \in {"err", "text"}
           /\ ErrorReply(st, code).code \in {code, "none"}
           /\ ErrorReply(st, code).shape = "err" =>
                ErrorReply(st, code).code = code
<1>1. PICK n \in Nat : n = IF st \in 100..999 THEN st ELSE 500
  OBVIOUS
<1>2. "text" \in Shapes /\ "err" \in Shapes /\ "none" \in Codes
  BY DEF Shapes, Codes, OwnCodes
<1>3. CASE n \in Bodiless
  <2>1. ErrorReply(st, code) = Reply(n, "text", "none")
    BY <1>1, <1>3 DEF ErrorReply
  <2>2. /\ Reply(n, "text", "none") \in ReplyType
        /\ Reply(n, "text", "none").shape = "text"
        /\ Reply(n, "text", "none").code = "none"
    BY <1>2, ReplyTyped
  <2>3. ErrorReply(st, code).shape = "text"
    BY <2>1, <2>2
  <2>4. ErrorReply(st, code).code = "none"
    BY <2>1, <2>2
  <2>5. ErrorReply(st, code) \in ReplyType
    BY <2>1, <2>2
  <2> QED BY <2>3, <2>4, <2>5
<1>4. CASE n \notin Bodiless
  <2>1. ErrorReply(st, code) = Reply(n, "err", code)
    BY <1>1, <1>4 DEF ErrorReply
  <2>2. QED  BY <1>2, <2>1, ReplyTyped
<1> QED  BY <1>3, <1>4

\* What the client makes of a whole response: a value only of an `ok` body,
\* the server's error only of an `err` envelope, otherwise a text of its own.
LEMMA VerdictIs ==
    ASSUME NEW a \in ReplyType
    PROVE  /\ Verdict(a) \in ResultType
           /\ Verdict(a).payload \in {"value", "envelope", "text"}
           /\ Verdict(a).payload = "value" =>
                a.shape = "ok" /\ Verdict(a).status = a.status
           /\ Verdict(a).payload = "envelope" =>
                a.shape = "err" /\ Verdict(a).code = a.code
                                /\ Verdict(a).status = a.status
           /\ Verdict(a).payload = "text" =>
                Verdict(a).code \in {"decode_error", "http_error"}
<1>1. a.status \in Nat /\ a.shape \in Shapes /\ a.code \in Codes
  BY DEF ReplyType
<1>2. /\ {"value", "envelope", "text"} \subseteq Payloads
      /\ {"decode_error", "http_error", "ok"} \subseteq Codes
  BY DEF Payloads, Codes, OwnCodes
<1>3. CASE a.shape = "text"
  <2>1. Verdict(a) = Settled("decode_error", a.status, "text")
    BY <1>3 DEF Verdict
  <2> QED  BY <1>1, <1>2, <2>1, SettledTyped
<1>4. CASE a.shape = "ok" /\ IsOk(a.status)
  <2>1. Verdict(a) = Settled("ok", a.status, "value")
    BY <1>4 DEF Verdict
  <2> QED  BY <1>1, <1>2, <1>4, <2>1, SettledTyped
<1>5. CASE a.shape # "text" /\ a.shape # "ok" /\ IsOk(a.status)
  <2>1. Verdict(a) = Settled("decode_error", a.status, "text")
    BY <1>5 DEF Verdict
  <2> QED  BY <1>1, <1>2, <2>1, SettledTyped
<1>6. CASE a.shape = "err" /\ ~IsOk(a.status)
  <2>1. Verdict(a) = Settled(a.code, a.status, "envelope")
    BY <1>6 DEF Verdict
  <2> QED  BY <1>1, <1>2, <1>6, <2>1, SettledTyped
<1>7. CASE a.shape \notin {"text", "err"} /\ ~IsOk(a.status)
  <2>1. Verdict(a) = Settled("http_error", a.status, "text")
    BY <1>7 DEF Verdict
  <2> QED  BY <1>1, <1>2, <2>1, SettledTyped
<1> QED  BY <1>3, <1>4, <1>5, <1>6, <1>7

\* The results that do not come from a response.
OwnResult(r) ==
    \E code \in {"validation_error", "invalid_kind", "thrown",
                 "transport_error", "decode_error"},
       p \in {"none", "input", "output", "text"}, st \in Nat :
        r = Settled(code, st, p)

LEMMA OwnResultTyped ==
    ASSUME NEW r, OwnResult(r)
    PROVE  r \in ResultType
BY DEF OwnResult, Settled, ResultType, Payloads, Codes, OwnCodes

\* Settling keeps the types.
LEMMA SettleTyped ==
    ASSUME TypeOK, NEW c \in Calls, NEW r \in ResultType, Settle(c, r)
    PROVE  /\ pc' \in [Calls -> PcValues]
           /\ result' \in [Calls -> ResultType]
BY DEF TypeOK, Settle, PcValues

\* Answering keeps the types.
LEMMA AnswersTyped ==
    ASSUME TypeOK, NEW c \in Calls, NEW how \in ServerValues,
           NEW a \in ReplyType, Answers(c, how, a)
    PROVE  TypeOK'
BY DEF TypeOK, Answers

-----------------------------------------------------------------------------
(* Type correctness.                                                       *)

LEMMA InitTyped == Init => TypeOK
BY DEF Init, TypeOK, Pending, Settled, NoReply, ReplyType, ResultType, Shapes,
       Payloads, Codes, OwnCodes, PcValues, WireValues, ServerValues

LEMMA ClientTyped ==
    ASSUME TypeOK, NEW c \in Calls, ClientStep(c) \/ TimerFires(c)
    PROVE  TypeOK'
<1> USE DEF PcValues, WireValues
<1>1. CASE ImportRejects(c)
  <2>1. OwnResult(Settled("thrown", 0, "none"))
    BY DEF OwnResult
  <2> QED  BY <1>1, <2>1, OwnResultTyped, SettleTyped DEF ImportRejects, TypeOK
<1>2. CASE CallSubscription(c)
  <2>1. OwnResult(Settled("invalid_kind", 0, "text"))
    BY DEF OwnResult
  <2> QED  BY <1>2, <2>1, OwnResultTyped, SettleTyped DEF CallSubscription, TypeOK
<1>3. CASE HeadersThrow(c)
  <2>1. OwnResult(Settled("thrown", 0, "none"))
    BY DEF OwnResult
  <2> QED  BY <1>3, <2>1, OwnResultTyped, SettleTyped
           DEF HeadersThrow, Armed, TypeOK
<1>4. CASE StartFetch(c)
  BY <1>4 DEF StartFetch, Armed, TypeOK
<1>5. CASE FetchFails(c)
  <2>1. OwnResult(Settled("transport_error", 0, "text"))
    BY DEF OwnResult
  <2> QED  BY <1>5, <2>1, OwnResultTyped, SettleTyped DEF FetchFails, TypeOK
<1>6. CASE FetchResolves(c)
  BY <1>6 DEF FetchResolves, TypeOK
<1>7. CASE ReadsBody(c)
  <2>1. OwnResult(Settled("validation_error", 0, "output"))
    BY DEF OwnResult
  <2>2. answer[c] \in ReplyType
    BY DEF TypeOK
  <2> QED  BY <1>7, <2>1, <2>2, OwnResultTyped, VerdictIs, SettleTyped
           DEF ReadsBody, TypeOK
<1>8. CASE BodyFails(c)
  <2>1. answer[c].status \in Nat
    BY DEF TypeOK, ReplyType
  <2>2. OwnResult(Settled("decode_error", answer[c].status, "text"))
    BY <2>1 DEF OwnResult
  <2> QED  BY <1>8, <2>2, OwnResultTyped, SettleTyped DEF BodyFails, TypeOK
<1>9. CASE TimerFires(c)
  <2>1. OwnResult(Settled("transport_error", 0, "text"))
    BY DEF OwnResult
  <2> QED  BY <1>9, <2>1, OwnResultTyped, SettleTyped DEF TimerFires, TypeOK
<1> QED  BY <1>1, <1>2, <1>3, <1>4, <1>5, <1>6, <1>7, <1>8, <1>9
         DEF ClientStep, Resumes

\* The responses a request can get are responses.
LEMMA RepliesTyped == OtherReplies \subseteq ReplyType /\ BodyReplies \subseteq ReplyType
<1>1. {"not_found", "decode_error", "validation_error", "serialization_error",
       "none"} \subseteq Codes
  BY DEF Codes, OwnCodes
<1>2. \A st \in Nat, code \in Codes : ErrorReply(st, code) \in ReplyType
  BY ErrorReplyIs
<1>3. Reply(405, "text", "none") \in ReplyType /\ Reply(200, "ok", "none") \in ReplyType
  BY <1>1, ReplyTyped DEF Shapes
<1>4. \A e \in UserErrors : ErrorReply(e.status, e.code) \in ReplyType
  BY <1>2, UserErrorsAssumption
<1>5. OtherReplies \subseteq ReplyType
  BY <1>1, <1>2, <1>3, LayerRepliesAssumption DEF OtherReplies
<1>6. BodyReplies \subseteq ReplyType
  BY <1>1, <1>2, <1>3, <1>4 DEF BodyReplies
<1> QED  BY <1>5, <1>6

\* A request that is turned away gets one of the responses of the other parts.
LEMMA TurnsAway ==
    ASSUME NEW c \in Calls,
           \/ LayerAnswers(c) \/ NotFound(c) \/ WrongMethod(c)
           \/ DecodeRefuses(c) \/ ValidateRefuses(c)
    PROVE  /\ Reaches(c)
           /\ \E a \in OtherReplies : Answers(c, "refused", a)
BY DEF LayerAnswers, NotFound, WrongMethod, DecodeRefuses, ValidateRefuses,
       Routed, OtherReplies

\* A handler that returns gives one of the responses of the body.
LEMMA HandlerReturns ==
    ASSUME NEW c \in Calls, HandlerReturnsOk(c) \/ HandlerReturnsErr(c)
    PROVE  /\ server[c] = "running"
           /\ \E a \in BodyReplies : Answers(c, "returned", a)
BY DEF HandlerReturnsOk, HandlerReturnsErr, BodyReplies

LEMMA ServerTyped ==
    ASSUME TypeOK, NEW c \in Calls,
           ServerTakes(c) \/ HandlerEnds(c) \/ ServerDrops(c)
    PROVE  TypeOK'
<1> USE DEF ServerValues
<1>2. CASE \/ LayerAnswers(c) \/ NotFound(c) \/ WrongMethod(c)
           \/ DecodeRefuses(c) \/ ValidateRefuses(c)
  BY <1>2, TurnsAway, RepliesTyped, AnswersTyped
<1>3. CASE HandlerStarts(c)
  <2>1. NoReply \in ReplyType
    BY DEF NoReply, ReplyType, Shapes, Codes, OwnCodes
  <2> QED  BY <1>3, <2>1, AnswersTyped DEF HandlerStarts
<1>4. CASE HandlerReturnsOk(c) \/ HandlerReturnsErr(c)
  BY <1>4, HandlerReturns, RepliesTyped, AnswersTyped
<1>5. CASE HandlerPanics(c)
  BY <1>5 DEF HandlerPanics, TypeOK, WireValues
<1>6. CASE ServerDrops(c)
  BY <1>6 DEF ServerDrops, TypeOK
<1> QED  BY <1>2, <1>3, <1>4, <1>5, <1>6 DEF ServerTakes, HandlerEnds

LEMMA TypeStep == TypeOK /\ [Next]_vars => TypeOK'
<1> SUFFICES ASSUME TypeOK, [Next]_vars
             PROVE  TypeOK'
  OBVIOUS
<1>1. CASE ImportSettles
  BY <1>1 DEF ImportSettles, TypeOK
<1>2. ASSUME NEW c \in Calls, NEW q \in Requests, Invoke(c, q)
      PROVE  TypeOK'
  <2>1. Settled("validation_error", 0, "input") \in ResultType
    BY DEF Settled, ResultType, Payloads, Codes, OwnCodes
  <2>2. CASE q.accepted
    BY <1>2, <2>2 DEF Invoke, TypeOK, PcValues
  <2>3. CASE ~q.accepted
    BY <1>2, <2>1, <2>3, SettleTyped DEF Invoke, TypeOK
  <2> QED  BY <2>2, <2>3
<1>3. ASSUME NEW c \in Calls, ClientStep(c) \/ TimerFires(c)
      PROVE  TypeOK'
  BY <1>3, ClientTyped
<1>4. ASSUME NEW c \in Calls,
             ServerTakes(c) \/ HandlerEnds(c) \/ ServerDrops(c)
      PROVE  TypeOK'
  BY <1>4, ServerTyped
<1>5. ASSUME NEW c \in Calls,
             HeadersArrive(c) \/ BodyArrives(c) \/ NetworkBreaks(c)
      PROVE  TypeOK'
  BY <1>5 DEF HeadersArrive, BodyArrives, NetworkBreaks, TypeOK, WireValues
<1>6. CASE UNCHANGED vars
  BY <1>6 DEF vars, TypeOK
<1> QED  BY <1>1, <1>2, <1>3, <1>4, <1>5, <1>6 DEF Next

\* The variables keep their types, for any calls, requests, procedure errors
\* and middleware.
THEOREM TypeCorrect == Spec => []TypeOK
BY InitTyped, TypeStep, PTL DEF Spec

-----------------------------------------------------------------------------
(* The inductive invariant.                                                *)

\* Where nothing is settled, nothing is said.
LEMMA PendingIs ==
    Pending \in ResultType /\ ~Unsent(Pending) /\ Pending.payload = "none"
BY DEF Pending, Settled, Unsent, ResultType, Payloads, Codes, OwnCodes

\* What a result says, read backwards.
LEMMA VerdictOfIs ==
    ASSUME NEW r \in ResultType
    PROVE  /\ VerdictOf(r) = "value" =>
                r.payload = "value" /\ ~Means(OtherReplies, r)
           /\ VerdictOf(r) = "error" =>
                \/ /\ r.payload = "output"
                   /\ \A a \in OtherReplies : Verdict(a).payload # "value"
                \/ r.payload = "envelope" /\ ~Means(OtherReplies, r)
           /\ VerdictOf(r) = "refused" =>
                \/ Unsent(r)
                \/ r.payload \in {"value", "envelope"} /\ ~Means(BodyReplies, r)
           /\ VerdictOf(r) = "none" <=> r = Pending
           /\ VerdictOf(r) \in {"none", "value", "error", "refused", "doubt"}
<1>1. /\ Unsent(r) => r.payload \in {"input", "none", "text"}
      /\ Pending.payload = "none"
  BY PendingIs DEF Unsent, Settled
<1> QED  BY <1>1, PendingIs DEF VerdictOf, MeansOnly

\* A verdict agrees with what the server did: a response that only the body
\* gives was given by it, and one that it never gives was not.  (s is what the
\* server did, a the response, r the result.)
LEMMA VerdictAgrees ==
    ASSUME NEW r \in ResultType, NEW s, NEW a,
           s = "refused" => a \in OtherReplies,
           s = "returned" => a \in BodyReplies,
           Unsent(r) => s = "none",
           r.payload \in {"value", "envelope"} =>
                s \in {"refused", "returned"} /\ r = Verdict(a),
           r.payload = "output" =>
                s \in {"refused", "returned"} /\ Verdict(a).payload = "value"
    PROVE  /\ VerdictOf(r) \in {"value", "error"} => s = "returned"
           /\ VerdictOf(r) = "refused" => s \in {"none", "refused"}
           /\ VerdictOf(r) = "refused" => Unsent(r) \/ s = "refused"
<1>1. r.payload \in {"value", "envelope"} =>
        /\ s = "refused" => Means(OtherReplies, r)
        /\ s = "returned" => Means(BodyReplies, r)
  BY DEF Means
<1> QED  BY <1>1, VerdictOfIs

LEMMA CallAgrees ==
    ASSUME Inv, NEW c \in Calls
    PROVE  /\ VerdictOf(result[c]) \in {"value", "error"} => server[c] = "returned"
           /\ VerdictOf(result[c]) = "refused" => server[c] \in {"none", "refused"}
           /\ VerdictOf(result[c]) = "refused" =>
                wire[c] = "none" \/ server[c] = "refused"
BY VerdictAgrees DEF Inv, TypeOK, CallInv, AnswerInv, ResultInv, WireInv

\* A call none of whose parts change keeps its invariant.
Same(d) ==
    /\ pc'[d] = pc[d]
    /\ timer'[d] = timer[d]
    /\ wire'[d] = wire[d]
    /\ server'[d] = server[d]
    /\ answer'[d] = answer[d]
    /\ result'[d] = result[d]

\* What a result says stays true while the result and the response that is
\* given stay, and nothing is sent for a call that sent nothing.
LEMMA ResultKept ==
    ASSUME NEW c \in Calls, CallInv(c), result'[c] = result[c],
           wire'[c] = wire[c] \/ wire[c] # "none" \/ ~Unsent(result[c]),
           server[c] \in {"refused", "returned"} =>
                server'[c] = server[c] /\ answer'[c] = answer[c]
    PROVE  ResultInv(c)'
<1>1. Unsent(result[c])' <=> Unsent(result[c])
  BY DEF Unsent
<1>2. answer'[c] = answer[c] => Verdict(answer[c])' = Verdict(answer[c])
  BY DEF Verdict
<1> QED  BY <1>1, <1>2 DEF CallInv, ResultInv

LEMMA SameKeeps ==
    ASSUME NEW d \in Calls, CallInv(d), Same(d)
    PROVE  CallInv(d)'
<1>1. ResultInv(d)'
  BY ResultKept DEF Same
<1> QED  BY <1>1 DEF CallInv, ClientInv, WireInv, AnswerInv, Same

\* Settling before anything was sent.
LEMMA SettlesUnsent ==
    ASSUME TypeOK, NEW c \in Calls, CallInv(c), NEW r \in ResultType,
           Settle(c, r), pc[c] \in {"idle", "importing"},
           r.payload \in {"none", "text", "input"},
           timer'[c] = "off" \/ r.code = "thrown",
           UNCHANGED <<wire, server, answer>>
    PROVE  CallInv(c)'
<1>1. /\ pc'[c] = "settled" /\ result'[c] = r
      /\ wire[c] = "none" /\ server[c] = "none"
  BY DEF TypeOK, Settle, CallInv, ClientInv, WireInv
<1> QED  BY <1>1 DEF CallInv, ClientInv, WireInv, AnswerInv, ResultInv

\* Settling in doubt: a lost exchange, or one that cannot be read.
LEMMA SettlesInDoubt ==
    ASSUME TypeOK, NEW c \in Calls, CallInv(c), NEW r \in ResultType,
           Settle(c, r), pc[c] \in {"fetching", "reading"},
           r.payload = "text", r.code # "invalid_kind",
           timer'[c] = "off",
           wire'[c] = wire[c] \/ wire'[c] = "aborted",
           wire[c] # "none",
           UNCHANGED <<server, answer>>
    PROVE  CallInv(c)'
<1>1. pc'[c] = "settled" /\ result'[c] = r
  BY DEF TypeOK, Settle
<1>2. ~Unsent(result[c])'
  BY <1>1 DEF Unsent, Settled
<1> QED  BY <1>1, <1>2 DEF CallInv, ClientInv, WireInv, AnswerInv, ResultInv

\* Settling with what the whole response says.
LEMMA SettlesByAnswer ==
    ASSUME TypeOK, NEW c \in Calls, CallInv(c), ReadsBody(c)
    PROVE  CallInv(c)'
<1>1. /\ answer[c] \in ReplyType
      /\ server[c] \in {"refused", "returned"}
      /\ pc[c] = "reading" /\ wire[c] = "complete"
      /\ timer[c] # "armed"
      /\ UNCHANGED <<timer, wire, server, answer>>
  BY DEF ReadsBody, TypeOK, CallInv, ClientInv, WireInv, Pending, Settled
<1>2. Verdict(answer[c])' = Verdict(answer[c])
  BY <1>1 DEF Verdict
<1>3. CASE Settle(c, Verdict(answer[c]))
  <2>1. /\ Verdict(answer[c]).payload \in {"value", "envelope", "text"}
        /\ Verdict(answer[c]).payload = "text" =>
            Verdict(answer[c]).code \in {"decode_error", "http_error"}
    BY <1>1, VerdictIs
  <2>2. pc'[c] = "settled" /\ result'[c] = Verdict(answer[c])
    BY <1>3 DEF TypeOK, Settle
  <2>3. ~Unsent(result[c])'
    BY <2>1, <2>2 DEF Unsent, Settled
  <2>4. ResultInv(c)'
    BY <1>1, <1>2, <2>1, <2>2, <2>3 DEF ResultInv
  <2> QED  BY <1>1, <2>2, <2>4 DEF CallInv, ClientInv, WireInv, AnswerInv
<1>4. CASE /\ Verdict(answer[c]).payload = "value"
           /\ Settle(c, Settled("validation_error", 0, "output"))
  <2>1. /\ pc'[c] = "settled"
        /\ result'[c] = Settled("validation_error", 0, "output")
    BY <1>4 DEF TypeOK, Settle
  <2>2. ~Unsent(result[c])' /\ result'[c].payload = "output"
    BY <2>1 DEF Unsent, Settled
  <2>3. ResultInv(c)'
    BY <1>1, <1>2, <1>4, <2>2 DEF ResultInv
  <2> QED  BY <1>1, <2>1, <2>3 DEF CallInv, ClientInv, WireInv, AnswerInv
<1> QED  BY <1>3, <1>4 DEF ReadsBody

\* The steps of the client keep the invariant of the call they are of.
LEMMA ClientKeeps ==
    ASSUME TypeOK, NEW c \in Calls, CallInv(c),
           ClientStep(c) \/ TimerFires(c)
    PROVE  CallInv(c)'
<1>1. CASE ImportRejects(c)
  <2>1. /\ Settled("thrown", 0, "none") \in ResultType
        /\ Settled("thrown", 0, "none").payload = "none"
        /\ Settled("thrown", 0, "none").code = "thrown"
    BY DEF Settled, ResultType, Payloads, Codes, OwnCodes
  <2> QED  BY <1>1, <2>1, SettlesUnsent DEF ImportRejects
<1>2. CASE CallSubscription(c)
  <2>1. /\ Settled("invalid_kind", 0, "text") \in ResultType
        /\ Settled("invalid_kind", 0, "text").payload = "text"
    BY DEF Settled, ResultType, Payloads, Codes, OwnCodes
  <2>2. timer[c] = "off"
    BY <1>2 DEF CallSubscription, CallInv, ClientInv
  <2> QED  BY <1>2, <2>1, <2>2, SettlesUnsent DEF CallSubscription
<1>3. CASE HeadersThrow(c)
  <2>1. /\ Settled("thrown", 0, "none") \in ResultType
        /\ Settled("thrown", 0, "none").payload = "none"
        /\ Settled("thrown", 0, "none").code = "thrown"
    BY DEF Settled, ResultType, Payloads, Codes, OwnCodes
  <2> QED  BY <1>3, <2>1, SettlesUnsent DEF HeadersThrow
<1>4. CASE StartFetch(c)
  <2>1. /\ pc'[c] = "fetching" /\ wire'[c] = "requested"
        /\ UNCHANGED <<server, answer, result>>
    BY <1>4 DEF StartFetch, TypeOK
  <2>2. result[c] = Pending /\ server[c] = "none"
    BY <1>4 DEF StartFetch, CallInv, ClientInv, WireInv
  <2>3. ResultInv(c)'
    BY <2>1, <2>2, PendingIs, ResultKept
  <2> QED  BY <2>1, <2>2, <2>3 DEF CallInv, ClientInv, WireInv, AnswerInv
<1>5. CASE FetchResolves(c)
  <2>1. ResultInv(c)'
    BY <1>5, ResultKept DEF FetchResolves
  <2> QED  BY <1>5, <2>1 DEF FetchResolves, TypeOK, CallInv, ClientInv, WireInv,
                             AnswerInv
<1>6. CASE ReadsBody(c)
  BY <1>6, SettlesByAnswer
<1> DEFINE lost == Settled("transport_error", 0, "text")
<1>7. /\ lost \in ResultType
      /\ lost.payload = "text" /\ lost.code = "transport_error"
  BY DEF Settled, ResultType, Payloads, Codes, OwnCodes
<1>8. CASE FetchFails(c)
  <2>1. Settle(c, lost) /\ timer'[c] = "off"
    BY <1>8 DEF FetchFails, TypeOK
  <2> HIDE DEF lost
  <2> QED  BY <1>7, <1>8, <2>1, SettlesInDoubt DEF FetchFails
<1>9. CASE BodyFails(c)
  <2> DEFINE r == Settled("decode_error", answer[c].status, "text")
  <2>1. answer[c].status \in Nat
    BY DEF TypeOK, ReplyType
  <2>2. r \in ResultType /\ r.payload = "text" /\ r.code = "decode_error"
    BY <2>1 DEF Settled, ResultType, Payloads, Codes, OwnCodes
  <2>3. Settle(c, r) /\ timer[c] = "off"
    BY <1>9 DEF BodyFails, TypeOK, CallInv, ClientInv, Pending, Settled
  <2> HIDE DEF r
  <2> QED  BY <1>9, <2>2, <2>3, SettlesInDoubt DEF BodyFails
<1>10. CASE TimerFires(c)
  <2>1. CASE pc[c] = "fetching"
    <3>1. Settle(c, lost) /\ timer'[c] = "off" /\ wire'[c] = "aborted"
      BY <1>10, <2>1 DEF TimerFires, TypeOK
    <3>2. wire[c] # "none"
      BY <2>1 DEF CallInv, ClientInv
    <3> HIDE DEF lost
    <3> QED  BY <1>7, <1>10, <2>1, <3>1, <3>2, SettlesInDoubt DEF TimerFires
  <2>2. CASE pc[c] # "fetching"
    <3>1. ResultInv(c)'
      BY <1>10, <2>2, ResultKept DEF TimerFires
    <3> QED  BY <1>10, <2>2, <3>1 DEF TimerFires, TypeOK, CallInv, ClientInv,
                                      WireInv, AnswerInv
  <2> QED  BY <2>1, <2>2
<1> QED  BY <1>1, <1>2, <1>3, <1>4, <1>5, <1>6, <1>8, <1>9, <1>10
         DEF ClientStep, Resumes

\* The steps of the server keep the invariant of the call they are of.
LEMMA ServerKeeps ==
    ASSUME TypeOK, NEW c \in Calls, CallInv(c),
           ServerTakes(c) \/ HandlerEnds(c) \/ ServerDrops(c)
    PROVE  CallInv(c)'
<1>1. ASSUME ResultInv(c)', NEW a \in OtherReplies, Reaches(c),
             Answers(c, "refused", a)
      PROVE  CallInv(c)'
  BY <1>1 DEF TypeOK, Reaches, Answers, CallInv, ClientInv, WireInv, AnswerInv
<1>2. CASE \/ LayerAnswers(c) \/ NotFound(c) \/ WrongMethod(c)
           \/ DecodeRefuses(c) \/ ValidateRefuses(c)
  <2>1. PICK a \in OtherReplies : Answers(c, "refused", a)
    BY <1>2, TurnsAway
  <2>2. Reaches(c)
    BY <1>2, TurnsAway
  <2>3. ResultInv(c)'
    BY <2>1, <2>2, ResultKept DEF Answers, Reaches
  <2> QED  BY <1>1, <2>1, <2>2, <2>3
<1>3. CASE HandlerStarts(c)
  <2>1. ResultInv(c)'
    BY <1>3, ResultKept DEF HandlerStarts, Routed, Reaches, Answers
  <2> QED  BY <1>3, <2>1 DEF HandlerStarts, Routed, Reaches, Answers, TypeOK,
                             CallInv, ClientInv, WireInv, AnswerInv
<1>4. CASE HandlerReturnsOk(c) \/ HandlerReturnsErr(c)
  <2>1. PICK a \in BodyReplies : Answers(c, "returned", a)
    BY <1>4, HandlerReturns
  <2>2. server[c] = "running"
    BY <1>4, HandlerReturns
  <2>3. ResultInv(c)'
    BY <2>1, <2>2, ResultKept DEF Answers
  <2> QED  BY <2>1, <2>2, <2>3 DEF Answers, TypeOK, CallInv, ClientInv, WireInv,
                                   AnswerInv
<1>5. CASE HandlerPanics(c)
  <2>1. ResultInv(c)'
    BY <1>5, ResultKept DEF HandlerPanics, TypeOK, CallInv, WireInv
  <2> QED  BY <1>5, <2>1 DEF HandlerPanics, TypeOK, CallInv, ClientInv, WireInv,
                             AnswerInv
<1>6. CASE ServerDrops(c)
  <2>1. ResultInv(c)'
    BY <1>6, ResultKept DEF ServerDrops
  <2> QED  BY <1>6, <2>1 DEF ServerDrops, TypeOK, CallInv, ClientInv, WireInv,
                             AnswerInv
<1> QED  BY <1>2, <1>3, <1>4, <1>5, <1>6 DEF ServerTakes, HandlerEnds

LEMMA NetworkKeeps ==
    ASSUME TypeOK, NEW c \in Calls, CallInv(c),
           HeadersArrive(c) \/ BodyArrives(c) \/ NetworkBreaks(c)
    PROVE  CallInv(c)'
<1>1. ResultInv(c)'
  BY ResultKept DEF HeadersArrive, BodyArrives, NetworkBreaks
<1> QED  BY <1>1 DEF HeadersArrive, BodyArrives, NetworkBreaks, TypeOK, CallInv,
                     ClientInv, WireInv, AnswerInv

LEMMA InvokeKeeps ==
    ASSUME TypeOK, NEW c \in Calls, CallInv(c), NEW q \in Requests,
           Invoke(c, q)
    PROVE  CallInv(c)'
<1>1. CASE q.accepted
  <2>1. ResultInv(c)'
    BY <1>1, ResultKept DEF Invoke
  <2> QED  BY <1>1, <2>1 DEF Invoke, TypeOK, CallInv, ClientInv, WireInv,
                             AnswerInv
<1>2. CASE ~q.accepted
  <2>1. /\ Settled("validation_error", 0, "input") \in ResultType
        /\ Settled("validation_error", 0, "input").payload = "input"
    BY DEF Settled, ResultType, Payloads, Codes, OwnCodes
  <2>2. timer[c] = "off"
    BY DEF Invoke, CallInv, ClientInv
  <2> QED  BY <1>2, <2>1, <2>2, SettlesUnsent DEF Invoke
<1> QED  BY <1>1, <1>2

\* A step of one call leaves the parts of the others alone.
LEMMA OthersSame ==
    ASSUME TypeOK, NEW c \in Calls, NEW d \in Calls, d # c,
           \/ \E q \in Requests : Invoke(c, q)
           \/ ClientStep(c) \/ TimerFires(c)
           \/ ServerTakes(c) \/ HandlerEnds(c) \/ ServerDrops(c)
           \/ HeadersArrive(c) \/ BodyArrives(c) \/ NetworkBreaks(c)
    PROVE  Same(d)
<1> USE DEF TypeOK, Same
<1>1. CASE \E q \in Requests : Invoke(c, q)
  BY <1>1 DEF Invoke, Settle
<1>2. CASE ClientStep(c) \/ TimerFires(c)
  BY <1>2 DEF ClientStep, Resumes, ImportRejects, CallSubscription,
              HeadersThrow, StartFetch, FetchFails, FetchResolves, ReadsBody,
              BodyFails, TimerFires, Settle
<1>3. CASE ServerTakes(c)
  BY <1>3 DEF ServerTakes, LayerAnswers, NotFound, WrongMethod, DecodeRefuses,
              ValidateRefuses, HandlerStarts, Answers
<1>4. CASE HandlerEnds(c) \/ ServerDrops(c)
  BY <1>4 DEF HandlerEnds, HandlerReturnsOk, HandlerReturnsErr, HandlerPanics,
              ServerDrops, Answers
<1>5. CASE HeadersArrive(c) \/ BodyArrives(c) \/ NetworkBreaks(c)
  BY <1>5 DEF HeadersArrive, BodyArrives, NetworkBreaks
<1> QED  BY <1>1, <1>2, <1>3, <1>4, <1>5

LEMMA InitInv == Init => Inv
<1> SUFFICES ASSUME Init
             PROVE  Inv
  OBVIOUS
<1>1. TypeOK
  BY InitTyped
<1>2. ASSUME NEW c \in Calls
      PROVE  CallInv(c)
  <2>1. result[c] = Pending
    BY DEF Init
  <2>2. ~Unsent(result[c]) /\ result[c].payload = "none"
    BY <2>1, PendingIs
  <2> QED  BY <2>1, <2>2 DEF Init, CallInv, ClientInv, WireInv, AnswerInv,
                               ResultInv
<1> QED  BY <1>1, <1>2 DEF Inv

LEMMA InvStep == Inv /\ [Next]_vars => Inv'
<1> SUFFICES ASSUME Inv, [Next]_vars
             PROVE  Inv'
  OBVIOUS
<1>1. TypeOK /\ TypeOK'
  BY TypeStep DEF Inv
<1>2. ASSUME NEW d \in Calls
      PROVE  CallInv(d)'
  <2> USE <1>1
  <2>1. CallInv(d)
    BY DEF Inv
  <2>2. CASE ImportSettles \/ UNCHANGED vars
    BY <2>1, <2>2, SameKeeps DEF ImportSettles, vars, Same
  <2>3. ASSUME NEW c \in Calls,
               \/ \E q \in Requests : Invoke(c, q)
               \/ ClientStep(c) \/ TimerFires(c)
               \/ ServerTakes(c) \/ HandlerEnds(c) \/ ServerDrops(c)
               \/ HeadersArrive(c) \/ BodyArrives(c) \/ NetworkBreaks(c)
        PROVE  CallInv(d)'
    <3>1. CASE d = c
      BY <2>1, <2>3, <3>1, InvokeKeeps, ClientKeeps, ServerKeeps, NetworkKeeps
    <3>2. CASE d # c
      BY <2>1, <2>3, <3>2, OthersSame, SameKeeps
    <3> QED  BY <3>1, <3>2
  <2> QED  BY <2>2, <2>3 DEF Next
<1> QED  BY <1>1, <1>2 DEF Inv

\* The invariant holds of every behaviour, whatever errors a procedure has and
\* whatever middleware answers.
THEOREM Invariance == Spec => []Inv
BY InitInv, InvStep, PTL DEF Spec

\* A call the caller must take for refused has not run (and, the statement
\* being an invariant, never will).
THEOREM RefusedCallsNeverRun == Spec => []RefusedNeverRuns
<1>1. Inv => RefusedNeverRuns
  BY CallAgrees DEF RefusedNeverRuns, Ran
<1> QED  BY <1>1, Invariance, PTL

\* What the caller gets as value or as the server's error is what the server
\* answered.
THEOREM ResultsAreAnswers == Spec => []ResultIsAnswer
<1>1. ASSUME Inv, NEW c \in Calls, result[c].payload \in {"value", "envelope"}
      PROVE  /\ server[c] \in {"refused", "returned"}
             /\ result[c] = Verdict(answer[c])
             /\ answer[c] \in ReplyType
  BY <1>1 DEF Inv, TypeOK, CallInv, ResultInv
<1>2. Inv => ResultIsAnswer
  BY <1>1, VerdictIs DEF ResultIsAnswer
<1> QED  BY <1>2, Invariance, PTL

\* No abort timer outlives the wait for the headers.
THEOREM TimersGuardFetches == Spec => []TimerGuardsFetch
<1>1. Inv => TimerGuardsFetch
  BY DEF Inv, CallInv, ClientInv, TimerGuardsFetch
<1> QED  BY <1>1, Invariance, PTL

-----------------------------------------------------------------------------
(* UnaryCall implements CallContract.                                      *)

effectBar == [c \in Calls |-> Effect(c)]
verdictBar == [c \in Calls |-> VerdictOf(result[c])]

LEMMA InitRefines == Init => Contract!Init
<1> SUFFICES ASSUME Init
             PROVE  Contract!Init
  OBVIOUS
<1>1. ASSUME NEW c \in Calls
      PROVE  Effect(c) = "none" /\ VerdictOf(result[c]) = "none"
  <2>1. server[c] = "none" /\ result[c] = Pending
    BY DEF Init
  <2> QED  BY <2>1, PendingIs, VerdictOfIs DEF Effect
<1> QED  BY <1>1 DEF Contract!Init

\* A step that leaves effect and verdict of every call alone stutters.
LEMMA Stutters ==
    ASSUME \A d \in Calls : Effect(d)' = Effect(d), UNCHANGED result
    PROVE  UNCHANGED Contract!vars
<1>1. \A d \in Calls : VerdictOf(result[d])' = VerdictOf(result[d])
  BY DEF VerdictOf, Unsent
<1> QED  BY <1>1 DEF Contract!vars

\* A step in which one call settles, and nothing happens at the server, is
\* the contract's Settles.
LEMMA SettleRefines ==
    ASSUME Inv, Inv', NEW c \in Calls, NEW r \in ResultType, Settle(c, r),
           pc[c] # "settled", UNCHANGED <<server, answer>>
    PROVE  [Contract!Next]_Contract!vars
<1> DEFINE v == VerdictOf(r)
<1>1. /\ result' = [result EXCEPT ![c] = r]
      /\ result'[c] = r
      /\ \A d \in Calls : d # c => result'[d] = result[d]
  BY DEF Settle, Inv, TypeOK
<1>2. /\ result[c] = Pending
      /\ VerdictOf(result[c]) = "none"
  BY PendingIs, VerdictOfIs DEF Inv, TypeOK, CallInv, ClientInv
<1>3. \A d \in Calls : Effect(d)' = Effect(d)
  BY DEF Effect
<1>4. \A d \in Calls : d # c => VerdictOf(result[d])' = VerdictOf(result[d])
  BY <1>1 DEF VerdictOf, Unsent
<1>5. VerdictOf(result[c])' = v
  BY <1>1 DEF VerdictOf, Unsent
<1>6. v \in {"none", "value", "error", "refused", "doubt"}
  BY VerdictOfIs
<1> HIDE DEF v
<1>7. /\ v \in {"value", "error"} => server[c] = "returned"
      /\ v = "refused" => server[c] \in {"none", "refused"}
  <2>1. /\ Unsent(result[c])' <=> Unsent(r)
        /\ Verdict(answer[c])' = Verdict(answer[c])
    BY <1>1 DEF Unsent, Verdict
  <2>2. /\ server[c] = "refused" => answer[c] \in OtherReplies
        /\ server[c] = "returned" => answer[c] \in BodyReplies
    BY DEF Inv, CallInv, AnswerInv
  <2>3. /\ Unsent(r) => server[c] = "none"
        /\ r.payload \in {"value", "envelope"} =>
            server[c] \in {"refused", "returned"} /\ r = Verdict(answer[c])
        /\ r.payload = "output" =>
            /\ server[c] \in {"refused", "returned"}
            /\ Verdict(answer[c]).payload = "value"
    BY <1>1, <2>1 DEF Inv, CallInv, ResultInv, WireInv
  <2> QED  BY <2>2, <2>3, VerdictAgrees DEF v
<1>8. /\ v \in {"value", "error"} => Effect(c) = "done"
      /\ v = "refused" => Effect(c) = "none"
  BY <1>7 DEF Effect
<1>9. CASE v = "none"
  BY <1>2, <1>3, <1>4, <1>5, <1>9 DEF Contract!vars
<1>10. CASE v # "none"
  <2>1. verdictBar' = [verdictBar EXCEPT ![c] = v]
    BY <1>4, <1>5 DEF verdictBar
  <2>2. UNCHANGED effectBar
    BY <1>3 DEF effectBar
  <2>3. Contract!Settles(c, v)
    BY <1>2, <1>8, <2>1, <2>2 DEF Contract!Settles, effectBar, verdictBar
  <2> QED  BY <1>6, <1>10, <2>3 DEF Contract!Next, Contract!Verdicts
<1> QED  BY <1>9, <1>10

\* A step in which the server's view of one call changes is a step of the
\* contract for the call's body.
LEMMA ServerRefines ==
    ASSUME Inv, NEW c \in Calls, UNCHANGED result,
           ServerTakes(c) \/ HandlerEnds(c) \/ ServerDrops(c)
    PROVE  [Contract!Next]_Contract!vars
<1>1. server \in [Calls -> ServerValues] /\ result \in [Calls -> ResultType]
  BY DEF Inv, TypeOK
<1>2. UNCHANGED verdictBar
  BY DEF verdictBar, VerdictOf, Unsent
<1>3. ASSUME NEW how, server' = [server EXCEPT ![c] = how]
      PROVE  \A d \in Calls : d # c => Effect(d)' = Effect(d)
  BY <1>1, <1>3 DEF Effect
<1>4. CASE \/ LayerAnswers(c) \/ NotFound(c) \/ WrongMethod(c)
           \/ DecodeRefuses(c) \/ ValidateRefuses(c)
  <2>1. server[c] = "none" /\ server' = [server EXCEPT ![c] = "refused"]
    BY <1>4 DEF LayerAnswers, NotFound, WrongMethod, DecodeRefuses,
                ValidateRefuses, Routed, Reaches, Answers
  <2>2. Effect(c)' = Effect(c)
    BY <1>1, <2>1 DEF Effect
  <2> QED  BY <1>3, <2>1, <2>2, Stutters
<1>5. CASE HandlerStarts(c)
  <2>1. /\ server[c] = "none" /\ wire[c] # "none"
        /\ server' = [server EXCEPT ![c] = "running"]
    BY <1>5 DEF HandlerStarts, Routed, Reaches, Answers
  <2>2. Effect(c) = "none" /\ Effect(c)' = "running"
    BY <1>1, <2>1 DEF Effect
  <2>3. effectBar' = [effectBar EXCEPT ![c] = "running"]
    BY <1>3, <2>1, <2>2 DEF effectBar
  <2>4. VerdictOf(result[c]) \in {"none", "doubt"}
    BY <1>1, <2>1, VerdictOfIs, CallAgrees
  <2>5. Contract!Starts(c)
    BY <1>2, <2>2, <2>3, <2>4 DEF Contract!Starts, effectBar, verdictBar
  <2> QED  BY <2>5 DEF Contract!Next
<1>6. CASE HandlerReturnsOk(c) \/ HandlerReturnsErr(c)
  <2>1. /\ server[c] = "running"
        /\ server' = [server EXCEPT ![c] = "returned"]
    BY <1>6, HandlerReturns DEF Answers
  <2>2. Effect(c) = "running" /\ Effect(c)' = "done"
    BY <1>1, <2>1 DEF Effect
  <2>3. effectBar' = [effectBar EXCEPT ![c] = "done"]
    BY <1>3, <2>1, <2>2 DEF effectBar
  <2>4. Contract!Finishes(c)
    BY <1>2, <2>2, <2>3 DEF Contract!Finishes, effectBar, verdictBar
  <2> QED  BY <2>4 DEF Contract!Next
<1>7. CASE HandlerPanics(c) \/ ServerDrops(c)
  <2>1. PICK how \in {"panicked", "dropped"} :
            /\ server[c] = "running"
            /\ server' = [server EXCEPT ![c] = how]
    BY <1>7 DEF HandlerPanics, ServerDrops
  <2>2. Effect(c) = "running" /\ Effect(c)' = "cut"
    BY <1>1, <2>1 DEF Effect
  <2>3. effectBar' = [effectBar EXCEPT ![c] = "cut"]
    BY <1>3, <2>1, <2>2 DEF effectBar
  <2>4. Contract!IsCut(c)
    BY <1>2, <2>2, <2>3 DEF Contract!IsCut, effectBar, verdictBar
  <2> QED  BY <2>4 DEF Contract!Next
<1> QED  BY <1>4, <1>5, <1>6, <1>7 DEF ServerTakes, HandlerEnds

\* The client settles a call at most once, with a result of the right type.
LEMMA ClientRefines ==
    ASSUME Inv, Inv', NEW c \in Calls, ClientStep(c) \/ TimerFires(c)
    PROVE  [Contract!Next]_Contract!vars
<1>1. UNCHANGED <<server, answer>>
  BY DEF ClientStep, Resumes, ImportRejects, CallSubscription, HeadersThrow,
         StartFetch, FetchFails, FetchResolves, ReadsBody, BodyFails, TimerFires
<1>2. result' \in [Calls -> ResultType]
  BY DEF Inv, TypeOK
<1>3. ASSUME UNCHANGED result
      PROVE  [Contract!Next]_Contract!vars
  BY <1>1, <1>3, Stutters DEF Effect
<1>4. ASSUME NEW r, Settle(c, r), pc[c] # "settled"
      PROVE  [Contract!Next]_Contract!vars
  <2>1. r = result'[c]
    BY <1>4 DEF Settle, Inv, TypeOK
  <2> QED  BY <1>1, <1>2, <1>4, <2>1, SettleRefines
<1>5. CASE StartFetch(c) \/ FetchResolves(c)
  BY <1>3, <1>5 DEF StartFetch, FetchResolves
<1>6. CASE ImportRejects(c) \/ CallSubscription(c) \/ HeadersThrow(c)
  BY <1>4, <1>6 DEF ImportRejects, CallSubscription, HeadersThrow
<1>7. CASE FetchFails(c) \/ ReadsBody(c) \/ BodyFails(c)
  BY <1>4, <1>7 DEF FetchFails, ReadsBody, BodyFails
<1>8. CASE TimerFires(c)
  BY <1>3, <1>4, <1>8 DEF TimerFires
<1> QED  BY <1>5, <1>6, <1>7, <1>8 DEF ClientStep, Resumes

LEMMA NextRefines == Inv /\ Inv' /\ [Next]_vars => [Contract!Next]_Contract!vars
<1> SUFFICES ASSUME Inv, Inv', [Next]_vars
             PROVE  [Contract!Next]_Contract!vars
  OBVIOUS
<1>1. ASSUME UNCHANGED <<server, result>>
      PROVE  [Contract!Next]_Contract!vars
  BY <1>1, Stutters DEF Effect
<1>2. CASE ImportSettles \/ UNCHANGED vars
  BY <1>1, <1>2 DEF ImportSettles, vars
<1>3. ASSUME NEW c \in Calls, NEW q \in Requests, Invoke(c, q)
      PROVE  [Contract!Next]_Contract!vars
  <2>1. CASE q.accepted
    BY <1>1, <1>3, <2>1 DEF Invoke
  <2>2. CASE ~q.accepted
    <3>1. Settled("validation_error", 0, "input") \in ResultType
      BY DEF Settled, ResultType, Payloads, Codes, OwnCodes
    <3> QED  BY <1>3, <2>2, <3>1, SettleRefines DEF Invoke
  <2> QED  BY <2>1, <2>2
<1>4. ASSUME NEW c \in Calls, ClientStep(c) \/ TimerFires(c)
      PROVE  [Contract!Next]_Contract!vars
  BY <1>4, ClientRefines
<1>5. ASSUME NEW c \in Calls,
             ServerTakes(c) \/ HandlerEnds(c) \/ ServerDrops(c)
      PROVE  [Contract!Next]_Contract!vars
  <2>1. UNCHANGED result
    BY <1>5 DEF ServerTakes, LayerAnswers, NotFound, WrongMethod, DecodeRefuses,
                ValidateRefuses, HandlerStarts, HandlerEnds, HandlerReturnsOk,
                HandlerReturnsErr, HandlerPanics, ServerDrops, Answers
  <2> QED  BY <1>5, <2>1, ServerRefines
<1>6. ASSUME NEW c \in Calls,
             HeadersArrive(c) \/ BodyArrives(c) \/ NetworkBreaks(c)
      PROVE  [Contract!Next]_Contract!vars
  BY <1>1, <1>6 DEF HeadersArrive, BodyArrives, NetworkBreaks
<1> QED  BY <1>2, <1>3, <1>4, <1>5, <1>6 DEF Next

\* A call keeps its contract: at most one run of the procedure, and a result
\* from which the caller concludes no more than what happened.
THEOREM CallsKeepTheContract == Spec => ImplementsContract
BY InitRefines, NextRefines, Invariance, PTL
   DEF Spec, ImplementsContract, Contract!Spec
=============================================================================
