---------------------------- MODULE MCUnaryCall ----------------------------
(***************************************************************************)
(* UnaryCall for TLC: the requests, errors and layer responses of the runs *)
(***************************************************************************)
EXTENDS UnaryCallInv, TLC

CONSTANT c1

OneCall  == {c1}

\* Every request there is.
AllRequests == RequestType

\* Errors of a program's own: at a success status, at a status without a body,
\* at no status at all, and under two of the built-in codes.
OddErrors ==
    {[code |-> "soft", status |-> 200], [code |-> "empty", status |-> 204],
     [code |-> "odd", status |-> 99], [code |-> "decode_error", status |-> 422],
     [code |-> "thrown", status |-> 400]}

AllErrors == StandardErrors \cup OddErrors

\* What middleware may answer: an envelope of its own and one a procedure may
\* give too, a text, a JSON of another shape, a value.
SomeReplies ==
    {Reply(418, "err", "turned_away"), Reply(401, "err", "unauthenticated"),
     Reply(503, "text", "none"), Reply(429, "json", "none"),
     Reply(200, "json", "none"), Reply(203, "ok", "none")}
=============================================================================
