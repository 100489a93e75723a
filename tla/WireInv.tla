------------------------------- MODULE WireInv -------------------------------
(***************************************************************************)
(* The inductive invariant of Wire: how the value at hand came from the    *)
(* value that was given.                                                   *)
(***************************************************************************)
EXTENDS Wire

\* What the client's schema makes of a value, if it has one.
Parse(t, x) == IF Validating THEN Through(Schema(t, opts), x) ELSE x
Refuses(t, x) == Validating /\ ~Fits(Schema(t, opts), x)

\* The value the server is sent.
Sent == IF caller = "agent" THEN given ELSE Json(Parse(Input, Passed(given)))

\* The input that was given.
InputInv ==
    /\ phase \in {"called", "checked", "refusedByClient"} => caller = "client"
    /\ phase \in {"called", "checked", "refusedByClient", "sent", "decoded", "decodeError",
                  "validationError"} =>
          IF caller = "agent" THEN Fits(Mcp(Input, opts), given)
          ELSE Fits(TsType(Input, opts), given)
    /\ phase \in {"checked", "sent", "decoded", "decodeError", "validationError"} =>
          caller = "agent" \/ ~Refuses(Input, Passed(given))

\* The value on its way to the procedure.
ArrivalInv ==
    /\ phase = "called" => value = Passed(given)
    /\ phase = "checked" => value = Parse(Input, Passed(given))
    /\ phase \in {"sent", "decoded", "decodeError"} => value = Sent
    /\ phase \in {"decoded", "validationError"} => Fits(Serde(Input, "in"), Sent)
    /\ phase = "decodeError" => ~Fits(Serde(Input, "in"), Sent)
    /\ phase = "validationError" => Errors(Input, Sent) # {}
    /\ phase = "refusedByClient" =>
          /\ Refuses(Input, Passed(given))
          /\ value = Refusal(Issues(Schema(Input, opts), Passed(given)))

\* The value on its way back.
ReturnInv ==
    /\ phase \in {"returned", "done", "outputRefused"} => Fits(Serde(Output, "out"), given)
    /\ phase = "returned" => value = Parsed(given)
    /\ phase = "outputRefused" => Refuses(Output, Parsed(given))
    /\ phase = "done" => ~Refuses(Output, Parsed(given)) /\ value = Parse(Output, Parsed(given))
    /\ phase = "failed" => /\ Fits(Serde(Error, "out"), given)
                           /\ value.o.payload = Parsed(given)

IInv ==
    /\ proc \in DOMAIN Procedures /\ opts \in Options
    /\ phase \in {"declared", "refused"} \/ Compiles
    /\ InputInv /\ ArrivalInv /\ ReturnInv
=============================================================================
