-------------------------------- MODULE Wire --------------------------------
(***************************************************************************)
(* A value on its way through a call: from the caller through the client's *)
(* schema, JSON, serde and the server's checks to the procedure, and the   *)
(* procedure's result back to the caller.                                  *)
(***************************************************************************)
EXTENDS Readings

CONSTANTS
    Procedures, \* name -> [input, output, error : Rust types]
    Options,    \* the settings of the CLI: [validator, bigint, undefined]
    Tried(_)    \* bound: the values of a view that are tried

VARIABLES
    proc,   \* the procedure that is called
    opts,   \* how its client was generated
    phase,  \* where the call is
    caller, \* who calls: the typed client or an agent that has the manifest
    given,  \* history: the value the caller passed, or the procedure returned
    value   \* what has become of it

vars == <<proc, opts, phase, caller, given, value>>

\* Every signature is of Rust types; the CLI has two ways with wide integers.
ASSUME WireAssumption ==
    /\ \A p \in DOMAIN Procedures :
          {Procedures[p].input, Procedures[p].output, Procedures[p].error} \subseteq TypesTo[Depth]
    /\ \A o \in Options : o.bigint \in {"native", "asString"} /\ o.undefined \in BOOLEAN

Input  == Procedures[proc].input
Output == Procedures[proc].output
Error  == Procedures[proc].error

-----------------------------------------------------------------------------
(* The program compiles.                                                   *)

\* The derives expand and what they emit compiles, and so does the client.
Compiles ==
    /\ \A t \in SubTypes(Input) \cup SubTypes(Output) \cup SubTypes(Error) :
          TypeExpands(t) /\ NamesDiffer(t, opts)
    /\ \A t \in SubTypes(Input) :
          /\ ValidateExpands(t)
          /\ \A f \in FieldsOf(t) : ChecksCompile(f)
    /\ Validates(Input)
    /\ ErrorExpands(Error)

-----------------------------------------------------------------------------
(* A call.                                                                 *)

Init ==
    /\ proc \in DOMAIN Procedures
    /\ opts \in Options
    /\ phase = "declared" /\ caller = "none"
    /\ given = Null /\ value = Null

Goes(from, to) == phase = from /\ phase' = to /\ UNCHANGED <<proc, opts>>

Build ==
    /\ Goes("declared", IF Compiles THEN "built" ELSE "refused")
    /\ UNCHANGED <<caller, given, value>>

\* A call that tsc lets through; undefined is null from here on.
Call(x) ==
    /\ Fits(TsType(Input, opts), x)
    /\ Goes("built", "called")
    /\ caller' = "client" /\ given' = x
    /\ value' = Passed(x)

Validating == opts.validator # "none"

\* The payload of a validation_error, as the paths it names.
Refusal(paths) == [j |-> "refusal", at |-> paths]

\* runSchemaParse throws what parseValidationIssues makes of the issues.
CheckInput ==
    LET ok == Validating => Fits(Schema(Input, opts), value) IN
    /\ Goes("called", IF ok THEN "checked" ELSE "refusedByClient")
    /\ value' = IF ~ok THEN Refusal(Issues(Schema(Input, opts), value))
                ELSE IF Validating THEN Through(Schema(Input, opts), value) ELSE value
    /\ UNCHANGED <<caller, given>>

Send ==
    /\ Goes("checked", "sent")
    /\ value' = Json(value)
    /\ UNCHANGED <<caller, given>>

\* An agent calls with arguments that its manifest admits.
AgentCalls(x) ==
    /\ Fits(Mcp(Input, opts), x)
    /\ Goes("built", "sent")
    /\ caller' = "agent" /\ given' = x /\ value' = x

Decode ==
    /\ Goes("sent", IF Fits(Serde(Input, "in"), value) THEN "decoded" ELSE "decodeError")
    /\ UNCHANGED <<caller, given, value>>

Validate ==
    LET errors == Errors(Input, value) IN
    /\ Goes("decoded", IF errors = {} THEN "running" ELSE "validationError")
    /\ value' = IF errors = {} THEN value ELSE Refusal(PathsOf(errors))
    /\ UNCHANGED <<caller, given>>

\* The procedure returns a value, which serde writes.
Return(y) ==
    /\ caller = "client" /\ Fits(Serde(Output, "out"), y)
    /\ Goes("running", "returned")
    /\ given' = y /\ value' = Parsed(y)
    /\ UNCHANGED caller

\* The error's code and status, and the whole value as its payload.
Fail(v, y) ==
    /\ caller = "client" /\ Fits(SerdeVariant(Error, v, "out"), y)
    /\ Goes("running", "failed")
    /\ given' = y
    /\ value' = Obj([code |-> Str(CodeOf(v, v.snake)), status |-> Num(StatusOf(v)),
                     payload |-> Parsed(y)])
    /\ UNCHANGED caller

CheckOutput ==
    LET ok == Validating => Fits(Schema(Output, opts), value) IN
    /\ Goes("returned", IF ok THEN "done" ELSE "outputRefused")
    /\ value' = IF ~ok THEN Refusal(Issues(Schema(Output, opts), value))
                ELSE IF Validating THEN Through(Schema(Output, opts), value) ELSE value
    /\ UNCHANGED <<caller, given>>

Next ==
    \/ Build
    \/ phase = "built" /\ \E x \in Tried(TsType(Input, opts)) : Call(x)
    \/ phase = "built" /\ \E x \in Tried(Mcp(Input, opts)) : AgentCalls(x)
    \/ CheckInput \/ Send \/ Decode \/ Validate
    \/ phase = "running" /\ \E y \in Tried(Serde(Output, "out")) : Return(y)
    \/ phase = "running" /\ \E i \in DOMAIN Error.variants :
          \E y \in Tried(SerdeVariant(Error, Error.variants[i], "out")) : Fail(Error.variants[i], y)
    \/ CheckOutput

Spec == Init /\ [][Next]_vars

-----------------------------------------------------------------------------
(* Where the readings agree.                                               *)

\* Values of plain types get through: the server decodes what tsc and the
\* manifest admit, and the client is handed what the procedure returned.  A
\* schema lets nothing through that is not of the generated type, whatever the
\* type; what passes no schema, an error or a result without a validator, has
\* it but for wide integers (type_map.rs, codegen.rs, mcp.rs).
PlainValuesArrive ==
    /\ phase = "decodeError" => ~(PlainType(Input, opts) /\ Ordinary(given))
    /\ phase = "outputRefused" =>
          ~(PlainType(Output, opts) /\ Unconstrained(Output) /\ Ordinary(given))
    /\ phase = "done" =>
          /\ Validating => Fits(TsType(Output, opts), value)
          /\ PlainType(Output, opts) /\ Ordinary(given) =>
                /\ Json(value) = given
                /\ Validating \/ HasWide(Output) \/ Fits(TsType(Output, opts), value)
    /\ phase = "failed" /\ PlainType(Error, opts) /\ Ordinary(given) =>
          /\ value.o.payload = given
          /\ HasWide(Error) \/ Fits(TsType(Error, opts), given)

\* The client refuses an input just when the server would, where the checks are
\* plain, and both find fault with the same fields (derive_type.rs:413-482,
\* derive_validate.rs:218-359, codegen.rs:632-770, validate.rs:166-540,
\* index.ts:200-261).
ChecksAgree ==
    PlainType(Input, opts) /\ PlainChecks(Input) /\ Ordinary(given) =>
        /\ phase = "refusedByClient" =>
              LET errors == Errors(Input, Json(given)) IN
              /\ errors # {}
              /\ PlainPaths(Input) => value.at = PathsOf(errors)
        /\ phase = "validationError" => caller = "agent" \/ ~Validating

\* derive_validate.rs:544-548: the tokens up to the next comma only are consumed
\* with a foreign key; so every constraint of the IR is checked by the server.
ServerChecksWhatIsDeclared ==
    phase = "running" =>
        \A f \in FieldsOf(Input) : f.wire \in DOMAIN value.o =>
            \A c \in IrField(f).constraints :
                c.key = "custom" \/ FieldCheck(f, c, value.o[f.wire])
=============================================================================
