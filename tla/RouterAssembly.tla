--------------------------- MODULE RouterAssembly ---------------------------
(***************************************************************************)
(* From #[rpc] functions to a mounted router and its IR: what the macros   *)
(* reflect of a function and its types, Router::procedure, layer, ir and   *)
(* into_axum.                                                              *)
(*                                                                         *)
(* Types are the nodes of a graph: a derived type has the types of its     *)
(* fields for children, a container its arguments; a Box is the node of    *)
(* what is in it.  collect_type_defs is a recursion over this graph that   *)
(* nothing stops but its leaves; it is modelled with its call stack, which *)
(* has MaxDepth frames.                                                    *)
(***************************************************************************)
EXTENDS Naturals, Sequences

CONSTANTS
    Nodes,      \* the Rust types that occur
    Rust,       \* what each of them is: its form, and its parts
    IrName,     \* the IR name of each derived type (its identifier or rename)
    Unit,       \* the node of ()
    Functions,  \* the functions marked #[rpc]
    Builtins,   \* the names under /rpc/ the router keeps for itself (all GET)
    Layers,     \* the tower layers of the program
    MaxDepth,   \* frames of the call stack
    MaxCalls,   \* bound: procedures a program registers
    MaxLayers   \* bound: layers a program adds

VARIABLES
    phase,      \* where the building of the router is
    draft,      \* the descriptor being built by __taut_proc_<name>(), with the
                \* call stack of collect_type_defs and the types it visited
    procedures, \* Router.procedures
    layers,     \* Router.layers, in the order of the calls
    ir,         \* the result of ir(), while it is put together and after
    service,    \* the endpoints of the axum router, each with the layers
                \* around it, outermost first
    mounted,    \* procedures into_axum has mounted
    applied     \* layers into_axum has applied

asmVars == <<phase, draft, procedures, layers, ir, service, mounted, applied>>

-----------------------------------------------------------------------------
(* Reflection.                                                             *)

\* A newtype is a struct of one field without a name.
Derived == {n \in Nodes : Rust[n].form \in {"struct", "newtype", "enum"}}

\* expand_struct and expand_enum: the field types in declaration order, those
\* of an enum variant by variant.
FieldTypes(n) ==
    IF Rust[n].form # "enum" THEN Rust[n].fields
    ELSE LET VariantsUpTo[i \in 0..Len(Rust[n].variants)] ==
                 IF i = 0 THEN <<>>
                 ELSE VariantsUpTo[i - 1] \o Rust[n].variants[i]
         IN  VariantsUpTo[Len(Rust[n].variants)]

\* The impls of types.rs: a container walks its arguments, in a map the key
\* before the value; a primitive has none.
Children(n) ==
    IF n \in Derived THEN FieldTypes(n)
    ELSE IF Rust[n].form = "primitive" THEN <<>> ELSE Rust[n].args

HasName(defs, name) == \E i \in DOMAIN defs : defs[i].name = name

\* Mutant: a later definition takes the place of one of its name.
KeepsLast(defs, name, of) ==
    IF HasName(defs, name)
    THEN [i \in DOMAIN defs |->
             IF defs[i].name = name THEN [name |-> name, of |-> of] ELSE defs[i]]
    ELSE Append(defs, [name |-> name, of |-> of])

\* A definition is kept unless one of its name is there: at once here, in the
\* code by a retain or a HashSet when everything is collected.
AddDef(defs, name, of) ==
    IF HasName(defs, name) THEN defs
    ELSE Append(defs, [name |-> name, of |-> of])

-----------------------------------------------------------------------------
(* The attribute macro.                                                    *)

KindArgs == {"query", "mutation", "stream"}

\* RpcArgs::parse: the last kind named counts, method = ".." is only accepted.
KindOf(f) ==
    LET kinds == {i \in DOMAIN f.args : f.args[i] \in KindArgs}
    IN  IF kinds = {} THEN "query"
        ELSE f.args[CHOOSE i \in kinds : \A j \in kinds : j <= i]

\* validate_common, extract_input_type, extract_stream_item: what compiles.
Compiles(f) ==
    /\ \A i \in DOMAIN f.args : f.args[i] \in KindArgs \cup {"method"}
    /\ f.async /\ ~f.generic /\ ~f.receiver
    /\ Len(f.params) <= 1
    /\ KindOf(f) = "stream" <=> f.returns.form = "stream"

InputOf(f) == IF f.params = <<>> THEN Unit ELSE f.params[1]

\* classify_return: Result<T, E> declares E, no return type is ().
OutputOf(f) == IF f.returns.form = "nothing" THEN Unit ELSE f.returns.ok
ErrorsOf(f) == IF f.returns.form = "result" THEN <<f.returns.error>> ELSE <<>>

\* The calls of collect_type_defs in a descriptor function.
Signature(f) == <<InputOf(f), OutputOf(f)>> \o ErrorsOf(f)

Descriptor(d) ==
    LET kind == KindOf(d.fn) IN
    [name |-> d.fn.name,
     kind |-> kind,
     body |-> IF kind = "stream" THEN "stream" ELSE "unary",
     \* the procedure's entry of the IR
     ir |-> [name |-> d.fn.name, kind |-> kind,
             method |-> IF kind = "stream" THEN "GET" ELSE "POST",
             input |-> InputOf(d.fn), output |-> OutputOf(d.fn),
             errors |-> ErrorsOf(d.fn)],
     types |-> d.types,
     seen |-> d.seen]   \* history: the types visited for it

-----------------------------------------------------------------------------
(* Building the router.                                                    *)

NoDraft == [fn |-> CHOOSE f \in Functions : TRUE, stack |-> <<>>,
            types |-> <<>>, seen |-> {}]
NoIr == [goal |-> "none", proc |-> 1, type |-> 1, procs |-> <<>>, types |-> <<>>]

AsmInit ==
    /\ phase = "building"
    /\ draft = NoDraft
    /\ procedures = <<>>
    /\ layers = <<>>
    /\ ir = NoIr
    /\ service = [e \in {} |-> <<>>]
    /\ mounted = 0
    /\ applied = 0

\* main calls __taut_proc_<name>().
Describe(f) ==
    /\ phase = "building"
    /\ Compiles(f)
    /\ Len(procedures) < MaxCalls
    /\ phase' = "collecting"
    /\ draft' = [fn |-> f, stack |-> <<Signature(f)>>, types |-> <<>>, seen |-> {}]
    /\ UNCHANGED <<procedures, layers, ir, service, mounted, applied>>

\* Mutant: what is too deep is left out.
VisitOrSkip ==
    /\ phase = "collecting"
    /\ draft.stack # <<>>
    /\ Head(draft.stack) # <<>>
    /\ LET n == Head(Head(draft.stack))
           below == IF Len(draft.stack) < MaxDepth THEN <<Children(n)>> ELSE <<>>
       IN  draft' = [draft EXCEPT
                       !.stack = below \o (<<Tail(Head(@))>> \o Tail(@)),
                       !.types = IF n \in Derived THEN AddDef(@, IrName[n], n) ELSE @,
                       !.seen = @ \cup {n}]
    /\ UNCHANGED <<phase, procedures, layers, ir, service, mounted, applied>>

\* collect_type_defs of the next type: a derived one pushes its definition
\* and then has its fields' types collect theirs.  One frame too many is a
\* stack overflow, which aborts the process.
Visit ==
    /\ phase = "collecting"
    /\ draft.stack # <<>>
    /\ Head(draft.stack) # <<>>
    /\ LET n == Head(Head(draft.stack)) IN
       IF Len(draft.stack) < MaxDepth
       THEN /\ draft' = [fn |-> draft.fn,
                         stack |-> <<Children(n)>> \o
                                   (<<Tail(Head(draft.stack))>> \o Tail(draft.stack)),
                         types |-> IF n \in Derived
                                   THEN AddDef(draft.types, IrName[n], n)
                                   ELSE draft.types,
                         seen |-> draft.seen \cup {n}]
            /\ phase' = phase
       ELSE /\ phase' = "aborted"
            /\ UNCHANGED draft
    /\ UNCHANGED <<procedures, layers, ir, service, mounted, applied>>

Return ==
    /\ phase = "collecting"
    /\ draft.stack # <<>>
    /\ Head(draft.stack) = <<>>
    /\ draft' = [draft EXCEPT !.stack = Tail(@)]
    /\ UNCHANGED <<phase, procedures, layers, ir, service, mounted, applied>>

\* Mutant: the duplicate is not looked for.
RegisterAny ==
    /\ phase = "collecting"
    /\ draft.stack = <<>>
    /\ phase' = "building"
    /\ procedures' = Append(procedures, Descriptor(draft))
    /\ draft' = NoDraft
    /\ UNCHANGED <<layers, ir, service, mounted, applied>>

\* Router::procedure panics on a name it has.
Register ==
    /\ phase = "collecting"
    /\ draft.stack = <<>>
    /\ IF HasName(procedures, draft.fn.name)
       THEN /\ phase' = "panicked"
            /\ UNCHANGED <<procedures, draft>>
       ELSE /\ phase' = "building"
            /\ procedures' = Append(procedures, Descriptor(draft))
            /\ draft' = NoDraft
    /\ UNCHANGED <<layers, ir, service, mounted, applied>>

AddLayer(l) ==
    /\ phase = "building"
    /\ Len(layers) < MaxLayers
    /\ layers' = Append(layers, l)
    /\ UNCHANGED <<phase, draft, procedures, ir, service, mounted, applied>>

-----------------------------------------------------------------------------
(* Router::ir, called by dump_if_requested or first thing in into_axum.    *)

StartExport(goal) ==
    /\ phase = "building"
    /\ phase' = "exporting"
    /\ ir' = [NoIr EXCEPT !.goal = goal]
    /\ UNCHANGED <<draft, procedures, layers, service, mounted, applied>>

ExportType ==
    /\ phase = "exporting"
    /\ ir.proc <= Len(procedures)
    /\ ir.type <= Len(procedures[ir.proc].types)
    /\ LET d == procedures[ir.proc].types[ir.type] IN
       ir' = [goal |-> ir.goal, proc |-> ir.proc, type |-> ir.type + 1,
              procs |-> ir.procs, types |-> AddDef(ir.types, d.name, d.of)]
    /\ UNCHANGED <<phase, draft, procedures, layers, service, mounted, applied>>

ExportProcedure ==
    /\ phase = "exporting"
    /\ ir.proc <= Len(procedures)
    /\ ir.type > Len(procedures[ir.proc].types)
    /\ ir' = [goal |-> ir.goal, proc |-> ir.proc + 1, type |-> 1,
              procs |-> Append(ir.procs, procedures[ir.proc].ir),
              types |-> ir.types]
    /\ UNCHANGED <<phase, draft, procedures, layers, service, mounted, applied>>

Endpoint(name, method) == [name |-> name, method |-> method]

\* The dump ends the process; into_axum goes on with the built-in routes.
ExportEnds ==
    /\ phase = "exporting"
    /\ ir.proc > Len(procedures)
    /\ IF ir.goal = "dump"
       THEN /\ phase' = "dumped"
            /\ UNCHANGED service
       ELSE /\ phase' = "mounting"
            /\ service' = [e \in {Endpoint(b, "GET") : b \in Builtins} |-> <<>>]
    /\ UNCHANGED <<draft, procedures, layers, ir, mounted, applied>>

-----------------------------------------------------------------------------
(* Router::into_axum.                                                      *)

\* Mutant: queries are mounted as GET, as their method is in other frameworks.
QueriesAreGet(kind) == IF kind = "mutation" THEN "POST" ELSE "GET"

MethodOf(kind) == IF kind = "stream" THEN "GET" ELSE "POST"
BodyOf(kind)   == IF kind = "stream" THEN "stream" ELSE "unary"

AddEndpoint(e) ==
    service' = [x \in DOMAIN service \cup {e} |-> IF x = e THEN <<>> ELSE service[x]]

\* A descriptor whose body does not fit its kind is unreachable!(); axum
\* panics when a path has a handler for the method already.
MountProcedure ==
    /\ phase = "mounting"
    /\ mounted < Len(procedures)
    /\ LET d == procedures[mounted + 1]
           e == Endpoint(d.name, MethodOf(d.kind))
       IN  IF d.body # BodyOf(d.kind) \/ e \in DOMAIN service
           THEN phase' = "panicked" /\ UNCHANGED <<service, mounted>>
           ELSE AddEndpoint(e) /\ mounted' = mounted + 1 /\ UNCHANGED phase
    /\ UNCHANGED <<draft, procedures, layers, ir, applied>>

\* The fallback answers for every other path.
Fallback == Endpoint("*", "any")

\* Mutant: the fallback is counted with the procedures.
FallbackCounts ==
    /\ phase = "mounting"
    /\ mounted = Len(procedures)
    /\ AddEndpoint(Fallback)
    /\ phase' = "layering"
    /\ mounted' = mounted + 1
    /\ UNCHANGED <<draft, procedures, layers, ir, applied>>

MountFallback ==
    /\ phase = "mounting"
    /\ mounted = Len(procedures)
    /\ AddEndpoint(Fallback)
    /\ phase' = "layering"
    /\ UNCHANGED <<draft, procedures, layers, ir, mounted, applied>>

\* Mutant: a layer goes inside those that are there.
ApplyInside ==
    /\ phase = "layering"
    /\ applied < Len(layers)
    /\ service' = [e \in DOMAIN service |-> Append(service[e], layers[applied + 1])]
    /\ applied' = applied + 1
    /\ UNCHANGED <<phase, draft, procedures, layers, ir, mounted>>

\* axum's layer() wraps whatever is there.
ApplyLayer ==
    /\ phase = "layering"
    /\ applied < Len(layers)
    /\ service' = [e \in DOMAIN service |-> <<layers[applied + 1]>> \o service[e]]
    /\ applied' = applied + 1
    /\ UNCHANGED <<phase, draft, procedures, layers, ir, mounted>>

Serve ==
    /\ phase = "layering"
    /\ applied = Len(layers)
    /\ phase' = "serving"
    /\ UNCHANGED <<draft, procedures, layers, ir, service, mounted, applied>>

-----------------------------------------------------------------------------
AsmNext ==
    \/ \E f \in Functions : Describe(f)
    \/ \E l \in Layers : AddLayer(l)
    \/ \E goal \in {"dump", "mount"} : StartExport(goal)
    \/ Visit \/ Return \/ Register
    \/ ExportType \/ ExportProcedure \/ ExportEnds
    \/ MountProcedure \/ MountFallback \/ ApplyLayer \/ Serve

AsmSpec == AsmInit /\ [][AsmNext]_asmVars

-----------------------------------------------------------------------------
(* What the type graph says, without the code.                             *)

RangeOf(s) == {s[i] : i \in DOMAIN s}

\* The sets of types that have the parts of their members.
ClosedSets == {S \in SUBSET Nodes : \A n \in S : RangeOf(Children(n)) \subseteq S}

\* The types that n mentions, directly or not, and n.
Reach == [n \in Nodes |-> {m \in Nodes : \A S \in ClosedSets : n \in S => m \in S}]

ReachableFrom(roots) == UNION {Reach[n] : n \in roots}

SignatureTypes ==
    UNION {{procedures[i].ir.input, procedures[i].ir.output}
             \cup RangeOf(procedures[i].ir.errors) : i \in DOMAIN procedures}

Recursive(n) == n \in ReachableFrom(RangeOf(Children(n)))
=============================================================================
