------------------------- MODULE RouterAssemblyInv -------------------------
(***************************************************************************)
(* The properties of RouterAssembly, and the inductive invariant behind    *)
(* them.                                                                   *)
(***************************************************************************)
EXTENDS RouterAssembly, FiniteSets

\* What rustc has checked of the program: the types that the fields, the
\* arguments and the signatures name are there.
ASSUME AsmAssumption ==
    /\ Functions # {}
    /\ \A n \in Nodes : Children(n) \in Seq(Nodes)
    /\ \A f \in Functions : Len(f.args) \in Nat /\ DOMAIN f.args = 1..Len(f.args)
    /\ \A f \in Functions : Compiles(f) =>
          /\ InputOf(f) \in Nodes
          /\ OutputOf(f) \in Nodes
          /\ ErrorsOf(f) \in Seq(Nodes)

\* A program names finitely many types, and the stack has more frames than it
\* nests types in each other.  Only OnlyRecursionAborts needs it.
ASSUME DepthAssumption ==
    /\ IsFiniteSet(Nodes)
    /\ MaxDepth \in Nat
    /\ Cardinality(Nodes) < MaxDepth

-----------------------------------------------------------------------------
Phases == {"building", "collecting", "exporting", "mounting", "layering",
           "serving", "dumped", "panicked", "aborted"}

TypeDefs == [name : {IrName[n] : n \in Derived}, of : Derived]
FnNames  == {f.name : f \in Functions}
ProcIrs  == [name : FnNames, kind : KindArgs, method : {"GET", "POST"},
             input : Nodes, output : Nodes, errors : Seq(Nodes)]
Descriptors == [name : FnNames, kind : KindArgs, body : {"unary", "stream"},
                ir : ProcIrs, types : Seq(TypeDefs), seen : SUBSET Nodes]
Endpoints == [name : FnNames \cup Builtins, method : {"GET", "POST"}] \cup {Fallback}

\* The router's fields, the call stack of a descriptor function and the axum
\* router have values the code can give them (router.rs:120-127).
AsmTypeOK ==
    /\ phase \in Phases
    /\ draft \in [fn : Functions, stack : Seq(Seq(Nodes)),
                  types : Seq(TypeDefs), seen : SUBSET Nodes]
    /\ procedures \in Seq(Descriptors)
    /\ layers \in Seq(Layers)
    /\ ir \in [goal : {"none", "dump", "mount"}, proc : Nat \ {0}, type : Nat \ {0},
               procs : Seq(ProcIrs), types : Seq(TypeDefs)]
    /\ DOMAIN service \subseteq Endpoints
    /\ \A e \in DOMAIN service : service[e] \in Seq(Layers)
    /\ mounted \in 0..Len(procedures)
    /\ applied \in 0..Len(layers)

Exported == {"dumped", "mounting", "layering", "serving"}

UniqueNames(defs) ==
    \A i, j \in DOMAIN defs : defs[i].name = defs[j].name => i = j

\* The types that a descriptor is collected from.
SignatureOf(p) == {p.ir.input, p.ir.output} \cup RangeOf(p.ir.errors)

\* The exported IR defines the types the procedures mention, directly or in
\* the fields of others, and nothing else.  Where types share a name one is
\* defined, one that the first procedure to mention any of them mentions; a
\* type with a name of its own is defined itself.  Descriptors are collected,
\* filtered and merged one by one (types.rs:85-90, derive_type.rs:113-118,
\* rpc_attr.rs:503-507, router.rs:216-236).
IrIsExact ==
    phase \in Exported =>
        LET mentioned == ReachableFrom(SignatureTypes) \cap Derived
            By(i)     == ReachableFrom(SignatureOf(procedures[i])) \cap Derived
        IN  /\ UniqueNames(ir.types)
            /\ \A n \in mentioned : HasName(ir.types, IrName[n])
            /\ \A k \in DOMAIN ir.types :
                  LET n == ir.types[k].of IN
                  /\ n \in mentioned /\ ir.types[k].name = IrName[n]
                  /\ \E i \in DOMAIN procedures :
                        /\ n \in By(i)
                        /\ \A h \in 1..(i - 1), m \in Derived :
                              m \in By(h) => IrName[m] # IrName[n]

\* The stack of collect_type_defs runs out only over a type that contains
\* itself, and a procedure that mentions one never gets to be registered
\* (derive_type.rs:113-118).
OnlyRecursionAborts ==
    /\ phase = "aborted" =>
          \E n \in ReachableFrom(RangeOf(Signature(draft.fn))) : Recursive(n)
    /\ \A n \in ReachableFrom(SignatureTypes) : ~Recursive(n)

\* into_axum panics just when a subscription has the name of one of the
\* router's own GET routes: neither a duplicate nor a body of the wrong kind
\* gets that far (router.rs:148-156, 328-385).
OnlyReservedNamesPanic ==
    LET reserved == \E i \in DOMAIN procedures :
                        /\ procedures[i].ir.method = "GET"
                        /\ procedures[i].name \in Builtins
    IN  /\ phase = "panicked" /\ ir.goal = "mount" => reserved
        /\ phase = "serving" => ~reserved

\* The client calls each procedure of the IR with the IR's method: these, the
\* built-in routes and the fallback are the endpoints (router.rs:274-391).
ClientMatchesServer ==
    phase = "serving" =>
        DOMAIN service =
            {Endpoint(ir.procs[i].name, ir.procs[i].method) : i \in DOMAIN ir.procs}
            \cup {Endpoint(b, "GET") : b \in Builtins} \cup {Fallback}

LayersAround(k) == [i \in 1..k |-> layers[k + 1 - i]]

\* No request gets around a layer: built-in routes, procedures registered after
\* the layer and the fallback have them all, the last one outermost
\* (router.rs:158-180, 387-404).
EveryRequestPassesEveryLayer ==
    phase = "serving" =>
        \A e \in DOMAIN service : service[e] = LayersAround(Len(layers))

-----------------------------------------------------------------------------
(* The inductive invariant.                                                *)

Pending(stack) == UNION {RangeOf(stack[i]) : i \in DOMAIN stack}

\* A set of definitions is about the derived types of S.
DefinesOf(types, S) ==
    /\ \A n \in S \cap Derived : HasName(types, IrName[n])
    /\ \A i \in DOMAIN types :
          types[i].of \in S /\ types[i].name = IrName[types[i].of]

\* What a descriptor function has still to visit is on its stack.
DraftInv ==
    phase = "collecting" =>
        /\ Compiles(draft.fn)
        /\ \A n \in draft.seen :
              RangeOf(Children(n)) \subseteq draft.seen \cup Pending(draft.stack)
        /\ RangeOf(Signature(draft.fn)) \subseteq draft.seen \cup Pending(draft.stack)
        /\ draft.seen \cup Pending(draft.stack) \subseteq
              ReachableFrom(RangeOf(Signature(draft.fn)))
        /\ DefinesOf(draft.types, draft.seen)

DescriptorInv(p) ==
    /\ p.seen = ReachableFrom(SignatureOf(p))
    /\ DefinesOf(p.types, p.seen)
    /\ p.ir.name = p.name
    /\ p.ir.method = MethodOf(p.kind)
    /\ p.body = BodyOf(p.kind)

\* Which definitions of procedures the export has been at.
Covered(i, j) == i < ir.proc \/ (i = ir.proc /\ j < ir.type)

ExportInv ==
    phase \notin {"building", "collecting"} /\ ir.goal # "none" =>
        /\ ir.proc <= Len(procedures) + 1
        /\ Len(ir.procs) = ir.proc - 1
        /\ \A i \in DOMAIN ir.procs : ir.procs[i] = procedures[i].ir
        /\ \A i \in DOMAIN procedures : \A j \in DOMAIN procedures[i].types :
              Covered(i, j) => HasName(ir.types, procedures[i].types[j].name)
        /\ \A k \in DOMAIN ir.types : \E i \in DOMAIN procedures :
              /\ \E j \in DOMAIN procedures[i].types :
                    ir.types[k] = procedures[i].types[j]
              /\ \A h \in 1..(i - 1) :
                    ~HasName(procedures[h].types, ir.types[k].name)
        /\ UniqueNames(ir.types)

GoalInv ==
    /\ phase \in {"building", "collecting"} => ir = NoIr
    /\ phase \in Exported => ir.proc = Len(procedures) + 1
    /\ phase \in {"exporting"} \cup Exported => ir.goal # "none"

EndpointOf(p) == Endpoint(p.name, MethodOf(p.kind))

MountInv ==
    /\ phase \in {"mounting", "layering", "serving"} =>
          /\ DOMAIN service =
                {EndpointOf(procedures[i]) : i \in 1..mounted}
                \cup {Endpoint(b, "GET") : b \in Builtins}
                \cup (IF phase = "mounting" THEN {} ELSE {Fallback})
          /\ \A i \in 1..mounted :
                EndpointOf(procedures[i]) \notin {Endpoint(b, "GET") : b \in Builtins}
          /\ \A e \in DOMAIN service : service[e] = LayersAround(applied)
    /\ phase \in {"building", "collecting", "exporting", "mounting"} => applied = 0
    /\ phase \in {"building", "collecting", "exporting"} => mounted = 0
    /\ phase \in {"layering", "serving"} => mounted = Len(procedures)
    /\ phase = "serving" => applied = Len(layers)

\* The types that frame i goes through: the parts of path[i] or, in the last
\* frame, the signature.
PartsOf(stack, sig, path, i) ==
    IF i < Len(stack) THEN RangeOf(Children(path[i])) ELSE sig

\* What a frame has not still to call has returned (it is in done) or is the
\* call above it.
FrameInv(stack, sig, path, done, i) ==
    /\ RangeOf(stack[i]) \subseteq PartsOf(stack, sig, path, i)
    /\ i > 1 => path[i - 1] \in PartsOf(stack, sig, path, i)
    /\ \A m \in PartsOf(stack, sig, path, i) :
          m \in done \/ m \in RangeOf(stack[i]) \/ (i > 1 /\ m = path[i - 1])

\* The types of the frames contain each other: path[i] is for what path[j],
\* further down, mentions.
NestInv(sig, path, k) ==
    /\ \A i \in 1..k : path[i] \in ReachableFrom(sig)
    /\ \A i, j \in 1..k :
          i < j => path[i] \in ReachableFrom(RangeOf(Children(path[j])))

\* A call that has returned was for a type that does not contain itself, and
\* all its parts have returned.
DoneInv(done) ==
    \A n \in done : ~Recursive(n) /\ RangeOf(Children(n)) \subseteq done

CallsInv(stack, sig, path, done) ==
    /\ DoneInv(done)
    /\ \A i \in DOMAIN stack : FrameInv(stack, sig, path, done, i)
    /\ NestInv(sig, path, Len(stack) - 1)
    /\ stack = <<>> => sig \subseteq done

\* The frames of the walk are calls that nest types in each other.
StackInv ==
    phase = "collecting" =>
        \E path \in [1..(Len(draft.stack) - 1) -> Nodes], done \in SUBSET Nodes :
            CallsInv(draft.stack, RangeOf(Signature(draft.fn)), path, done)

AsmInv ==
    /\ AsmTypeOK
    /\ DraftInv
    /\ \A i \in DOMAIN procedures : DescriptorInv(procedures[i])
    /\ UniqueNames(procedures)
    /\ GoalInv
    /\ ExportInv
    /\ MountInv
    /\ OnlyReservedNamesPanic
    /\ StackInv
    /\ OnlyRecursionAborts
=============================================================================
