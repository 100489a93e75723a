-------------------------- MODULE GeneratedModule --------------------------
(***************************************************************************)
(* What becomes of a dumped IR: cargo taut gen renders api.gen.ts, whose   *)
(* statements a JavaScript engine then runs from the top when the client   *)
(* imports the module; cargo taut mcp renders the tools of the manifest.   *)
(*                                                                         *)
(* A statement is the constants that it declares and reads and the methods *)
(* that it calls on the schemas in it.  The declarations are `const`, so   *)
(* reading one above its statement throws, and so does calling a method    *)
(* that a schema does not have.  A text that is not TypeScript runs not at *)
(* all.  Identifiers made from different names are taken to differ.        *)
(***************************************************************************)
EXTENDS RouterAssembly, FiniteSets

CONSTANTS
    Unwritable,     \* the types and the procedures that have a name, a key, a
                    \* tag or a doc comment which TypeScript does not take
    Validators,     \* values of --validator: valibot, zod, none
    SubscriptionsAsTools    \* values of --include-subscriptions

\* The keys of #[taut(..)] that check a field.  An odd pattern is one that
\* JavaScript does not read.
CheckKeys == {"min", "max", "length", "pattern", "odd pattern", "email", "url"}

\* A map has the type of its keys and that of its values, an Option and a
\* newtype the type in them, a field of a derived type its checks.
ASSUME TypeAssumption ==
    \A n \in Nodes :
        /\ Rust[n].form = "map" => Rust[n].args \in Seq(Nodes) /\ Len(Rust[n].args) = 2
        /\ Rust[n].form = "option" => Len(Rust[n].args) = 1
        /\ Rust[n].form = "newtype" => Len(FieldTypes(n)) = 1
        /\ n \in Derived => /\ Rust[n].rules \in Seq(SUBSET CheckKeys)
                            /\ Len(Rust[n].rules) <= Len(FieldTypes(n))

VARIABLES
    stage,      \* what the command or the engine is at
    module,     \* api.gen.ts: its validator and statements, the one to run,
                \* the constants that have their value and their methods
    manifest    \* the procedure at hand, the walk of collect_named_refs, the
                \* tools that are ready

outVars == <<stage, module, manifest>>
genVars == <<asmVars, outVars>>

-----------------------------------------------------------------------------
(* The rendered schemas.                                                   *)

\* A constant of the module.
SchemaOf(name)  == <<"type", name>>
InputSchema(p)  == <<"input", p>>
OutputSchema(p) == <<"output", p>>

\* is_string_keyed: only the values of such a map have a schema.
IsStringKeyed(key) == Rust[key].form = "primitive" /\ Rust[key].class = "text"

\* render_schema recurses into these types.  An array of length 0 renders its
\* element no times.
SchemaParts(n) ==
    IF n \in Derived \/ Rust[n].form = "primitive" THEN {}
    ELSE IF Rust[n].form = "map" /\ IsStringKeyed(Rust[n].args[1])
         THEN RangeOf(Tail(Rust[n].args))
    ELSE IF Rust[n].form = "array" /\ Rust[n].len = 0 THEN {}
    ELSE RangeOf(Rust[n].args)

\* The sets of types that have the parts of their members.
Closed(parts) == {S \in SUBSET Nodes : \A n \in S : parts[n] \subseteq S}

\* The types that a recursion comes to from each type, given the sets that are
\* closed under it.
Within(closed) == [n \in Nodes |-> {m \in Nodes : \A S \in closed : n \in S => m \in S}]

RenderedSets == Closed([n \in Nodes |-> SchemaParts(n)])
Rendered     == Within(RenderedSets)

\* The constants the rendered expression reads: those of the derived types.
SchemaReads(n) == {SchemaOf(IrName[m]) : m \in Rendered[n] \cap Derived}

-----------------------------------------------------------------------------
(* What can be called on a schema.                                         *)

IrNames   == {IrName[n] : n \in Derived}
ProcNames == {f.name : f \in Functions}
SchemaConstants ==
    {SchemaOf(m) : m \in IrNames}
    \cup {InputSchema(p) : p \in ProcNames} \cup {OutputSchema(p) : p \in ProcNames}

Methods == {"min", "max", "regex", "email", "url", "discriminatedUnion"}

\* The methods of the Zod schema of n: its own, and those of the constants it
\* stands for.  Numbers and arrays have bounds, strings all checks; the pipeline
\* of a 64 or 128 bit integer and the other schemas have nothing to chain.
SchemaLike(n) ==
    LET class == IF Rust[n].form = "primitive" THEN Rust[n].class
                 ELSE IF \/ Rust[n].form = "vec"
                         \/ Rust[n].form = "map" /\ ~IsStringKeyed(Rust[n].args[1])
                      THEN "array" ELSE "other"
    IN  [methods |-> CASE class \in {"text", "bytes"} -> Methods \ {"discriminatedUnion"}
                       [] class \in {"number", "array"} -> {"min", "max"}
                       [] OTHER -> {},
         same |-> IF n \in Derived THEN {SchemaOf(IrName[n])} ELSE {}]

Plain == [methods |-> {}, same |-> {}]

\* A bound on a string directly is left out.
IsStringTyped(n) ==
    Rust[n].form = "primitive" /\ Rust[n].class \in {"text", "bytes"}

\* The method that a constraint becomes; length(..) has its ends in .min, .max.
Chained ==
    [key \in CheckKeys |->
        CASE key = "length" -> "min"
          [] key \in {"pattern", "odd pattern"} -> "regex"
          [] OTHER -> key]

\* apply_zod_constraints appends a field's checks to whatever schema the type
\* in it has, an Option stripped.  z.discriminatedUnion throws when a field
\* hides the tag.
ZodCalls(n) ==
    LET inner(i) == LET t == FieldTypes(n)[i]
                    IN  IF Rust[t].form = "option" THEN Rust[t].args[1] ELSE t
        keys(i)  == IF IsStringTyped(inner(i)) THEN Rust[n].rules[i] \ {"min", "max"}
                    ELSE Rust[n].rules[i]
    IN  (UNION {{[on |-> SchemaLike(inner(i)), method |-> Chained[key]] : key \in keys(i)}
                  : i \in DOMAIN Rust[n].rules})
        \cup (IF Rust[n].form = "enum" /\ Rust[n].hidden
              THEN {[on |-> Plain, method |-> "discriminatedUnion"]} ELSE {})

\* The constants that the schemas of a type's fields read.
FieldReads(n) == UNION {SchemaReads(t) : t \in RangeOf(FieldTypes(n))}

\* A newtype's schema is that of the type in it.
TypeStatement(d, validator) ==
    [declares |-> {SchemaOf(d.name)},
     reads |-> FieldReads(d.of),
     gives |-> IF Rust[d.of].form = "newtype" THEN SchemaLike(FieldTypes(d.of)[1])
               ELSE Plain,
     calls |-> IF validator = "zod" THEN ZodCalls(d.of) ELSE {}]

ProcedureStatement(declares, t) ==
    [declares |-> {declares}, reads |-> SchemaReads(t), gives |-> Plain, calls |-> {}]

\* write_procedure_schemas: two constants for each procedure, and then the map
\* of all of them.
ProcedureStatements(procs) ==
    [k \in 1..(2 * Len(procs)) |->
        LET p == procs[(k + 1) \div 2]
        IN  IF k % 2 = 1 THEN ProcedureStatement(InputSchema(p.name), p.input)
            ELSE ProcedureStatement(OutputSchema(p.name), p.output)]
    \o <<[declares |-> {},
          reads |-> UNION {{InputSchema(procs[i].name), OutputSchema(procs[i].name)}
                             : i \in DOMAIN procs},
          gives |-> Plain, calls |-> {}]>>

\* Mutant: the schemas of the types come last.
TypesLast(doc, validator) ==
    IF validator = "none" THEN <<>>
    ELSE ProcedureStatements(doc.procs)
         \o [i \in DOMAIN doc.types |-> TypeStatement(doc.types[i], validator)]

\* write_schemas goes through the types in the order of the IR.
Statements(doc, validator) ==
    IF validator = "none" THEN <<>>
    ELSE [i \in DOMAIN doc.types |-> TypeStatement(doc.types[i], validator)]
         \o ProcedureStatements(doc.procs)

\* render_ts_checked refuses two definitions of one name that differ.
Conflicting(doc) ==
    \E i, j \in DOMAIN doc.types :
        i < j /\ doc.types[i].name = doc.types[j].name

\* Names, keys, tags and comments are written as they are, and so is a pattern
\* between two slashes.
IsTypeScript(doc, validator) ==
    /\ \A i \in DOMAIN doc.types :
          /\ doc.types[i].of \notin Unwritable
          /\ validator # "none" =>
                \A j \in DOMAIN Rust[doc.types[i].of].rules :
                    "odd pattern" \notin Rust[doc.types[i].of].rules[j]
    /\ \A i \in DOMAIN doc.procs : doc.procs[i].name \notin Unwritable

NoModule == [validator |-> "none", statements |-> <<>>, next |-> 1, has |-> {},
             methods |-> [c \in SchemaConstants |-> {}]]

-----------------------------------------------------------------------------
(* cargo taut gen, and the import of its output.                           *)

Generate(validator) ==
    /\ phase = "dumped" /\ stage = "none"
    /\ IF Conflicting(ir)
       THEN stage' = "refused" /\ UNCHANGED module
       ELSE /\ stage' = "generated"
            /\ module' = [NoModule EXCEPT !.validator = validator,
                                          !.statements = Statements(ir, validator)]
    /\ UNCHANGED <<asmVars, manifest>>

\* The engine reads the whole text before it runs any of it.
Import ==
    /\ stage = "generated"
    /\ stage' = IF IsTypeScript(ir, module.validator) THEN "loading" ELSE "unreadable"
    /\ UNCHANGED <<asmVars, module, manifest>>

\* The methods of a schema, given those of the constants.
MethodsFor(schema, methods) ==
    schema.methods \cup UNION {methods[c] : c \in schema.same}

\* The engine runs the next statement.
RunStatement ==
    /\ stage = "loading"
    /\ module.next <= Len(module.statements)
    /\ LET s == module.statements[module.next] IN
       IF /\ s.reads \subseteq module.has
          /\ \A c \in s.calls : c.method \in MethodsFor(c.on, module.methods)
       THEN /\ module' = [module EXCEPT
                             !.next = @ + 1,
                             !.has = @ \cup s.declares,
                             !.methods = [c \in SchemaConstants |->
                                            IF c \in s.declares THEN MethodsFor(s.gives, @)
                                            ELSE @[c]]]
            /\ UNCHANGED stage
       ELSE stage' = "threw" /\ UNCHANGED module
    /\ UNCHANGED <<asmVars, manifest>>

ModuleEnds ==
    /\ stage = "loading"
    /\ module.next > Len(module.statements)
    /\ stage' = "loaded"
    /\ UNCHANGED <<asmVars, module, manifest>>

-----------------------------------------------------------------------------
(* cargo taut mcp.                                                         *)

NoManifest == [subs |-> FALSE, proc |-> 1, todo |-> <<>>, walking |-> FALSE,
               named |-> {}, tools |-> <<>>]

ListTools(subs) ==
    /\ phase = "dumped" /\ stage = "none"
    /\ stage' = "listing"
    /\ manifest' = [NoManifest EXCEPT !.subs = subs]
    /\ UNCHANGED <<asmVars, module>>

\* render_manifest passes over subscriptions unless told not to.
StartTool ==
    /\ stage = "listing" /\ ~manifest.walking
    /\ manifest.proc <= Len(ir.procs)
    /\ LET p == ir.procs[manifest.proc] IN
       manifest' = IF p.kind = "stream" /\ ~manifest.subs
                   THEN [manifest EXCEPT !.proc = @ + 1]
                   ELSE [manifest EXCEPT !.walking = TRUE, !.todo = <<p.input>>,
                                         !.named = {}]
    /\ UNCHANGED <<asmVars, stage, module>>

DefinitionOf(name) ==
    LET with == {i \in DOMAIN ir.types : ir.types[i].name = name}
    IN  IF with = {} THEN <<>>
        ELSE FieldTypes(ir.types[CHOOSE i \in with : TRUE].of)

\* Mutant: only what the input itself names is collected.
WalkNoDefinition ==
    /\ stage = "listing" /\ manifest.walking
    /\ manifest.todo # <<>>
    /\ LET n == Head(manifest.todo)
           rest == Tail(manifest.todo)
       IN  manifest' =
             IF n \notin Derived
             THEN [manifest EXCEPT !.todo = Children(n) \o rest]
             ELSE [manifest EXCEPT !.todo = rest, !.named = @ \cup {IrName[n]}]
    /\ UNCHANGED <<asmVars, stage, module>>

\* collect_named_refs: a name is looked into once.
WalkRef ==
    /\ stage = "listing" /\ manifest.walking
    /\ manifest.todo # <<>>
    /\ LET n == Head(manifest.todo)
           rest == Tail(manifest.todo)
       IN  manifest' =
             IF n \notin Derived
             THEN [manifest EXCEPT !.todo = Children(n) \o rest]
             ELSE IF IrName[n] \in manifest.named
             THEN [manifest EXCEPT !.todo = rest]
             ELSE [manifest EXCEPT !.todo = DefinitionOf(IrName[n]) \o rest,
                                   !.named = @ \cup {IrName[n]}]
    /\ UNCHANGED <<asmVars, stage, module>>

\* render_tool: $defs has the names that the IR defines.
FinishTool ==
    /\ stage = "listing" /\ manifest.walking
    /\ manifest.todo = <<>>
    /\ LET p == ir.procs[manifest.proc] IN
       manifest' = [manifest EXCEPT
                      !.walking = FALSE, !.proc = @ + 1,
                      !.tools = Append(@, [name |-> p.name, input |-> p.input,
                          defs |-> {m \in manifest.named : HasName(ir.types, m)}])]
    /\ UNCHANGED <<asmVars, stage, module>>

ManifestEnds ==
    /\ stage = "listing" /\ ~manifest.walking
    /\ manifest.proc > Len(ir.procs)
    /\ stage' = "listed"
    /\ UNCHANGED <<asmVars, module, manifest>>

-----------------------------------------------------------------------------
GenInit == AsmInit /\ stage = "none" /\ module = NoModule /\ manifest = NoManifest

GenNext ==
    \/ AsmNext /\ UNCHANGED outVars
    \/ \E v \in Validators : Generate(v)
    \/ \E s \in SubscriptionsAsTools : ListTools(s)
    \/ Import \/ RunStatement \/ ModuleEnds
    \/ StartTool \/ WalkRef \/ FinishTool \/ ManifestEnds

GenSpec == GenInit /\ [][GenNext]_genVars

-----------------------------------------------------------------------------
(* What must hold.                                                         *)

\* The types that n is written with: a derived one by its name, a container
\* with its arguments.
WrittenSets ==
    Closed([n \in Nodes |-> IF n \in Derived THEN {} ELSE RangeOf(Children(n))])
Written == Within(WrittenSets)

NamesIn(n) == {IrName[m] : m \in Written[n] \cap Derived}

\* The names that an IR defines.
NamesOf(doc) == {doc.types[i].name : i \in DOMAIN doc.types}

\* The names of the IR whose Zod schemas have a method: the least set with
\* those that are newtypes of a schema that has it.
Carriers(doc, method) ==
    LET Has(S, schema) == method \in schema.methods \/ \E m \in S : SchemaOf(m) \in schema.same
        Closes(S) == \A k \in DOMAIN doc.types :
                         Has(S, TypeStatement(doc.types[k], "zod").gives) =>
                             doc.types[k].name \in S
    IN  {m \in NamesOf(doc) : \A S \in SUBSET NamesOf(doc) : Closes(S) => m \in S}

\* The constants of the definitions above definition k.
DefinedAbove(doc, k) == {SchemaOf(doc.types[i].name) : i \in 1..(k - 1)}

\* The types that definition k is written with are defined above it, and the
\* checks on its fields suit the fields' types.
IsSound(doc, k, validator) ==
    /\ FieldReads(doc.types[k].of) \subseteq DefinedAbove(doc, k)
    /\ validator = "zod" =>
          \A c \in ZodCalls(doc.types[k].of) :
              \/ c.method \in c.on.methods
              \/ \E m \in Carriers(doc, c.method) : SchemaOf(m) \in c.on.same

\* A text that is read loads just when all its types are sound: it throws at
\* the first that is not, of which the constants it reads are in the module all
\* the same; neither a procedure's schemas nor the map of them ever fails
\* (codegen.rs:411-431, 636-670, 725-770, 875-957).
TypesDecideTheLoad ==
    LET T == DOMAIN ir.types
        v == module.validator
    IN  /\ stage = "threw" =>
              /\ module.next \in T /\ ~IsSound(ir, module.next, v)
              /\ \A k \in 1..(module.next - 1) : IsSound(ir, k, v)
              /\ module.statements[module.next].reads \subseteq
                    {SchemaOf(m) : m \in NamesOf(ir)}
        /\ stage = "loaded" /\ v # "none" => \A k \in T : IsSound(ir, k, v)

\* SPEC.md:271-275: a client imports the generated module and has its
\* procedureSchemas.
ModuleLoads == stage # "threw"

\* No $ref of a tool dangles: the names its input is written with, and those
\* its definitions are written with, are in its $defs (mcp.rs:85-201).
ManifestIsClosed ==
    \A i \in DOMAIN manifest.tools :
        LET t == manifest.tools[i] IN
        /\ NamesIn(t.input) \subseteq t.defs
        /\ \A d \in t.defs :
              UNION {NamesIn(m) : m \in RangeOf(DefinitionOf(d))} \subseteq t.defs

-----------------------------------------------------------------------------
(* The inductive invariant.                                                *)

Schemas == [methods : SUBSET Methods, same : SUBSET SchemaConstants]

\* The state of the command and of the engine is well formed.
OutTypeOK ==
    /\ stage \in {"none", "refused", "generated", "unreadable", "loading", "loaded",
                  "threw", "listing", "listed"}
    /\ module \in [validator : Validators \cup {"none"},
                    statements : Seq([declares : SUBSET SchemaConstants,
                                      reads : SUBSET SchemaConstants,
                                      gives : Schemas,
                                      calls : SUBSET [on : Schemas, method : Methods]]),
                    next : Nat \ {0}, has : SUBSET SchemaConstants,
                    methods : [SchemaConstants -> SUBSET Methods]]
    /\ manifest \in [subs : SubscriptionsAsTools \cup {FALSE}, proc : Nat \ {0},
                      todo : Seq(Nodes), walking : BOOLEAN, named : SUBSET IrNames,
                      tools : Seq([name : ProcNames, input : Nodes,
                                   defs : SUBSET IrNames])]

\* The names that a list of types is written with.
NamesAt(types) == UNION {NamesIn(n) : n \in RangeOf(types)}

\* A command runs on a dumped IR and begins with nothing; the module is that of
\* the IR, and what has its value is what the statements so far declare.
EngineInv ==
    /\ stage # "none" => phase = "dumped"
    /\ stage = "none" => module = NoModule /\ manifest = NoManifest
    /\ stage \in {"generated", "unreadable", "loading", "loaded", "threw"} =>
          /\ module.statements = Statements(ir, module.validator)
          /\ module.next \in 1..(Len(module.statements) + 1)
          /\ module.has =
                UNION {module.statements[i].declares : i \in 1..(module.next - 1)}
    /\ stage \in {"generated", "unreadable"} => module.next = 1
    /\ stage = "threw" => module.next <= Len(module.statements)
    /\ stage = "loaded" => module.next > Len(module.statements)
    /\ stage = "refused" => Conflicting(ir)
    /\ stage = "unreadable" => ~IsTypeScript(ir, module.validator)

\* What has run was sound, and the constants of its types have the methods that
\* the definitions of the IR give them.
MethodsInv ==
    stage \in {"loading", "loaded", "threw"} /\ module.validator # "none" =>
        \A k \in DOMAIN ir.types :
            k < module.next =>
                /\ IsSound(ir, k, module.validator)
                /\ \A method \in Methods :
                      method \in module.methods[SchemaOf(ir.types[k].name)] <=>
                          ir.types[k].name \in Carriers(ir, method)

\* A name the tool's input or one of its definitions is written with is found
\* or still to be found.
TodoInv ==
    stage = "listing" /\ manifest.walking =>
        /\ manifest.proc \in DOMAIN ir.procs
        /\ RangeOf(manifest.todo) \subseteq ReachableFrom(SignatureTypes)
        /\ manifest.named \subseteq NamesOf(ir)
        /\ NamesIn(ir.procs[manifest.proc].input) \subseteq
              manifest.named \cup NamesAt(manifest.todo)
        /\ \A d \in manifest.named : NamesAt(DefinitionOf(d)) \subseteq
              manifest.named \cup NamesAt(manifest.todo)

GenInv ==
    /\ OutTypeOK /\ EngineInv /\ MethodsInv /\ TodoInv
    /\ TypesDecideTheLoad /\ ManifestIsClosed
=============================================================================
