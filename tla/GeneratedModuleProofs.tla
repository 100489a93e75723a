----------------------- MODULE GeneratedModuleProofs -----------------------
(***************************************************************************)
(* For every program: the import of the generated module throws just when  *)
(* a type is above one that it is written with, or checks what its schema  *)
(* cannot, and no $ref of a tool dangles.                                  *)
(***************************************************************************)
EXTENDS GeneratedModule, RouterAssemblyProofs

-----------------------------------------------------------------------------
(* Recursions over types.                                                  *)

\* A recursion comes to the type it starts from and to the parts of what it
\* comes to.
LEMMA WithinIsClosed ==
    ASSUME NEW parts \in [Nodes -> SUBSET Nodes], NEW n \in Nodes,
           NEW reached, reached = Within(Closed(parts))[n]
    PROVE  /\ n \in reached
           /\ reached \subseteq Nodes
           /\ \A m \in reached : parts[m] \subseteq reached
<1>1. /\ n \in reached /\ reached \subseteq Nodes
      /\ \A m \in Nodes : m \in reached <=>
            \A S \in Closed(parts) : n \in S => m \in S
  BY DEF Within
<1>2. ASSUME NEW m \in reached, NEW c \in parts[m] PROVE c \in reached
  <2>1. c \in Nodes
    BY <1>1
  <2>2. \A S \in Closed(parts) : m \in S => c \in S
    BY DEF Closed
  <2> QED BY <1>1, <2>1, <2>2
<1> QED BY <1>1, <1>2

\* Nothing that is closed under the recursion is smaller.
LEMMA WithinIsLeast ==
    ASSUME NEW parts \in [Nodes -> SUBSET Nodes], NEW S \in SUBSET Nodes,
           NEW n \in S, \A m \in S : parts[m] \subseteq S
    PROVE  Within(Closed(parts))[n] \subseteq S
<1>1. S \in Closed(parts)
  BY DEF Closed
<1> QED BY <1>1 DEF Within

\* A derived type is written by its name, any other with its arguments.
LEMMA NamesInIs ==
    ASSUME NEW n \in Nodes
    PROVE  NamesIn(n) = IF n \in Derived THEN {IrName[n]} ELSE NamesAt(Children(n))
<1> DEFINE parts == [m \in Nodes |-> IF m \in Derived THEN {} ELSE RangeOf(Children(m))]
<1>1. parts \in [Nodes -> SUBSET Nodes]
  BY PartsAreTypes
<1>2. Written = Within(Closed(parts))
  BY DEF Written, WrittenSets
<1>3. \A m \in Nodes : parts[m] = IF m \in Derived THEN {} ELSE RangeOf(Children(m))
  OBVIOUS
<1> HIDE DEF parts
<1>4. ASSUME NEW m \in Nodes
      PROVE  /\ m \in Written[m] /\ Written[m] \subseteq Nodes
             /\ \A c \in Written[m] : parts[c] \subseteq Written[m]
  BY <1>1, <1>2, WithinIsClosed
<1>5. CASE n \in Derived
  <2>1. Written[n] \subseteq {n}
    <3> DEFINE S == {n}
    <3>1. S \in SUBSET Nodes /\ n \in S /\ \A m \in S : parts[m] \subseteq S
      BY <1>3, <1>5
    <3> HIDE DEF S
    <3>2. Written[n] \subseteq S
      BY <1>1, <1>2, <3>1, WithinIsLeast
    <3> QED BY <3>2 DEF S
  <2> QED BY <1>4, <1>5, <2>1 DEF NamesIn
<1>6. CASE n \notin Derived
  <2> DEFINE S == {n} \cup UNION {Written[c] : c \in RangeOf(Children(n))}
  <2>1. RangeOf(Children(n)) \in SUBSET Nodes /\ parts[n] = RangeOf(Children(n))
    BY <1>3, <1>6, PartsAreTypes
  <2>2. S \in SUBSET Nodes /\ n \in S
    BY <1>4, <2>1
  <2>3. \A m \in S : parts[m] \subseteq S
    BY <1>4, <2>1
  <2> HIDE DEF S
  <2>4. Written[n] \subseteq S
    BY <1>1, <1>2, <2>2, <2>3, WithinIsLeast
  <2>5. ASSUME NEW c \in RangeOf(Children(n)) PROVE Written[c] \subseteq Written[n]
    <3>1. c \in Written[n] /\ c \in Nodes
      BY <1>4, <2>1
    <3> QED BY <1>1, <1>2, <1>4, <3>1, WithinIsLeast
  <2>6. Written[n] \cap Derived =
        UNION {Written[c] \cap Derived : c \in RangeOf(Children(n))}
    BY <1>6, <2>4, <2>5 DEF S
  <2> QED BY <1>6, <2>6 DEF NamesIn, NamesAt
<1> QED BY <1>5, <1>6

\* The parts a schema has in it are parts of the type.
LEMMA SchemaPartsAre ==
    ASSUME NEW n \in Nodes
    PROVE  SchemaParts(n) \subseteq RangeOf(Children(n))
<1>1. CASE n \in Derived \/ Rust[n].form = "primitive"
  BY <1>1 DEF SchemaParts
<1>2. CASE ~(n \in Derived \/ Rust[n].form = "primitive")
  <2>1. Children(n) = Rust[n].args
    BY <1>2 DEF Children
  <2>2. Rust[n].form = "map" => RangeOf(Tail(Rust[n].args)) \subseteq RangeOf(Rust[n].args)
    <3> SUFFICES ASSUME Rust[n].form = "map"
                 PROVE  RangeOf(Tail(Rust[n].args)) \subseteq RangeOf(Rust[n].args)
      OBVIOUS
    <3> DEFINE s == Rust[n].args
    <3>1. s \in Seq(Nodes) /\ Len(s) = 2
      BY TypeAssumption
    <3> HIDE DEF s
    <3>2. s # <<>>
      <4>1. Len(<<>>) = 0 /\ ~(0 = 2)
        OBVIOUS
      <4> QED BY <3>1, <4>1, Zenon
    <3>3. RangeOf(Tail(s)) \subseteq RangeOf(s)
      BY <3>1, <3>2, RangeOfTail
    <3> QED BY <3>3 DEF s
  <2> QED BY <1>2, <2>1, <2>2 DEF SchemaParts
<1> QED BY <1>1, <1>2

\* A schema reads the constants of reachable types only.
LEMMA RenderedIsReachable ==
    ASSUME NEW roots \in SUBSET Nodes, NEW n \in ReachableFrom(roots)
    PROVE  Rendered[n] \subseteq ReachableFrom(roots)
<1> DEFINE parts == [m \in Nodes |-> SchemaParts(m)]
           S == ReachableFrom(roots)
<1>1. parts \in [Nodes -> SUBSET Nodes]
  BY SchemaPartsAre, PartsAreTypes
<1>2. \A m \in Nodes : parts[m] = SchemaParts(m)
  OBVIOUS
<1>3. /\ S \in SUBSET Nodes /\ n \in S
      /\ \A m \in S : RangeOf(Children(m)) \subseteq S
  BY ReachableFromIsClosed
<1>4. Rendered = Within(Closed(parts))
  BY DEF Rendered, RenderedSets
<1> HIDE DEF parts, S
<1>5. \A m \in S : parts[m] \subseteq S
  BY <1>2, <1>3, SchemaPartsAre
<1>6. Rendered[n] \subseteq S
  BY <1>1, <1>3, <1>4, <1>5, WithinIsLeast
<1> QED BY <1>6 DEF S

-----------------------------------------------------------------------------
(* The statements of the module.                                           *)

\* What gen and mcp may rely on in a dumped IR: its definitions are of the
\* types that its procedures mention, and each name is defined once.
DumpedIr ==
    /\ ir.types \in Seq(TypeDefs) /\ ir.procs \in Seq(ProcIrs)
    /\ UniqueNames(ir.types)
    /\ SignatureTypes \in SUBSET Nodes
    /\ \A k \in DOMAIN ir.types : ir.types[k].of \in ReachableFrom(SignatureTypes)
    /\ \A n \in ReachableFrom(SignatureTypes) \cap Derived : IrName[n] \in NamesOf(ir)
    /\ \A i \in DOMAIN ir.procs :
          /\ ir.procs[i].input \in ReachableFrom(SignatureTypes)
          /\ ir.procs[i].output \in ReachableFrom(SignatureTypes)

TypeConstants == {SchemaOf(m) : m \in NamesOf(ir)}

StatementSet == [declares : SUBSET SchemaConstants, reads : SUBSET SchemaConstants,
                 gives : Schemas, calls : SUBSET [on : Schemas, method : Methods]]

\* The constants a schema reads are those of definitions of the IR.
LEMMA ReadsAreDefined ==
    ASSUME DumpedIr, NEW n \in ReachableFrom(SignatureTypes)
    PROVE  SchemaReads(n) \subseteq TypeConstants
<1>1. Rendered[n] \subseteq ReachableFrom(SignatureTypes)
  BY RenderedIsReachable DEF DumpedIr
<1> QED BY <1>1 DEF SchemaReads, TypeConstants, DumpedIr

\* They are constants that the module may have.
LEMMA TypeConstantsAre ==
    ASSUME DumpedIr
    PROVE  TypeConstants \subseteq SchemaConstants /\ NamesOf(ir) \subseteq IrNames
<1>1. NamesOf(ir) \subseteq IrNames
  <2>1. \A k \in DOMAIN ir.types : ir.types[k] \in TypeDefs
    BY DEF DumpedIr
  <2>2. \A k \in DOMAIN ir.types : ir.types[k].name \in IrNames
    BY <2>1 DEF TypeDefs, IrNames
  <2> QED BY <2>2 DEF NamesOf
<1> QED BY <1>1 DEF TypeConstants, SchemaConstants

\* A schema has some of the methods, and is at most the constant of its type.
LEMMA SchemaLikeIs ==
    ASSUME NEW n \in Nodes
    PROVE  /\ SchemaLike(n) \in Schemas
           /\ SchemaLike(n).same = IF n \in Derived THEN {SchemaOf(IrName[n])} ELSE {}
<1> DEFINE same == IF n \in Derived THEN {SchemaOf(IrName[n])} ELSE {}
<1>1. PICK ms \in SUBSET Methods : SchemaLike(n) = [methods |-> ms, same |-> same]
  <2> DEFINE class == IF Rust[n].form = "primitive" THEN Rust[n].class
                      ELSE IF \/ Rust[n].form = "vec"
                              \/ Rust[n].form = "map" /\ ~IsStringKeyed(Rust[n].args[1])
                           THEN "array" ELSE "other"
             ms == CASE class \in {"text", "bytes"} -> Methods \ {"discriminatedUnion"}
                     [] class \in {"number", "array"} -> {"min", "max"}
                     [] OTHER -> {}
  <2>1. SchemaLike(n) = [methods |-> ms, same |-> same]
    BY DEF SchemaLike
  <2> HIDE DEF class
  <2>2. ms \in SUBSET Methods
    BY DEF Methods
  <2> HIDE DEF ms
  <2> QED BY <2>1, <2>2
<1>2. same \in SUBSET SchemaConstants
  BY DEF SchemaConstants, IrNames
<1> HIDE DEF same
<1>3. SchemaLike(n) \in Schemas /\ SchemaLike(n).same = same
  BY <1>1, <1>2 DEF Schemas
<1> QED BY <1>3 DEF same

\* A schema reads the constant of its type, under an Option too.
LEMMA ReadsItself ==
    ASSUME NEW n \in Nodes
    PROVE  /\ SchemaLike(n).same \subseteq SchemaReads(n)
           /\ Rust[n].form = "option" =>
                 /\ Rust[n].args[1] \in Nodes
                 /\ SchemaLike(Rust[n].args[1]).same \subseteq SchemaReads(n)
<1> DEFINE parts == [m \in Nodes |-> SchemaParts(m)]
<1>1. parts \in [Nodes -> SUBSET Nodes]
  BY SchemaPartsAre, PartsAreTypes
<1>2. \A m \in Nodes : parts[m] = SchemaParts(m)
  OBVIOUS
<1>3. Rendered = Within(Closed(parts))
  BY DEF Rendered, RenderedSets
<1> HIDE DEF parts
<1>4. n \in Rendered[n] /\ \A m \in Rendered[n] : parts[m] \subseteq Rendered[n]
  BY <1>1, <1>3, WithinIsClosed
<1>5. \A m \in Rendered[n] : m \in Nodes => SchemaLike(m).same \subseteq SchemaReads(n)
  BY SchemaLikeIs DEF SchemaReads
<1>6. ASSUME Rust[n].form = "option"
      PROVE  Rust[n].args[1] \in Nodes /\ Rust[n].args[1] \in Rendered[n]
  <2>1. n \notin Derived /\ Children(n) = Rust[n].args
    BY <1>6 DEF Derived, Children
  <2>2. Rust[n].args \in Seq(Nodes) /\ Len(Rust[n].args) = 1
    BY <1>6, <2>1, AsmAssumption, TypeAssumption
  <2>3. 1 \in DOMAIN Rust[n].args /\ Rust[n].args[1] \in Nodes
    BY <2>2
  <2>4. Rust[n].args[1] \in SchemaParts(n)
    BY <1>6, <2>1, <2>3 DEF SchemaParts, RangeOf
  <2> QED BY <1>2, <1>4, <2>3, <2>4
<1> QED BY <1>4, <1>5, <1>6

\* The checks of a type are called on schemas that its statement reads.
LEMMA ZodCallsAre ==
    ASSUME NEW n \in Derived, NEW c \in ZodCalls(n)
    PROVE  /\ c \in [on : Schemas, method : Methods]
           /\ c.on.same \subseteq FieldReads(n)
<1> DEFINE inner(i) == LET t == FieldTypes(n)[i]
                       IN  IF Rust[t].form = "option" THEN Rust[t].args[1] ELSE t
           keys(i)  == IF IsStringTyped(inner(i)) THEN Rust[n].rules[i] \ {"min", "max"}
                       ELSE Rust[n].rules[i]
<1>1. FieldTypes(n) \in Seq(Nodes) /\ n \in Nodes
  <2>1. n \in Nodes /\ Children(n) = FieldTypes(n)
    BY DEF Derived, Children
  <2> QED BY <2>1, AsmAssumption
<1>2. Rust[n].rules \in Seq(SUBSET CheckKeys) /\ Len(Rust[n].rules) <= Len(FieldTypes(n))
  BY <1>1, TypeAssumption
<1>3. CASE \E i \in DOMAIN Rust[n].rules : \E key \in keys(i) :
              c = [on |-> SchemaLike(inner(i)), method |-> Chained[key]]
  <2>1. PICK i \in DOMAIN Rust[n].rules : \E key \in keys(i) :
                c = [on |-> SchemaLike(inner(i)), method |-> Chained[key]]
    BY <1>3
  <2>2. PICK key \in keys(i) :
                c = [on |-> SchemaLike(inner(i)), method |-> Chained[key]]
    BY <2>1
  <2>3. key \in CheckKeys
    <3>1. Rust[n].rules[i] \subseteq CheckKeys
      BY <1>2
    <3> QED BY <3>1
  <2>4. Chained[key] \in Methods
    BY <2>3 DEF Chained, Methods, CheckKeys
  <2>5. i \in DOMAIN FieldTypes(n) /\ FieldTypes(n)[i] \in Nodes
        /\ FieldTypes(n)[i] \in RangeOf(FieldTypes(n))
    <3>1. i \in DOMAIN FieldTypes(n)
      BY <1>1, <1>2
    <3> QED BY <1>1, <3>1 DEF RangeOf
  <2>6. inner(i) \in Nodes /\ SchemaLike(inner(i)).same \subseteq SchemaReads(FieldTypes(n)[i])
    BY <2>5, ReadsItself
  <2> HIDE DEF inner, keys
  <2>7. SchemaLike(inner(i)) \in Schemas
    BY <2>6, SchemaLikeIs
  <2>8. SchemaReads(FieldTypes(n)[i]) \subseteq FieldReads(n)
    BY <2>5 DEF FieldReads
  <2> QED BY <2>2, <2>4, <2>6, <2>7, <2>8
<1>4. CASE c = [on |-> Plain, method |-> "discriminatedUnion"]
  BY <1>4 DEF Plain, Schemas, Methods
<1> HIDE DEF inner, keys
<1>5. \/ c = [on |-> Plain, method |-> "discriminatedUnion"]
      \/ \E i \in DOMAIN Rust[n].rules : \E key \in keys(i) :
            c = [on |-> SchemaLike(inner(i)), method |-> Chained[key]]
  <2> DEFINE checks(i) == {[on |-> SchemaLike(inner(i)), method |-> Chained[key]] :
                             key \in keys(i)}
             tag == IF Rust[n].form = "enum" /\ Rust[n].hidden
                    THEN {[on |-> Plain, method |-> "discriminatedUnion"]} ELSE {}
  <2>1. ZodCalls(n) = (UNION {checks(i) : i \in DOMAIN Rust[n].rules}) \cup tag
    BY DEF ZodCalls, inner, keys
  <2>2. \A i : c \in checks(i) => \E key \in keys(i) :
                c = [on |-> SchemaLike(inner(i)), method |-> Chained[key]]
    OBVIOUS
  <2>3. c \in tag => c = [on |-> Plain, method |-> "discriminatedUnion"]
    OBVIOUS
  <2> HIDE DEF checks, tag
  <2> QED BY <2>1, <2>2, <2>3
<1> QED BY <1>3, <1>4, <1>5

\* A type's statement declares its constant and reads those of its fields; what
\* it calls is called on these.
LEMMA TypeStatementIs ==
    ASSUME DumpedIr, NEW v, NEW k \in DOMAIN ir.types,
           NEW s, s = TypeStatement(ir.types[k], v)
    PROVE  /\ s \in StatementSet
           /\ s.declares = {SchemaOf(ir.types[k].name)}
           /\ s.reads = FieldReads(ir.types[k].of)
           /\ s.reads \subseteq TypeConstants
           /\ s.gives = TypeStatement(ir.types[k], "zod").gives
           /\ s.gives.same \subseteq s.reads
           /\ s.calls = IF v = "zod" THEN ZodCalls(ir.types[k].of) ELSE {}
           /\ \A c \in s.calls : c.on.same \subseteq s.reads
<1> DEFINE d == ir.types[k]
           reads == FieldReads(d.of)
           gives == IF Rust[d.of].form = "newtype" THEN SchemaLike(FieldTypes(d.of)[1])
                    ELSE Plain
           calls == IF v = "zod" THEN ZodCalls(d.of) ELSE {}
<1>1. /\ d.of \in Derived
      /\ d.of \in ReachableFrom(SignatureTypes) /\ d.name \in NamesOf(ir)
  <2>1. d \in TypeDefs
    BY DEF DumpedIr
  <2>2. d.of \in Derived
    BY <2>1 DEF TypeDefs
  <2> QED BY <2>2 DEF DumpedIr, NamesOf
<1>2. RangeOf(FieldTypes(d.of)) \subseteq ReachableFrom(SignatureTypes)
      /\ FieldTypes(d.of) \in Seq(Nodes)
  <2>1. Children(d.of) = FieldTypes(d.of) /\ d.of \in Nodes
    BY <1>1 DEF Children, Derived
  <2>2. RangeOf(Children(d.of)) \subseteq ReachableFrom(SignatureTypes)
    BY <1>1, ReachableFromIsClosed DEF DumpedIr
  <2> QED BY <2>1, <2>2, AsmAssumption
<1> HIDE DEF d
<1>3. reads \subseteq TypeConstants
  BY <1>2, ReadsAreDefined DEF FieldReads
<1>4. SchemaOf(d.name) \in TypeConstants
  BY <1>1 DEF TypeConstants
<1>5. gives \in Schemas /\ gives.same \subseteq reads
  <2>1. CASE Rust[d.of].form = "newtype"
    <3> DEFINE t == FieldTypes(d.of)[1]
    <3>1. Len(FieldTypes(d.of)) = 1
      BY <1>1, <2>1, TypeAssumption DEF Derived
    <3>2. t \in RangeOf(FieldTypes(d.of)) /\ t \in Nodes
      BY <1>2, <3>1 DEF RangeOf
    <3>3. gives = SchemaLike(t)
      BY <2>1
    <3> HIDE DEF t, gives
    <3>4. SchemaLike(t) \in Schemas /\ SchemaLike(t).same \subseteq SchemaReads(t)
      BY <3>2, SchemaLikeIs, ReadsItself
    <3>5. SchemaReads(t) \subseteq reads
      BY <3>2 DEF FieldReads
    <3> QED BY <3>3, <3>4, <3>5
  <2>2. CASE Rust[d.of].form # "newtype"
    BY <2>2 DEF Plain, Schemas
  <2> QED BY <2>1, <2>2
<1>6. /\ calls \in SUBSET [on : Schemas, method : Methods]
      /\ \A c \in calls : c.on.same \subseteq reads
  BY <1>1, ZodCallsAre
<1>7. s = [declares |-> {SchemaOf(d.name)}, reads |-> reads, gives |-> gives,
           calls |-> calls]
  BY DEF TypeStatement, d
<1>8. TypeStatement(d, "zod").gives = gives
  BY DEF TypeStatement
<1> HIDE DEF reads, gives, calls
<1>9. s \in StatementSet
  BY <1>3, <1>4, <1>5, <1>6, <1>7, TypeConstantsAre DEF StatementSet
<1>10. /\ s.declares = {SchemaOf(d.name)} /\ s.reads = reads /\ s.gives = gives
       /\ s.calls = calls
  BY <1>7
<1> QED BY <1>3, <1>5, <1>6, <1>8, <1>9, <1>10 DEF d, reads, calls

\* A procedure's statement reads constants of the types only, and calls nothing.
LEMMA ProcedureStatementIs ==
    ASSUME DumpedIr, NEW c \in SchemaConstants,
           NEW n \in ReachableFrom(SignatureTypes),
           NEW s, s = ProcedureStatement(c, n)
    PROVE  /\ s \in StatementSet /\ s.declares = {c} /\ s.calls = {}
           /\ s.reads \subseteq TypeConstants
<1>1. s = [declares |-> {c}, reads |-> SchemaReads(n), gives |-> Plain, calls |-> {}]
  BY DEF ProcedureStatement
<1>2. SchemaReads(n) \subseteq TypeConstants /\ TypeConstants \subseteq SchemaConstants
  BY ReadsAreDefined, TypeConstantsAre
<1>3. Plain \in Schemas
  BY DEF Plain, Schemas
<1> QED BY <1>1, <1>2, <1>3 DEF StatementSet

\* The procedure that statement k is of: each has two, in the order of the IR.
LEMMA Halves ==
    ASSUME NEW n \in Nat, NEW k \in 1..(2 * n)
    PROVE  /\ (k + 1) \div 2 \in 1..n
           /\ k % 2 = 1 => k = 2 * ((k + 1) \div 2) - 1
           /\ k % 2 # 1 => k = 2 * ((k + 1) \div 2)
  OBVIOUS

\* Where the two statements of procedure i are.
LEMMA EvenAndOdd ==
    ASSUME NEW n \in Nat, NEW i \in 1..n
    PROVE  /\ 2 * i - 1 \in 1..(2 * n) /\ 2 * i \in 1..(2 * n)
           /\ (2 * i - 1) % 2 = 1 /\ ((2 * i - 1) + 1) \div 2 = i
           /\ (2 * i) % 2 # 1 /\ (2 * i + 1) \div 2 = i
  OBVIOUS

\* A function on 1..n is a sequence.
LEMMA MakesSequence ==
    ASSUME NEW n \in Nat, NEW S, NEW f, f = [k \in 1..n |-> f[k]],
           \A k \in 1..n : f[k] \in S
    PROVE  f \in Seq(S) /\ Len(f) = n
  OBVIOUS

\* Where the items of a concatenation are.
LEMMA Concatenates ==
    ASSUME NEW S, NEW a \in Seq(S), NEW b \in Seq(S), NEW n \in Nat, n = Len(a),
           NEW k \in Nat, k = Len(b), NEW s, s = a \o b
    PROVE  /\ s \in Seq(S) /\ DOMAIN s = 1..(n + k)
           /\ \A i \in 1..n : s[i] = a[i]
           /\ \A i \in 1..k : s[n + i] = b[i]
  OBVIOUS

\* The constants of the procedures are none of the types'.
ProcedureConstants ==
    {InputSchema(p) : p \in ProcNames} \cup {OutputSchema(p) : p \in ProcNames}

\* The statements of the procedures read what the types declare, and the map
\* of all of them reads what the procedures declare.
LEMMA ProcedureStatementsAre ==
    ASSUME DumpedIr, NEW q, q = ProcedureStatements(ir.procs)
    PROVE  /\ q \in Seq(StatementSet)
           /\ \A k \in DOMAIN q :
                 /\ q[k].calls = {} /\ q[k].declares \subseteq ProcedureConstants
                 /\ q[k].reads \subseteq
                       TypeConstants \cup UNION {q[i].declares : i \in 1..(k - 1)}
<1> DEFINE procs == ir.procs
           P == Len(ir.procs)
           halves == [k \in 1..(2 * Len(procs)) |->
                        LET p == procs[(k + 1) \div 2]
                        IN  IF k % 2 = 1
                            THEN ProcedureStatement(InputSchema(p.name), p.input)
                            ELSE ProcedureStatement(OutputSchema(p.name), p.output)]
           all == [declares |-> {},
                   reads |-> UNION {{InputSchema(procs[i].name), OutputSchema(procs[i].name)}
                                      : i \in DOMAIN procs},
                   gives |-> Plain, calls |-> {}]
<1>1. P \in Nat /\ DOMAIN procs = 1..P /\ P = Len(procs)
  BY DEF DumpedIr
<1>2. q = halves \o <<all>>
  BY DEF ProcedureStatements
<1>3. ASSUME NEW i \in 1..P
      PROVE  /\ InputSchema(procs[i].name) \in SchemaConstants \cap ProcedureConstants
             /\ OutputSchema(procs[i].name) \in SchemaConstants \cap ProcedureConstants
             /\ procs[i].input \in ReachableFrom(SignatureTypes)
             /\ procs[i].output \in ReachableFrom(SignatureTypes)
  <2>1. procs[i] \in ProcIrs
    BY <1>1 DEF DumpedIr
  <2>2. procs[i].name \in ProcNames
    BY <2>1 DEF ProcIrs, FnNames, ProcNames
  <2> QED BY <1>1, <2>2 DEF DumpedIr, SchemaConstants, ProcedureConstants
<1>4. /\ DOMAIN halves = 1..(2 * P)
      /\ \A k \in 1..(2 * P) :
            halves[k] = IF k % 2 = 1
                        THEN ProcedureStatement(InputSchema(procs[(k + 1) \div 2].name),
                                                procs[(k + 1) \div 2].input)
                        ELSE ProcedureStatement(OutputSchema(procs[(k + 1) \div 2].name),
                                                procs[(k + 1) \div 2].output)
  BY <1>1
<1>5. /\ all.declares = {} /\ all.calls = {} /\ all.gives = Plain
      /\ all.reads = UNION {{InputSchema(procs[i].name), OutputSchema(procs[i].name)}
                              : i \in 1..P}
  BY <1>1
<1> HIDE DEF procs, halves, all
<1>6. ASSUME NEW k \in 1..(2 * P)
      PROVE  /\ halves[k] \in StatementSet /\ halves[k].calls = {}
             /\ halves[k].declares \subseteq ProcedureConstants
             /\ halves[k].reads \subseteq TypeConstants
             /\ halves[k].declares =
                  {IF k % 2 = 1 THEN InputSchema(procs[(k + 1) \div 2].name)
                   ELSE OutputSchema(procs[(k + 1) \div 2].name)}
  <2>1. (k + 1) \div 2 \in 1..P
    BY <1>1, Halves
  <2>2. CASE k % 2 = 1
    <3>1. halves[k] = ProcedureStatement(InputSchema(procs[(k + 1) \div 2].name),
                                         procs[(k + 1) \div 2].input)
      BY <1>4, <2>2
    <3> QED BY <1>3, <2>1, <2>2, <3>1, ProcedureStatementIs
  <2>3. CASE k % 2 # 1
    <3>1. halves[k] = ProcedureStatement(OutputSchema(procs[(k + 1) \div 2].name),
                                         procs[(k + 1) \div 2].output)
      BY <1>4, <2>3
    <3> QED BY <1>3, <2>1, <2>3, <3>1, ProcedureStatementIs
  <2> QED BY <2>2, <2>3
<1>7. all.reads \subseteq UNION {halves[i].declares : i \in 1..(2 * P)}
  <2>1. ASSUME NEW i \in 1..P
        PROVE  /\ \E k \in 1..(2 * P) : InputSchema(procs[i].name) \in halves[k].declares
               /\ \E k \in 1..(2 * P) : OutputSchema(procs[i].name) \in halves[k].declares
    <3>1. /\ 2 * i - 1 \in 1..(2 * P) /\ 2 * i \in 1..(2 * P)
          /\ (2 * i - 1) % 2 = 1 /\ ((2 * i - 1) + 1) \div 2 = i
          /\ (2 * i) % 2 # 1 /\ (2 * i + 1) \div 2 = i
      BY <1>1, EvenAndOdd
    <3>2. halves[2 * i - 1].declares = {InputSchema(procs[i].name)}
      BY <1>6, <3>1
    <3>3. halves[2 * i].declares = {OutputSchema(procs[i].name)}
      BY <1>6, <3>1
    <3> QED BY <3>1, <3>2, <3>3
  <2> QED BY <1>5, <2>1
<1>8. all \in StatementSet
  <2>1. all.reads \subseteq SchemaConstants
    BY <1>3, <1>5
  <2>2. Plain \in Schemas
    BY DEF Plain, Schemas
  <2> QED BY <2>1, <2>2 DEF StatementSet, all
<1>9. halves \in Seq(StatementSet) /\ Len(halves) = 2 * P
  <2>1. halves = [k \in 1..(2 * P) |-> halves[k]]
    BY <1>4 DEF halves
  <2>2. 2 * P \in Nat
    BY <1>1
  <2> QED BY <1>6, <2>1, <2>2, MakesSequence
<1> DEFINE K == 2 * P
<1>10. K \in Nat /\ K = Len(halves) /\ K + 1 - 1 = K
  BY <1>1, <1>9
<1>11. /\ \A k \in 1..K : /\ halves[k].calls = {} /\ halves[k].reads \subseteq TypeConstants
                         /\ halves[k].declares \subseteq ProcedureConstants
       /\ all.reads \subseteq UNION {halves[i].declares : i \in 1..K}
  BY <1>6, <1>7
<1> HIDE DEF K
<1>12. /\ q \in Seq(StatementSet) /\ DOMAIN q = 1..(K + 1)
       /\ \A i \in 1..K : q[i] = halves[i]
       /\ q[K + 1] = all
  <2>1. /\ <<all>> \in Seq(StatementSet) /\ 1 \in Nat /\ 1 = Len(<<all>>)
        /\ <<all>>[1] = all /\ 1 \in 1..1
    BY <1>8
  <2>2. /\ q \in Seq(StatementSet) /\ DOMAIN q = 1..(K + 1)
        /\ \A i \in 1..K : q[i] = halves[i]
        /\ \A i \in 1..1 : q[K + i] = <<all>>[i]
    <3>1. halves \in Seq(StatementSet) /\ K \in Nat /\ K = Len(halves)
      BY <1>9, <1>10
    <3>2. <<all>> \in Seq(StatementSet) /\ 1 \in Nat /\ 1 = Len(<<all>>)
      BY <2>1
    <3> HIDE DEF K
    <3> QED BY <1>2, <3>1, <3>2, Concatenates
  <2> QED BY <2>1, <2>2
<1>13. ASSUME NEW k \in 1..K
       PROVE  /\ q[k].calls = {} /\ q[k].reads \subseteq TypeConstants
              /\ q[k].declares \subseteq ProcedureConstants
  BY <1>11, <1>12
<1>14. /\ q[K + 1].calls = {} /\ q[K + 1].declares = {}
       /\ q[K + 1].reads \subseteq UNION {q[i].declares : i \in 1..((K + 1) - 1)}
  <2>1. UNION {q[i].declares : i \in 1..K} = UNION {halves[i].declares : i \in 1..K}
    BY <1>12
  <2>2. q[K + 1] = all /\ (K + 1) - 1 = K
    BY <1>10, <1>12
  <2>3. all.calls = {} /\ all.declares = {}
    BY <1>5
  <2> QED BY <1>11, <2>1, <2>2, <2>3, Zenon
<1>15. \A k \in DOMAIN q : k \in 1..K \/ k = K + 1
  BY <1>10, <1>12
<1> QED BY <1>12, <1>13, <1>14, <1>15

\* The types' statements come first and read the constants of types.  Those after
\* them have what they read above them, and call nothing that is missing.
LEMMA StatementsAre ==
    ASSUME DumpedIr, NEW v, NEW s, s = Statements(ir, v),
           NEW T, T = Len(ir.types)
    PROVE  /\ s \in Seq(StatementSet)
           /\ \A k \in DOMAIN s :
                 /\ k <= T => /\ k \in DOMAIN ir.types
                              /\ s[k] = TypeStatement(ir.types[k], v)
                              /\ s[k].declares = {SchemaOf(ir.types[k].name)}
                 /\ k > T => /\ s[k].calls = {}
                             /\ s[k].declares \subseteq ProcedureConstants
                             /\ s[k].reads \subseteq
                                  UNION {s[i].declares : i \in 1..(k - 1)}
<1> DEFINE types == [i \in DOMAIN ir.types |-> TypeStatement(ir.types[i], v)]
           q == ProcedureStatements(ir.procs)
           K == Len(q)
<1>1. CASE v = "none"
  <2>1. s = <<>>
    BY <1>1 DEF Statements
  <2> QED BY <2>1
<1>2. CASE v # "none"
  <2>1. s = types \o q
    BY <1>2 DEF Statements
  <2>2. T \in Nat /\ DOMAIN ir.types = 1..T
    BY DEF DumpedIr
  <2>3. /\ DOMAIN types = 1..T
        /\ \A k \in 1..T : types[k] = TypeStatement(ir.types[k], v)
    BY <2>2
  <2>4. ASSUME NEW k \in 1..T
        PROVE  /\ types[k] \in StatementSet
               /\ types[k].declares = {SchemaOf(ir.types[k].name)}
    <3>1. types[k] = TypeStatement(ir.types[k], v) /\ k \in DOMAIN ir.types
      BY <2>2, <2>3
    <3> HIDE DEF types
    <3>2. TypeStatement(ir.types[k], v) \in StatementSet
      BY <3>1, TypeStatementIs
    <3>3. TypeStatement(ir.types[k], v).declares = {SchemaOf(ir.types[k].name)}
      BY DEF TypeStatement
    <3> QED BY <3>1, <3>2, <3>3
  <2>5. types \in Seq(StatementSet) /\ Len(types) = T
    <3>1. types = [k \in 1..T |-> types[k]]
      BY <2>2
    <3> HIDE DEF types
    <3> QED BY <2>2, <2>4, <3>1, MakesSequence
  <2>6. /\ q \in Seq(StatementSet)
        /\ \A k \in DOMAIN q :
              /\ q[k].calls = {} /\ q[k].declares \subseteq ProcedureConstants
              /\ q[k].reads \subseteq
                    TypeConstants \cup UNION {q[i].declares : i \in 1..(k - 1)}
    BY ProcedureStatementsAre
  <2> HIDE DEF types, q
  <2>60. K \in Nat /\ DOMAIN q = 1..K
    BY <2>6
  <2>7. /\ s \in Seq(StatementSet)
        /\ DOMAIN s = 1..(T + K)
        /\ \A k \in 1..T : s[k] = types[k]
        /\ \A k \in 1..K : s[T + k] = q[k]
    <3>1. types \in Seq(StatementSet) /\ T \in Nat /\ T = Len(types)
      BY <2>2, <2>5
    <3>2. q \in Seq(StatementSet) /\ K \in Nat /\ K = Len(q)
      BY <2>6, <2>60
    <3> HIDE DEF K
    <3> QED BY <2>1, <3>1, <3>2, Concatenates
  <2> HIDE DEF K
  <2>70. T \in Nat /\ K \in Nat /\ DOMAIN s = 1..(T + K)
    BY <2>2, <2>60, <2>7
  <2>8. TypeConstants \subseteq UNION {s[i].declares : i \in 1..T}
    <3>1. ASSUME NEW i \in DOMAIN ir.types
          PROVE  SchemaOf(ir.types[i].name) \in s[i].declares
      BY <2>2, <2>4, <2>7
    <3> QED BY <2>2, <3>1 DEF TypeConstants, NamesOf
  <2>9. ASSUME NEW k \in DOMAIN s, k <= T
        PROVE  /\ k \in 1..T /\ s[k] = TypeStatement(ir.types[k], v)
               /\ s[k].declares = {SchemaOf(ir.types[k].name)}
    <3>1. k \in 1..T
      BY <2>2, <2>70, <2>9
    <3>2. s[k] = TypeStatement(ir.types[k], v)
      BY <2>3, <2>7, <3>1
    <3> QED BY <2>4, <2>7, <3>1, <3>2
  <2>10. ASSUME NEW k \in DOMAIN s, k > T
         PROVE  /\ s[k].calls = {} /\ s[k].declares \subseteq ProcedureConstants
                /\ s[k].reads \subseteq UNION {s[i].declares : i \in 1..(k - 1)}
    <3>1. PICK j \in 1..K : k = T + j
      <4>1. k - T \in 1..K /\ k = T + (k - T)
        BY <2>70, <2>10
      <4> QED BY <4>1
    <3>2. s[k] = q[j] /\ j \in DOMAIN q
      BY <2>7, <2>60, <3>1
    <3>3. /\ 1..T \subseteq 1..(k - 1)
          /\ \A i \in 1..(j - 1) : T + i \in 1..(k - 1) /\ i \in 1..K
      BY <2>70, <3>1
    <3>4. UNION {q[i].declares : i \in 1..(j - 1)} \subseteq
          UNION {s[i].declares : i \in 1..(k - 1)}
      <4> SUFFICES ASSUME NEW i \in 1..(j - 1)
                   PROVE  q[i].declares \subseteq UNION {s[h].declares : h \in 1..(k - 1)}
        OBVIOUS
      <4>1. s[T + i] = q[i] /\ T + i \in 1..(k - 1)
        BY <2>7, <3>3
      <4> QED BY <4>1
    <3>5. TypeConstants \subseteq UNION {s[i].declares : i \in 1..(k - 1)}
      BY <2>8, <3>3
    <3> QED BY <2>6, <3>2, <3>4, <3>5
  <2> QED BY <2>2, <2>7, <2>9, <2>10
<1> QED BY <1>1, <1>2

-----------------------------------------------------------------------------
(* The commands leave the router as it was dumped.                         *)

\* A step of a command is none of the router.
LEMMA GenIsAsm == [GenNext]_genVars => [AsmNext]_asmVars
<1>1. \A v \in Validators : Generate(v) => UNCHANGED asmVars
  BY DEF Generate
<1>2. \A s \in SubscriptionsAsTools : ListTools(s) => UNCHANGED asmVars
  BY DEF ListTools
<1>3. Import \/ RunStatement \/ ModuleEnds => UNCHANGED asmVars
  BY DEF Import, RunStatement, ModuleEnds
<1>4. StartTool \/ WalkRef \/ FinishTool \/ ManifestEnds => UNCHANGED asmVars
  BY DEF StartTool, WalkRef, FinishTool, ManifestEnds
<1>5. UNCHANGED genVars => UNCHANGED asmVars
  BY DEF genVars
<1> QED BY <1>1, <1>2, <1>3, <1>4, <1>5 DEF GenNext

\* So the router behaves as if there were no commands.
LEMMA GenIsAsmSpec == GenSpec => AsmSpec
<1>1. GenInit => AsmInit
  BY DEF GenInit
<1> QED BY <1>1, GenIsAsm, PTL DEF GenSpec, AsmSpec

\* The router's properties hold whatever commands are run after it.
THEOREM RouterHolds ==
    GenSpec => [](/\ AsmTypeOK /\ IrIsExact /\ OnlyRecursionAborts
                  /\ OnlyReservedNamesPanic /\ ClientMatchesServer
                  /\ EveryRequestPassesEveryLayer)
  BY GenIsAsmSpec, RouterIsSafe, PTL

\* A dump has what the commands rely on.
LEMMA DumpIsComplete ==
    ASSUME AsmTypeOK, CollectInv, IrInv, phase = "dumped"
    PROVE  DumpedIr
<1> DEFINE all == ReachableFrom(SignatureTypes)
<1>1. /\ procedures \in Seq(Descriptors)
      /\ ir.types \in Seq(TypeDefs) /\ ir.procs \in Seq(ProcIrs)
  BY DEF AsmTypeOK
<1>2. IrSoFar /\ ir.proc = Len(procedures) + 1
  BY DEF IrInv, GoalInv, ExportInv, IrSoFar, Exported
<1>3. ASSUME NEW i \in DOMAIN procedures
      PROVE  /\ procedures[i].ir.input \in Nodes /\ procedures[i].ir.output \in Nodes
             /\ RangeOf(procedures[i].ir.errors) \subseteq Nodes
  <2>1. procedures[i] \in Descriptors
    BY <1>1
  <2>2. procedures[i].ir \in ProcIrs
    BY <2>1 DEF Descriptors
  <2>3. procedures[i].ir.errors \in Seq(Nodes)
    BY <2>2 DEF ProcIrs
  <2>4. RangeOf(procedures[i].ir.errors) \subseteq Nodes
    BY <2>3 DEF RangeOf
  <2> QED BY <2>2, <2>4 DEF ProcIrs
<1>4. SignatureTypes \in SUBSET Nodes
  BY <1>3 DEF SignatureTypes
<1>5. SignatureTypes \subseteq all
  BY <1>4, ReachableFromIsClosed
<1>6. ASSUME NEW i \in DOMAIN ir.procs
      PROVE  ir.procs[i].input \in all /\ ir.procs[i].output \in all
  <2>1. ir.procs[i] = procedures[i].ir
    BY <1>2 DEF IrSoFar
  <2>2. i \in DOMAIN procedures
    <3>1. Len(ir.procs) = Len(procedures)
      BY <1>1, <1>2 DEF IrSoFar
    <3> QED BY <1>1, <3>1
  <2>3. procedures[i].ir.input \in SignatureTypes /\ procedures[i].ir.output \in SignatureTypes
    BY <2>2 DEF SignatureTypes
  <2> QED BY <1>5, <2>1, <2>3
<1>7. /\ IrIsExact
      /\ \A k \in DOMAIN ir.types : ir.types[k].of \in all \cap Derived
  BY ExactWhenExported DEF Exported
<1>8. /\ UniqueNames(ir.types)
      /\ \A n \in all \cap Derived : HasName(ir.types, IrName[n])
  BY <1>7 DEF IrIsExact, Exported
<1>9. \A n \in all \cap Derived : IrName[n] \in NamesOf(ir)
  BY <1>8 DEF HasName, NamesOf
<1> HIDE DEF all
<1> QED BY <1>1, <1>4, <1>6, <1>7, <1>8, <1>9 DEF DumpedIr, all

\* A dump ends the process: nothing of the router happens after it.
LEMMA NothingAfterDump == phase = "dumped" => ~AsmNext
  BY DEF AsmNext, Describe, AddLayer, StartExport, Visit, Return, Register,
         ExportType, ExportProcedure, ExportEnds, MountProcedure, MountFallback,
         ApplyLayer, Serve

-----------------------------------------------------------------------------
(* The engine runs the module.                                             *)

\* What OutTypeOK asks of each variable.
StageOK    == stage \in {"none", "refused", "generated", "unreadable", "loading",
                         "loaded", "threw", "listing", "listed"}
Modules    == [validator : Validators \cup {"none"},
               statements : Seq(StatementSet), next : Nat \ {0},
               has : SUBSET SchemaConstants,
               methods : [SchemaConstants -> SUBSET Methods]]
ToolSet    == [name : ProcNames, input : Nodes, defs : SUBSET IrNames]
Manifests  == [subs : SubscriptionsAsTools \cup {FALSE}, proc : Nat \ {0},
               todo : Seq(Nodes), walking : BOOLEAN, named : SUBSET IrNames,
               tools : Seq(ToolSet)]

\* The type invariant, with names for its sets.
LEMMA OutTypeIs == OutTypeOK <=> StageOK /\ module \in Modules /\ manifest \in Manifests
  BY DEF OutTypeOK, StageOK, Modules, Manifests, StatementSet, ToolSet

\* A name has a method just when the schema that defines it does.
LEMMA CarriersAre ==
    ASSUME DumpedIr, NEW method, NEW k \in DOMAIN ir.types,
           NEW gives, gives = TypeStatement(ir.types[k], "zod").gives
    PROVE  ir.types[k].name \in Carriers(ir, method) <=>
               \/ method \in gives.methods
               \/ \E m \in Carriers(ir, method) : SchemaOf(m) \in gives.same
<1> DEFINE Has(S, schema) ==
               method \in schema.methods \/ \E m \in S : SchemaOf(m) \in schema.same
           Gives(j) == TypeStatement(ir.types[j], "zod").gives
           Closes(S) == \A j \in DOMAIN ir.types : Has(S, Gives(j)) => ir.types[j].name \in S
           C == Carriers(ir, method)
<1>1. C = {m \in NamesOf(ir) : \A S \in SUBSET NamesOf(ir) : Closes(S) => m \in S}
  BY DEF Carriers
<1> HIDE DEF C, Gives
<1>2. ASSUME NEW j \in DOMAIN ir.types, Has(C, Gives(j)) PROVE ir.types[j].name \in C
  <2>1. ir.types[j].name \in NamesOf(ir)
    BY DEF NamesOf
  <2>2. ASSUME NEW S \in SUBSET NamesOf(ir), Closes(S) PROVE ir.types[j].name \in S
    <3>1. C \subseteq S
      BY <1>1, <2>2
    <3>2. Has(S, Gives(j))
      BY <1>2, <3>1
    <3> QED BY <2>2, <3>2
  <2> QED BY <1>1, <2>1, <2>2
<1>3. ASSUME ir.types[k].name \in C PROVE Has(C, Gives(k))
  <2> SUFFICES ASSUME ~Has(C, Gives(k)) PROVE FALSE
    OBVIOUS
  <2> DEFINE S == C \ {ir.types[k].name}
  <2>1. ASSUME NEW j \in DOMAIN ir.types, Has(S, Gives(j)) PROVE ir.types[j].name \in S
    <3>1. Has(C, Gives(j))
      BY <2>1
    <3>2. ir.types[j].name \in C
      BY <1>2, <3>1
    <3>3. j # k
      BY <3>1
    <3>4. ir.types[j].name # ir.types[k].name
      BY <3>3 DEF DumpedIr, UniqueNames
    <3> QED BY <3>2, <3>4
  <2>2. S \in SUBSET NamesOf(ir) /\ Closes(S)
    BY <1>1, <2>1
  <2>3. \A m \in C : m \in S
    <3> HIDE DEF S
    <3> QED BY <1>1, <2>2
  <2> QED BY <1>3, <2>3
<1>4. gives = Gives(k)
  BY DEF Gives
<1> QED BY <1>2, <1>3, <1>4 DEF C

\* Once the types above definition k have their methods, its statement runs just
\* when the definition is sound, and gives it the methods that it is to have.
LEMMA SoundRuns ==
    ASSUME DumpedIr, NEW k \in DOMAIN ir.types, NEW v,
           NEW s, s = TypeStatement(ir.types[k], v),
           NEW has, has = DefinedAbove(ir, k),
           NEW methods,
           \A i \in 1..(k - 1) : \A method \in Methods :
               method \in methods[SchemaOf(ir.types[i].name)] <=>
                   ir.types[i].name \in Carriers(ir, method)
    PROVE  /\ IsSound(ir, k, v) <=>
                  /\ s.reads \subseteq has
                  /\ \A c \in s.calls : c.method \in MethodsFor(c.on, methods)
           /\ s.reads \subseteq has =>
                  \A method \in Methods :
                      method \in MethodsFor(s.gives, methods) <=>
                          ir.types[k].name \in Carriers(ir, method)
<1>1. ASSUME NEW on, on.same \subseteq has, NEW method \in Methods
      PROVE  method \in MethodsFor(on, methods) <=>
                 \/ method \in on.methods
                 \/ \E m \in Carriers(ir, method) : SchemaOf(m) \in on.same
  <2>1. method \in MethodsFor(on, methods) <=>
            method \in on.methods \/ \E c \in on.same : method \in methods[c]
    BY DEF MethodsFor
  <2>2. ASSUME NEW c \in on.same, method \in methods[c]
        PROVE  \E m \in Carriers(ir, method) : SchemaOf(m) \in on.same
    <3>1. PICK i \in 1..(k - 1) : c = SchemaOf(ir.types[i].name)
      BY <1>1 DEF DefinedAbove
    <3>2. ir.types[i].name \in Carriers(ir, method)
      BY <2>2, <3>1
    <3> QED BY <3>1, <3>2
  <2>3. ASSUME NEW m \in Carriers(ir, method), SchemaOf(m) \in on.same
        PROVE  \E c \in on.same : method \in methods[c]
    <3>1. PICK i \in 1..(k - 1) : SchemaOf(m) = SchemaOf(ir.types[i].name)
      BY <1>1, <2>3 DEF DefinedAbove
    <3>2. m = ir.types[i].name
      BY <3>1 DEF SchemaOf
    <3>3. method \in methods[SchemaOf(m)]
      BY <3>2
    <3> QED BY <2>3, <3>3
  <2> QED BY <2>1, <2>2, <2>3
<1>2. /\ s.reads = FieldReads(ir.types[k].of)
      /\ s.gives = TypeStatement(ir.types[k], "zod").gives
      /\ s.gives.same \subseteq s.reads
      /\ s.calls = IF v = "zod" THEN ZodCalls(ir.types[k].of) ELSE {}
      /\ \A c \in s.calls : c.on.same \subseteq s.reads
      /\ s \in StatementSet
  BY TypeStatementIs
<1>3. \A c \in s.calls : c.method \in Methods
  <2>1. s.calls \subseteq [on : Schemas, method : Methods]
    BY <1>2 DEF StatementSet
  <2> QED BY <2>1
<1>4. IsSound(ir, k, v) <=>
          /\ s.reads \subseteq has
          /\ \A c \in s.calls :
                \/ c.method \in c.on.methods
                \/ \E m \in Carriers(ir, c.method) : SchemaOf(m) \in c.on.same
  BY <1>2 DEF IsSound
<1>5. ASSUME s.reads \subseteq has, NEW c \in s.calls
      PROVE  c.method \in MethodsFor(c.on, methods) <=>
                 \/ c.method \in c.on.methods
                 \/ \E m \in Carriers(ir, c.method) : SchemaOf(m) \in c.on.same
  <2>1. c.on.same \subseteq has /\ c.method \in Methods
    BY <1>2, <1>3, <1>5
  <2> QED BY <1>1, <2>1
<1>6. ASSUME s.reads \subseteq has, NEW method \in Methods
      PROVE  method \in MethodsFor(s.gives, methods) <=>
                 ir.types[k].name \in Carriers(ir, method)
  <2>1. s.gives.same \subseteq has
    BY <1>2, <1>6
  <2>2. ir.types[k].name \in Carriers(ir, method) <=>
            \/ method \in s.gives.methods
            \/ \E m \in Carriers(ir, method) : SchemaOf(m) \in s.gives.same
    BY <1>2, CarriersAre
  <2> QED BY <1>1, <2>1, <2>2
<1> QED BY <1>4, <1>5, <1>6

\* No two definitions of a dump have one name.
LEMMA NoneConflict == DumpedIr => ~Conflicting(ir)
<1> SUFFICES ASSUME DumpedIr PROVE ~Conflicting(ir)
  OBVIOUS
<1>1. ir.types \in Seq(TypeDefs) /\ UniqueNames(ir.types)
  BY DEF DumpedIr
<1>2. \A i, j \in DOMAIN ir.types : i < j => i # j
  BY <1>1
<1> QED BY <1>1, <1>2 DEF Conflicting, UniqueNames

\* gen refuses no dump, and begins at the first statement of the module.
LEMMA GenerateKeeps ==
    ASSUME GenInv, DumpedIr, NEW v \in Validators, Generate(v)
    PROVE  GenInv'
<1>1. /\ phase = "dumped" /\ stage = "none" /\ UNCHANGED <<phase, ir, manifest>>
      /\ module = NoModule /\ manifest = NoManifest
  BY DEF Generate, GenInv, EngineInv, asmVars
<1>2. ~Conflicting(ir)
  BY NoneConflict
<1>3. /\ stage' = "generated"
      /\ module' = [NoModule EXCEPT !.validator = v, !.statements = Statements(ir, v)]
  BY <1>2 DEF Generate
<1>4. module' = [validator |-> v, statements |-> Statements(ir, v), next |-> 1,
                 has |-> {}, methods |-> [c \in SchemaConstants |-> {}]]
  BY <1>3 DEF NoModule
<1>5. Statements(ir, v) \in Seq(StatementSet)
  BY StatementsAre
<1>6. OutTypeOK'
  <2>1. manifest \in Manifests
    BY OutTypeIs DEF GenInv
  <2>2. module' \in Modules
    BY <1>4, <1>5 DEF Modules
  <2> QED BY <1>1, <1>3, <2>1, <2>2
          DEF OutTypeOK, Modules, Manifests, StatementSet, ToolSet
<1>7. EngineInv'
  <2>1. Len(Statements(ir, v)) \in Nat
    BY <1>5
  <2>2. 1 \in 1..(Len(Statements(ir, v)) + 1) /\ 1..(1 - 1) = {}
    BY <2>1
  <2>3. /\ module'.statements = Statements(ir, v) /\ module'.validator = v
        /\ module'.next = 1 /\ module'.has = {}
    BY <1>4
  <2> QED BY <1>1, <1>3, <2>2, <2>3 DEF EngineInv
<1>8. TodoInv' /\ MethodsInv' /\ TypesDecideTheLoad'
  BY <1>3 DEF TodoInv, MethodsInv, TypesDecideTheLoad
<1>9. ManifestIsClosed'
  BY <1>1 DEF ManifestIsClosed, NoManifest
<1> QED BY <1>6, <1>7, <1>8, <1>9 DEF GenInv

\* The engine reads the text, and nothing has run.
LEMMA ImportKeeps ==
    ASSUME GenInv, DumpedIr, Import
    PROVE  GenInv'
<1>1. /\ phase = "dumped" /\ stage = "generated"
      /\ UNCHANGED <<phase, ir, module, manifest>>
      /\ stage' = IF IsTypeScript(ir, module.validator) THEN "loading" ELSE "unreadable"
  BY DEF Import, GenInv, EngineInv, asmVars
<1>2. stage' \in {"loading", "unreadable"} /\ module.next = 1
  BY <1>1 DEF GenInv, EngineInv
<1>3. OutTypeOK'
  BY <1>1, <1>2 DEF GenInv, OutTypeOK
<1>4. EngineInv'
  BY <1>1, <1>2 DEF GenInv, EngineInv
<1>5. MethodsInv'
  <2>1. \A k \in DOMAIN ir.types : ~(k < module.next)
    BY <1>2 DEF DumpedIr
  <2> QED BY <1>1, <2>1 DEF MethodsInv
<1>6. TodoInv' /\ TypesDecideTheLoad'
  BY <1>2 DEF TodoInv, TypesDecideTheLoad
<1>7. ManifestIsClosed'
  BY <1>1 DEF GenInv, ManifestIsClosed, DefinitionOf
<1> QED BY <1>3, <1>4, <1>5, <1>6, <1>7 DEF GenInv

\* A module has a statement for each type, unless it has none at all.
LEMMA TypesAreRun ==
    ASSUME DumpedIr, NEW v, v # "none", NEW s, s = Statements(ir, v)
    PROVE  Len(s) \in Nat /\ Len(ir.types) <= Len(s)
<1> DEFINE types == [i \in DOMAIN ir.types |-> TypeStatement(ir.types[i], v)]
           q == ProcedureStatements(ir.procs)
<1>1. s = types \o q
  BY DEF Statements
<1>2. types \in Seq(StatementSet) /\ Len(types) = Len(ir.types)
  <2> DEFINE T == Len(ir.types)
  <2>1. T \in Nat /\ DOMAIN ir.types = 1..T
    BY DEF DumpedIr
  <2>2. \A i \in 1..T : types[i] \in StatementSet
    BY <2>1, TypeStatementIs
  <2>3. types = [i \in 1..T |-> types[i]]
    BY <2>1
  <2> HIDE DEF types, T
  <2>4. types \in Seq(StatementSet) /\ Len(types) = T
    BY <2>1, <2>2, <2>3, MakesSequence
  <2> QED BY <2>4 DEF T
<1>3. q \in Seq(StatementSet)
  BY ProcedureStatementsAre
<1> HIDE DEF types, q
<1>4. Len(s) = Len(types) + Len(q) /\ Len(types) \in Nat /\ Len(q) \in Nat
  BY <1>1, <1>2, <1>3
<1> QED BY <1>2, <1>4

\* The engine stops only at a type's statement, and only over a type that is not
\* sound.
LEMMA RunStatementKeeps ==
    ASSUME GenInv, DumpedIr, RunStatement
    PROVE  GenInv'
<1> DEFINE s == module.statements
           k == module.next
           v == module.validator
           T == Len(ir.types)
           runs == /\ s[k].reads \subseteq module.has
                   /\ \A c \in s[k].calls : c.method \in MethodsFor(c.on, module.methods)
           methods == [c \in SchemaConstants |->
                         IF c \in s[k].declares THEN MethodsFor(s[k].gives, module.methods)
                         ELSE module.methods[c]]
<1>1. /\ phase = "dumped" /\ stage = "loading" /\ UNCHANGED <<phase, ir, manifest>>
      /\ k <= Len(s)
  BY DEF RunStatement, GenInv, EngineInv, asmVars
<1>manifest. ManifestIsClosed'
  BY <1>1 DEF GenInv, ManifestIsClosed, DefinitionOf
<1>2. module \in Modules /\ manifest \in Manifests
  BY OutTypeIs DEF GenInv
<1>3. /\ s = Statements(ir, v)
      /\ k \in 1..(Len(s) + 1)
      /\ module.has = UNION {s[i].declares : i \in 1..(k - 1)}
  BY <1>1 DEF GenInv, EngineInv
<1>4. s \in Seq(StatementSet) /\ k \in DOMAIN s /\ k \in Nat /\ k > 0 /\ s # <<>>
  BY <1>1, <1>2, <1>3 DEF Modules
<1>5. v # "none" /\ s[k] \in StatementSet /\ T \in Nat /\ DOMAIN ir.types = 1..T
  <2>1. v # "none"
    BY <1>3, <1>4 DEF Statements
  <2> QED BY <1>4, <2>1 DEF DumpedIr
<1>6. /\ k <= T => /\ k \in DOMAIN ir.types
                   /\ s[k] = TypeStatement(ir.types[k], v)
                   /\ s[k].declares = {SchemaOf(ir.types[k].name)}
                   /\ module.has = DefinedAbove(ir, k)
      /\ k > T => /\ s[k].declares \subseteq ProcedureConstants /\ runs
  <2> HIDE DEF s, k, T, v
  <2>2. s = Statements(ir, v) /\ T = Len(ir.types) /\ k \in DOMAIN s
    BY <1>3, <1>4 DEF T
  <2>3. \A i \in DOMAIN s :
           /\ i <= T => /\ i \in DOMAIN ir.types
                        /\ s[i] = TypeStatement(ir.types[i], v)
                        /\ s[i].declares = {SchemaOf(ir.types[i].name)}
           /\ i > T => /\ s[i].calls = {} /\ s[i].declares \subseteq ProcedureConstants
                       /\ s[i].reads \subseteq UNION {s[h].declares : h \in 1..(i - 1)}
    BY <2>2, StatementsAre
  <2>4. ASSUME k <= T
        PROVE  module.has = DefinedAbove(ir, k)
    <3>1. \A i \in 1..(k - 1) : i \in DOMAIN s /\ i <= T
      BY <1>4, <1>5, <2>4
    <3>2. \A i \in 1..(k - 1) : s[i].declares = {SchemaOf(ir.types[i].name)}
      BY <2>3, <3>1
    <3> QED BY <1>3, <3>2 DEF DefinedAbove
  <2> QED BY <1>3, <2>2, <2>3, <2>4
<1>7. \A i \in DOMAIN ir.types :
         i < k => /\ IsSound(ir, i, v)
                  /\ \A method \in Methods :
                        method \in module.methods[SchemaOf(ir.types[i].name)] <=>
                            ir.types[i].name \in Carriers(ir, method)
  BY <1>1, <1>5 DEF GenInv, MethodsInv
<1>8. ASSUME k <= T
      PROVE  /\ IsSound(ir, k, v) <=> runs
             /\ runs => \A method \in Methods :
                          method \in MethodsFor(s[k].gives, module.methods) <=>
                              ir.types[k].name \in Carriers(ir, method)
  <2>1. \A i \in 1..(k - 1) : i \in DOMAIN ir.types /\ i < k
    BY <1>4, <1>5, <1>8
  <2>2. /\ k \in DOMAIN ir.types /\ s[k] = TypeStatement(ir.types[k], v)
        /\ module.has = DefinedAbove(ir, k)
        /\ \A i \in 1..(k - 1) : \A method \in Methods :
              method \in module.methods[SchemaOf(ir.types[i].name)] <=>
                  ir.types[i].name \in Carriers(ir, method)
    BY <1>6, <1>7, <1>8, <2>1
  <2> HIDE DEF s, k, v
  <2>3. /\ IsSound(ir, k, v) <=>
               /\ s[k].reads \subseteq module.has
               /\ \A c \in s[k].calls : c.method \in MethodsFor(c.on, module.methods)
        /\ s[k].reads \subseteq module.has =>
               \A method \in Methods :
                   method \in MethodsFor(s[k].gives, module.methods) <=>
                       ir.types[k].name \in Carriers(ir, method)
    <3> HIDE DEF runs, methods, T
    <3>1. ASSUME NEW st, st = s[k], NEW has, has = module.has,
                 NEW known, known = module.methods
          PROVE  /\ IsSound(ir, k, v) <=>
                        /\ st.reads \subseteq has
                        /\ \A c \in st.calls : c.method \in MethodsFor(c.on, known)
                 /\ st.reads \subseteq has =>
                        \A method \in Methods :
                            method \in MethodsFor(st.gives, known) <=>
                                ir.types[k].name \in Carriers(ir, method)
      <4>1. /\ st = TypeStatement(ir.types[k], v) /\ has = DefinedAbove(ir, k)
            /\ k \in DOMAIN ir.types
            /\ \A i \in 1..(k - 1) : \A method \in Methods :
                  method \in known[SchemaOf(ir.types[i].name)] <=>
                      ir.types[i].name \in Carriers(ir, method)
        BY <2>2, <3>1
      <4>2. \A sv, h, m :
               /\ sv = TypeStatement(ir.types[k], v) /\ h = DefinedAbove(ir, k)
               /\ \A i \in 1..(k - 1) : \A method \in Methods :
                     method \in m[SchemaOf(ir.types[i].name)] <=>
                         ir.types[i].name \in Carriers(ir, method)
               => /\ IsSound(ir, k, v) <=>
                        /\ sv.reads \subseteq h
                        /\ \A c \in sv.calls : c.method \in MethodsFor(c.on, m)
                  /\ sv.reads \subseteq h =>
                        \A method \in Methods :
                            method \in MethodsFor(sv.gives, m) <=>
                                ir.types[k].name \in Carriers(ir, method)
        BY <4>1, SoundRuns
      <4> QED BY <4>1, <4>2
    <3> QED BY <3>1
  <2> QED BY <2>3
<1>9. \/ /\ runs
         /\ module' = [module EXCEPT !.next = k + 1, !.has = module.has \cup s[k].declares,
                                     !.methods = methods]
         /\ stage' = stage
      \/ ~runs /\ stage' = "threw" /\ module' = module
  BY DEF RunStatement
<1>10. CASE /\ runs
            /\ module' = [module EXCEPT !.next = k + 1,
                                        !.has = module.has \cup s[k].declares,
                                        !.methods = methods]
            /\ stage' = stage
  <2>1. methods \in [SchemaConstants -> SUBSET Methods]
    <3>1. /\ s[k].gives \in Schemas
          /\ module.methods \in [SchemaConstants -> SUBSET Methods]
      BY <1>2, <1>5 DEF StatementSet, Modules
    <3>2. s[k].gives.methods \subseteq Methods /\ s[k].gives.same \subseteq SchemaConstants
      BY <3>1 DEF Schemas
    <3>3. MethodsFor(s[k].gives, module.methods) \in SUBSET Methods
      BY <3>1, <3>2 DEF MethodsFor
    <3> QED BY <3>1, <3>3
  <2> HIDE DEF methods
  <2>2. /\ module'.statements = s /\ module'.next = k + 1 /\ module'.validator = v
        /\ module'.has = module.has \cup s[k].declares
        /\ module'.methods = methods /\ module' \in Modules
    <3>1. s[k].declares \in SUBSET SchemaConstants
      BY <1>5 DEF StatementSet
    <3>2. k + 1 \in Nat \ {0}
      BY <1>4
    <3> QED BY <1>2, <1>10, <2>1, <3>1, <3>2 DEF Modules
  <2>3. OutTypeOK'
    BY <1>1, <1>2, <1>10, <2>2
    DEF OutTypeOK, Modules, Manifests, StatementSet, ToolSet
  <2> HIDE DEF s, k, v
  <2>4. EngineInv'
    <3>1. 1..((k + 1) - 1) = 1..(k - 1) \cup {k}
      BY <1>4
    <3>2. module'.has = UNION {s[i].declares : i \in 1..((k + 1) - 1)}
      BY <1>3, <2>2, <3>1
    <3>3. Len(s) \in Nat
      BY <1>4
    <3>4. k + 1 \in 1..(Len(s) + 1)
      BY <1>1, <1>4, <3>3 DEF s, k
    <3> QED BY <1>1, <1>3, <1>10, <2>2, <3>2, <3>4 DEF EngineInv
  <2>5. ASSUME NEW i \in DOMAIN ir.types, i < k + 1
        PROVE  /\ IsSound(ir, i, v)
               /\ \A method \in Methods :
                     method \in methods[SchemaOf(ir.types[i].name)] <=>
                         ir.types[i].name \in Carriers(ir, method)
    <3>1. SchemaOf(ir.types[i].name) \in SchemaConstants
      BY TypeConstantsAre DEF TypeConstants, NamesOf
    <3>2. CASE i = k
      <4>1. k <= T /\ s[k].declares = {SchemaOf(ir.types[i].name)}
        BY <1>5, <1>6, <3>2
      <4>2. methods[SchemaOf(ir.types[i].name)] = MethodsFor(s[k].gives, module.methods)
        BY <3>1, <4>1 DEF methods
      <4> QED BY <1>8, <1>10, <3>2, <4>1, <4>2
    <3>3. CASE i < k
      <4>1. SchemaOf(ir.types[i].name) \notin s[k].declares
        <5>1. CASE k <= T
          <6>1. ir.types[i].name # ir.types[k].name
            BY <1>4, <1>6, <3>3, <5>1 DEF DumpedIr, UniqueNames
          <6> QED BY <1>6, <5>1, <6>1 DEF SchemaOf
        <5>2. CASE k > T
          <6>1. SchemaOf(ir.types[i].name) \notin ProcedureConstants
            BY DEF SchemaOf, ProcedureConstants, InputSchema, OutputSchema
          <6> QED BY <1>6, <5>2, <6>1
        <5> QED BY <1>4, <1>5, <5>1, <5>2
      <4>2. methods[SchemaOf(ir.types[i].name)] =
                module.methods[SchemaOf(ir.types[i].name)]
        BY <3>1, <4>1 DEF methods
      <4> QED BY <1>7, <3>3, <4>2
    <3> QED BY <1>4, <1>5, <2>5, <3>2, <3>3
  <2>6. MethodsInv'
    BY <1>1, <2>2, <2>5 DEF MethodsInv
  <2>7. TodoInv' /\ TypesDecideTheLoad'
    BY <1>1, <1>10 DEF TodoInv, TypesDecideTheLoad
  <2> QED BY <1>manifest, <2>3, <2>4, <2>6, <2>7 DEF GenInv
<1>11. CASE ~runs /\ stage' = "threw" /\ module' = module
  <2>1. OutTypeOK'
    BY <1>1, <1>11 DEF GenInv, OutTypeOK
  <2>2. EngineInv'
    BY <1>1, <1>11 DEF GenInv, EngineInv
  <2>3. MethodsInv'
    BY <1>1, <1>11 DEF GenInv, MethodsInv
  <2>4. TypesDecideTheLoad'
    <3>1. k <= T /\ k \in DOMAIN ir.types
      BY <1>4, <1>5, <1>6, <1>11
    <3>2. ~IsSound(ir, k, v)
      BY <1>8, <1>11, <3>1
    <3>3. \A i \in 1..(k - 1) : IsSound(ir, i, v)
      <4>1. \A i \in 1..(k - 1) : i \in DOMAIN ir.types /\ i < k
        BY <1>4, <1>5, <3>1
      <4> QED BY <1>7, <4>1
    <3>4. s[k].reads \subseteq {SchemaOf(m) : m \in NamesOf(ir)}
      <4> HIDE DEF s, k, v
      <4>1. PICK t : t = TypeStatement(ir.types[k], v)
        OBVIOUS
      <4>2. t.reads \subseteq TypeConstants
        BY <3>1, <4>1, TypeStatementIs
      <4> QED BY <1>6, <3>1, <4>1, <4>2 DEF TypeConstants
    <3> QED BY <1>1, <1>11, <3>1, <3>2, <3>3, <3>4 DEF TypesDecideTheLoad
  <2>5. TodoInv'
    BY <1>11 DEF TodoInv
  <2> QED BY <1>manifest, <2>1, <2>2, <2>3, <2>4, <2>5 DEF GenInv
<1> QED BY <1>9, <1>10, <1>11

\* After the last statement the module is loaded, and all of it was sound.
LEMMA ModuleEndsKeeps ==
    ASSUME GenInv, DumpedIr, ModuleEnds
    PROVE  GenInv'
<1>1. /\ phase = "dumped" /\ stage = "loading" /\ stage' = "loaded"
      /\ UNCHANGED <<phase, ir, module, manifest>>
      /\ module.next > Len(module.statements)
  BY DEF ModuleEnds, GenInv, EngineInv, asmVars
<1>2. OutTypeOK'
  BY <1>1 DEF GenInv, OutTypeOK
<1>3. EngineInv'
  BY <1>1 DEF GenInv, EngineInv
<1>4. MethodsInv'
  BY <1>1 DEF GenInv, MethodsInv
<1>5. TypesDecideTheLoad'
  <2>1. ASSUME module.validator # "none", NEW k \in DOMAIN ir.types
        PROVE  IsSound(ir, k, module.validator)
    <3>1. module.statements = Statements(ir, module.validator)
      BY <1>1 DEF GenInv, EngineInv
    <3>2. k < module.next
      <4> DEFINE T == Len(ir.types)
                 s == module.statements
      <4>1. k \in Nat /\ T \in Nat /\ k <= T
        BY DEF DumpedIr
      <4>2. Len(s) \in Nat /\ T <= Len(s)
        BY <2>1, <3>1, TypesAreRun
      <4>3. module.next \in Nat /\ module.next > Len(s)
        BY <1>1, OutTypeIs DEF GenInv, Modules
      <4> HIDE DEF T, s
      <4> QED BY <4>1, <4>2, <4>3
    <3> QED BY <1>1, <2>1, <3>2 DEF GenInv, MethodsInv
  <2> QED BY <1>1, <2>1 DEF TypesDecideTheLoad
<1>6. TodoInv'
  BY <1>1 DEF TodoInv
<1>7. ManifestIsClosed'
  BY <1>1 DEF GenInv, ManifestIsClosed, DefinitionOf
<1> QED BY <1>2, <1>3, <1>4, <1>5, <1>6, <1>7 DEF GenInv

-----------------------------------------------------------------------------
(* The tools of the manifest.                                              *)

\* The definition of a name of the IR has reachable types.
LEMMA DefinitionIs ==
    ASSUME DumpedIr, NEW m \in NamesOf(ir)
    PROVE  /\ DefinitionOf(m) \in Seq(Nodes)
           /\ RangeOf(DefinitionOf(m)) \subseteq ReachableFrom(SignatureTypes)
<1> DEFINE with == {i \in DOMAIN ir.types : ir.types[i].name = m}
           c == CHOOSE i \in with : TRUE
<1>1. with # {}
  BY DEF NamesOf
<1>2. c \in with
  BY <1>1
<1>3. DefinitionOf(m) = FieldTypes(ir.types[c].of)
  BY <1>1 DEF DefinitionOf
<1>4. c \in DOMAIN ir.types
  BY <1>2
<1> HIDE DEF c, with
<1>5. ir.types[c].of \in ReachableFrom(SignatureTypes) /\ SignatureTypes \in SUBSET Nodes
  BY <1>4 DEF DumpedIr
<1>6. ir.types[c].of \in Derived
  <2>1. ir.types[c] \in TypeDefs
    BY <1>4 DEF DumpedIr
  <2> QED BY <2>1 DEF TypeDefs
<1>7. Children(ir.types[c].of) = DefinitionOf(m)
  BY <1>3, <1>6 DEF Children
<1>8. Children(ir.types[c].of) \in Seq(Nodes)
  BY <1>6, AsmAssumption DEF Derived
<1> QED BY <1>5, <1>7, <1>8, ReachableFromIsClosed

\* A concatenation has the types of both.
LEMMA RangeOfBoth ==
    ASSUME NEW a \in Seq(Nodes), NEW b \in Seq(Nodes)
    PROVE  a \o b \in Seq(Nodes) /\ RangeOf(a \o b) = RangeOf(a) \cup RangeOf(b)
<1>1. a \o b \in Seq(Nodes)
  OBVIOUS
<1>2. \A i \in DOMAIN (a \o b) :
         \/ i \in DOMAIN a /\ (a \o b)[i] = a[i]
         \/ (i - Len(a)) \in DOMAIN b /\ (a \o b)[i] = b[i - Len(a)]
  OBVIOUS
<1>3. \A i \in DOMAIN a : i \in DOMAIN (a \o b) /\ (a \o b)[i] = a[i]
  OBVIOUS
<1>4. \A i \in DOMAIN b : Len(a) + i \in DOMAIN (a \o b) /\ (a \o b)[Len(a) + i] = b[i]
  OBVIOUS
<1>5. RangeOf(a \o b) \subseteq RangeOf(a) \cup RangeOf(b)
  BY <1>2 DEF RangeOf
<1>6. RangeOf(a) \subseteq RangeOf(a \o b)
  BY <1>3 DEF RangeOf
<1>7. RangeOf(b) \subseteq RangeOf(a \o b)
  BY <1>4 DEF RangeOf
<1> QED BY <1>1, <1>5, <1>6, <1>7

\* mcp begins with the first procedure and no tool.
LEMMA ListToolsKeeps ==
    ASSUME GenInv, NEW subs \in SubscriptionsAsTools, ListTools(subs)
    PROVE  GenInv'
<1>1. /\ phase = "dumped" /\ stage = "none" /\ stage' = "listing"
      /\ UNCHANGED <<phase, ir, module>>
      /\ manifest' = [NoManifest EXCEPT !.subs = subs]
  BY DEF ListTools, GenInv, EngineInv, asmVars
<1>2. manifest' = [subs |-> subs, proc |-> 1, todo |-> <<>>, walking |-> FALSE,
                   named |-> {}, tools |-> <<>>]
  BY <1>1 DEF NoManifest
<1>3. OutTypeOK'
  <2>1. manifest' \in Manifests
    <3>1. <<>> \in Seq(Nodes) /\ <<>> \in Seq(ToolSet) /\ 1 \in Nat \ {0}
      OBVIOUS
    <3> QED BY <1>2, <3>1 DEF Manifests
  <2>2. module \in Modules
    BY OutTypeIs DEF GenInv
  <2> QED BY <1>1, <2>1, <2>2 DEF OutTypeOK, Modules, Manifests, StatementSet, ToolSet
<1>4. EngineInv'
  BY <1>1 DEF EngineInv
<1>5. TodoInv' /\ MethodsInv' /\ TypesDecideTheLoad'
  BY <1>1, <1>2 DEF TodoInv, MethodsInv, TypesDecideTheLoad
<1>6. ManifestIsClosed'
  BY <1>2 DEF ManifestIsClosed
<1> QED BY <1>3, <1>4, <1>5, <1>6 DEF GenInv

\* While tools are listed only the manifest changes.
LEMMA ListingKeeps ==
    ASSUME GenInv, stage = "listing", UNCHANGED <<asmVars, module>>,
           stage' \in {"listing", "listed"}, manifest' \in Manifests,
           TodoInv', ManifestIsClosed'
    PROVE  GenInv'
<1>1. phase = "dumped" /\ UNCHANGED phase
  BY DEF GenInv, EngineInv, asmVars
<1>2. module \in Modules
  BY OutTypeIs DEF GenInv
<1>3. OutTypeOK'
  BY <1>2 DEF OutTypeOK, Modules, Manifests, StatementSet, ToolSet
<1>4. EngineInv' /\ MethodsInv' /\ TypesDecideTheLoad'
  BY <1>1 DEF EngineInv, MethodsInv, TypesDecideTheLoad
<1> QED BY <1>3, <1>4 DEF GenInv

\* A tool's walk begins at its input.
LEMMA StartToolKeeps ==
    ASSUME GenInv, DumpedIr, StartTool
    PROVE  GenInv'
<1> DEFINE p == ir.procs[manifest.proc]
<1>1. /\ stage = "listing" /\ stage' = stage /\ ~manifest.walking
      /\ UNCHANGED <<asmVars, module>> /\ UNCHANGED <<ir, procedures>>
      /\ manifest.proc <= Len(ir.procs)
      /\ \/ manifest' = [manifest EXCEPT !.proc = manifest.proc + 1]
         \/ manifest' = [manifest EXCEPT !.walking = TRUE, !.todo = <<p.input>>,
                                         !.named = {}]
  BY DEF StartTool, asmVars
<1>2. manifest \in Manifests /\ manifest.proc \in Nat \ {0}
  BY OutTypeIs DEF GenInv, Manifests
<1>3. manifest.proc \in DOMAIN ir.procs
  <2>1. ir.procs \in Seq(ProcIrs)
    BY DEF DumpedIr
  <2> QED BY <1>1, <1>2, <2>1
<1>4. p.input \in ReachableFrom(SignatureTypes) /\ p.input \in Nodes
  BY <1>3, ReachableFromIsClosed DEF DumpedIr
<1>5. ManifestIsClosed'
  <2>1. manifest'.tools = manifest.tools
    BY <1>1, <1>2 DEF Manifests
  <2>2. UNCHANGED ir /\ ManifestIsClosed
    BY <1>1 DEF GenInv
  <2> QED BY <2>1, <2>2 DEF ManifestIsClosed, DefinitionOf
<1> HIDE DEF p
<1>6. CASE manifest' = [manifest EXCEPT !.proc = manifest.proc + 1]
  <2>1. manifest' \in Manifests
    <3>1. manifest.proc + 1 \in Nat \ {0}
      BY <1>2
    <3> QED BY <1>2, <1>6, <3>1 DEF Manifests
  <2>2. ~manifest'.walking
    BY <1>1, <1>2, <1>6 DEF Manifests
  <2> QED BY <1>1, <1>5, <2>1, <2>2, ListingKeeps DEF TodoInv
<1>7. CASE manifest' = [manifest EXCEPT !.walking = TRUE, !.todo = <<p.input>>,
                                        !.named = {}]
  <2>1. <<p.input>> \in Seq(Nodes) /\ RangeOf(<<p.input>>) = {p.input}
    BY <1>4 DEF RangeOf
  <2>2. /\ manifest' \in Manifests
        /\ manifest'.proc = manifest.proc /\ manifest'.todo = <<p.input>>
        /\ manifest'.named = {}
    BY <1>2, <1>7, <2>1 DEF Manifests
  <2>3. NamesAt(<<p.input>>) = NamesIn(p.input)
    BY <2>1 DEF NamesAt
  <2>4. SignatureTypes' = SignatureTypes
    BY <1>1 DEF SignatureTypes
  <2>5. TodoInv'
    BY <1>1, <1>3, <1>4, <2>1, <2>2, <2>3, <2>4 DEF TodoInv, p
  <2> QED BY <1>1, <1>5, <2>2, <2>5, ListingKeeps
<1> QED BY <1>1, <1>6, <1>7 DEF p

\* After the last procedure the manifest is complete.
LEMMA ManifestEndsKeeps ==
    ASSUME GenInv, ManifestEnds
    PROVE  GenInv'
<1>1. /\ stage = "listing" /\ stage' = "listed"
      /\ UNCHANGED <<asmVars, module, manifest>> /\ UNCHANGED ir
  BY DEF ManifestEnds, asmVars
<1>2. manifest' \in Manifests
  BY <1>1, OutTypeIs DEF GenInv
<1>3. TodoInv' /\ ManifestIsClosed'
  BY <1>1 DEF GenInv, TodoInv, ManifestIsClosed, DefinitionOf
<1> QED BY <1>1, <1>2, <1>3, ListingKeeps

\* What is named by the types on the stack is found or goes on the stack: the
\* type at its head names itself, or its parts name what it does.
LEMMA WalkRefKeeps ==
    ASSUME GenInv, DumpedIr, WalkRef
    PROVE  GenInv'
<1> DEFINE n == Head(manifest.todo)
           rest == Tail(manifest.todo)
           named == manifest.named
           reached == ReachableFrom(SignatureTypes)
           input == ir.procs[manifest.proc].input
<1>1. /\ stage = "listing" /\ stage' = stage /\ manifest.walking
      /\ UNCHANGED <<asmVars, module>> /\ UNCHANGED ir /\ UNCHANGED procedures
      /\ manifest.todo # <<>>
  BY DEF WalkRef, asmVars
<1>2. \/ n \notin Derived
         /\ manifest' = [manifest EXCEPT !.todo = Children(n) \o rest]
      \/ n \in Derived /\ IrName[n] \in named
         /\ manifest' = [manifest EXCEPT !.todo = rest]
      \/ n \in Derived /\ IrName[n] \notin named
         /\ manifest' = [manifest EXCEPT !.todo = DefinitionOf(IrName[n]) \o rest,
                                         !.named = named \cup {IrName[n]}]
  BY DEF WalkRef
<1>3. manifest \in Manifests /\ manifest.todo \in Seq(Nodes) /\ named \in SUBSET IrNames
  BY OutTypeIs DEF GenInv, Manifests
<1>4. /\ n \in Nodes /\ rest \in Seq(Nodes)
      /\ RangeOf(manifest.todo) = {n} \cup RangeOf(rest)
  BY <1>1, <1>3, RangeOfTail
<1>5. /\ manifest.proc \in DOMAIN ir.procs
      /\ RangeOf(manifest.todo) \subseteq reached /\ named \subseteq NamesOf(ir)
      /\ NamesIn(input) \subseteq named \cup NamesAt(manifest.todo)
      /\ \A d \in named :
            NamesAt(DefinitionOf(d)) \subseteq named \cup NamesAt(manifest.todo)
  BY <1>1 DEF GenInv, TodoInv
<1>6. /\ n \in reached /\ RangeOf(rest) \subseteq reached
      /\ NamesAt(manifest.todo) = NamesIn(n) \cup NamesAt(rest)
  BY <1>4, <1>5 DEF NamesAt
<1>7. /\ n \in Derived => NamesIn(n) = {IrName[n]}
      /\ n \notin Derived => NamesIn(n) = NamesAt(Children(n))
  BY <1>4, NamesInIs
<1>8. SignatureTypes' = SignatureTypes
  BY <1>1 DEF SignatureTypes
<1> HIDE DEF n, rest, named, reached, input
\* A step that finds more, and has the rest still to be found.
<1>9. ASSUME NEW todo \in Seq(Nodes), NEW more \in SUBSET IrNames,
             manifest' \in Manifests, manifest'.todo = todo, manifest'.named = more,
             manifest'.proc = manifest.proc, manifest'.tools = manifest.tools,
             RangeOf(todo) \subseteq reached, more \subseteq NamesOf(ir),
             named \subseteq more,
             named \cup NamesAt(manifest.todo) \subseteq more \cup NamesAt(todo),
             \A d \in more : d \in named \/
                 NamesAt(DefinitionOf(d)) \subseteq NamesAt(todo)
      PROVE  GenInv'
  <2>1. ManifestIsClosed'
    <3>1. UNCHANGED ir /\ ManifestIsClosed
      BY <1>1 DEF GenInv
    <3>2. manifest'.tools = manifest.tools
      BY <1>9
    <3> QED BY <3>1, <3>2 DEF ManifestIsClosed, DefinitionOf
  <2>2. /\ NamesIn(input) \subseteq more \cup NamesAt(todo)
        /\ \A d \in more : NamesAt(DefinitionOf(d)) \subseteq more \cup NamesAt(todo)
    BY <1>5, <1>9
  <2>3. TodoInv'
    <3>1. UNCHANGED ir
      BY <1>1
    <3>2. \A d : DefinitionOf(d)' = DefinitionOf(d)
      BY <3>1 DEF DefinitionOf
    <3> QED BY <1>5, <1>8, <1>9, <2>2, <3>1, <3>2 DEF TodoInv, NamesOf, reached, input
  <2> QED BY <1>1, <1>9, <2>1, <2>3, ListingKeeps
<1>10. CASE n \notin Derived /\ manifest' = [manifest EXCEPT !.todo = Children(n) \o rest]
  <2>1. Children(n) \in Seq(Nodes) /\ RangeOf(Children(n)) \subseteq reached
    BY <1>4, <1>6, AsmAssumption, ReachableFromIsClosed DEF reached, DumpedIr
  <2>2. /\ Children(n) \o rest \in Seq(Nodes)
        /\ RangeOf(Children(n) \o rest) = RangeOf(Children(n)) \cup RangeOf(rest)
    BY <1>4, <2>1, RangeOfBoth
  <2> DEFINE todo == Children(n) \o rest
  <2> HIDE DEF todo
  <2>3. todo \in Seq(Nodes) /\ RangeOf(todo) = RangeOf(Children(n)) \cup RangeOf(rest)
    BY <2>2 DEF todo
  <2>4. NamesAt(todo) = NamesIn(n) \cup NamesAt(rest)
    BY <1>7, <1>10, <2>3 DEF NamesAt
  <2>5. /\ manifest' \in Manifests /\ manifest'.todo = todo
        /\ manifest'.named = named /\ manifest'.proc = manifest.proc
        /\ manifest'.tools = manifest.tools
    BY <1>3, <1>10, <2>3 DEF Manifests, todo, named
  <2>6. RangeOf(todo) \subseteq reached
    BY <1>6, <2>1, <2>3
  <2> QED BY <1>3, <1>5, <1>6, <1>9, <2>3, <2>4, <2>5, <2>6
<1>11. CASE n \in Derived /\ IrName[n] \in named
            /\ manifest' = [manifest EXCEPT !.todo = rest]
  <2>1. /\ manifest' \in Manifests /\ manifest'.todo = rest
        /\ manifest'.named = named /\ manifest'.proc = manifest.proc
        /\ manifest'.tools = manifest.tools
    BY <1>3, <1>4, <1>11 DEF Manifests, named
  <2>2. named \cup NamesAt(manifest.todo) \subseteq named \cup NamesAt(rest)
    BY <1>6, <1>7, <1>11
  <2> QED BY <1>3, <1>4, <1>5, <1>6, <1>9, <2>1, <2>2
<1>12. CASE n \in Derived /\ IrName[n] \notin named
            /\ manifest' = [manifest EXCEPT !.todo = DefinitionOf(IrName[n]) \o rest,
                                            !.named = named \cup {IrName[n]}]
  <2> DEFINE m == IrName[n]
             todo == DefinitionOf(m) \o rest
             more == named \cup {m}
  <2>1. m \in NamesOf(ir) /\ m \in IrNames
    BY <1>6, <1>12 DEF DumpedIr, IrNames, reached
  <2> HIDE DEF m
  <2>2. /\ DefinitionOf(m) \in Seq(Nodes)
        /\ RangeOf(DefinitionOf(m)) \subseteq reached
    BY <2>1, DefinitionIs DEF reached
  <2>3. /\ todo \in Seq(Nodes)
        /\ RangeOf(todo) = RangeOf(DefinitionOf(m)) \cup RangeOf(rest)
    BY <1>4, <2>2, RangeOfBoth
  <2> HIDE DEF todo, more
  <2>4. NamesAt(todo) = NamesAt(DefinitionOf(m)) \cup NamesAt(rest)
    BY <2>3 DEF NamesAt
  <2>5. more \in SUBSET IrNames /\ more \subseteq NamesOf(ir) /\ named \subseteq more
    BY <1>3, <1>5, <2>1 DEF more
  <2>6. /\ manifest' \in Manifests /\ manifest'.todo = todo
        /\ manifest'.named = more /\ manifest'.proc = manifest.proc
        /\ manifest'.tools = manifest.tools
    BY <1>3, <1>12, <2>3, <2>5 DEF Manifests, todo, more, m
  <2>7. named \cup NamesAt(manifest.todo) \subseteq more \cup NamesAt(todo)
    BY <1>6, <1>7, <1>12, <2>4 DEF more, m
  <2>8. \A d \in more : d \in named \/ NamesAt(DefinitionOf(d)) \subseteq NamesAt(todo)
    BY <2>4 DEF more
  <2>9. RangeOf(todo) \subseteq reached
    BY <1>6, <2>2, <2>3
  <2> QED BY <1>9, <2>3, <2>5, <2>6, <2>7, <2>8, <2>9
<1> QED BY <1>2, <1>10, <1>11, <1>12

\* A tool whose walk is over has all its names defined.
LEMMA FinishToolKeeps ==
    ASSUME GenInv, DumpedIr, FinishTool
    PROVE  GenInv'
<1> DEFINE p == ir.procs[manifest.proc]
           named == manifest.named
           tool == [name |-> p.name, input |-> p.input,
                    defs |-> {m \in named : HasName(ir.types, m)}]
<1>1. /\ stage = "listing" /\ stage' = stage /\ manifest.walking
      /\ UNCHANGED <<asmVars, module>> /\ UNCHANGED ir
      /\ manifest.todo = <<>>
      /\ manifest' = [manifest EXCEPT !.walking = FALSE, !.proc = manifest.proc + 1,
                                      !.tools = Append(manifest.tools, tool)]
  BY DEF FinishTool, asmVars
<1>2. /\ manifest \in Manifests /\ named \in SUBSET IrNames
      /\ manifest.proc \in Nat \ {0} /\ manifest.tools \in Seq(ToolSet)
  BY OutTypeIs DEF GenInv, Manifests
<1>3. NamesAt(manifest.todo) = {}
  BY <1>1 DEF NamesAt, RangeOf
<1>4. /\ manifest.proc \in DOMAIN ir.procs /\ named \subseteq NamesOf(ir)
      /\ NamesIn(p.input) \subseteq named
      /\ \A d \in named : NamesAt(DefinitionOf(d)) \subseteq named
  BY <1>1, <1>3 DEF GenInv, TodoInv
<1>5. {m \in named : HasName(ir.types, m)} = named
  BY <1>4 DEF NamesOf, HasName
<1>6. p.name \in ProcNames /\ p.input \in Nodes
  <2>1. p \in ProcIrs
    BY <1>4 DEF DumpedIr
  <2> QED BY <2>1 DEF ProcIrs, FnNames, ProcNames
<1>7. /\ tool.input = p.input /\ tool.defs = named
      /\ tool \in ToolSet
  BY <1>2, <1>5, <1>6 DEF ToolSet
<1> HIDE DEF tool, p, named
<1> DEFINE tools == Append(manifest.tools, tool)
<1>8. /\ tools \in Seq(ToolSet)
      /\ \A i \in DOMAIN tools :
            \/ i \in DOMAIN manifest.tools /\ tools[i] = manifest.tools[i]
            \/ tools[i] = tool
  BY <1>2, <1>7
<1> HIDE DEF tools
<1>9. manifest' \in Manifests /\ manifest'.tools = tools /\ ~manifest'.walking
  <2>1. manifest.proc + 1 \in Nat \ {0}
    BY <1>2
  <2> QED BY <1>1, <1>2, <1>8, <2>1 DEF Manifests, tools
<1>10. ManifestIsClosed'
  <2>1. \A d : DefinitionOf(d)' = DefinitionOf(d)
    BY <1>1 DEF DefinitionOf
  <2>2. \A i \in DOMAIN manifest.tools :
           /\ NamesIn(manifest.tools[i].input) \subseteq manifest.tools[i].defs
           /\ \A d \in manifest.tools[i].defs :
                 NamesAt(DefinitionOf(d)) \subseteq manifest.tools[i].defs
    BY DEF GenInv, ManifestIsClosed, NamesAt
  <2>3. /\ NamesIn(tool.input) \subseteq tool.defs
        /\ \A d \in tool.defs : NamesAt(DefinitionOf(d)) \subseteq tool.defs
    BY <1>4, <1>7
  <2>4. \A i \in DOMAIN tools :
           /\ NamesIn(tools[i].input) \subseteq tools[i].defs
           /\ \A d \in tools[i].defs : NamesAt(DefinitionOf(d)) \subseteq tools[i].defs
    BY <1>8, <2>2, <2>3
  <2> QED BY <1>9, <2>1, <2>4 DEF ManifestIsClosed, NamesAt
<1>11. TodoInv'
  BY <1>9 DEF TodoInv
<1> QED BY <1>1, <1>9, <1>10, <1>11, ListingKeeps

-----------------------------------------------------------------------------
\* Every step keeps the invariant.
LEMMA GenInvStep ==
    AsmTypeOK /\ CollectInv /\ IrInv /\ GenInv /\ [GenNext]_genVars => GenInv'
<1> SUFFICES ASSUME AsmTypeOK, CollectInv, IrInv, GenInv, [GenNext]_genVars
             PROVE  GenInv'
  OBVIOUS
<1>1. phase = "dumped" => DumpedIr
  BY DumpIsComplete
<1>2. stage # "none" => phase = "dumped"
  BY DEF GenInv, EngineInv
<1>3. CASE AsmNext /\ UNCHANGED outVars
  <2>1. phase # "dumped"
    BY <1>3, NothingAfterDump
  <2>2. /\ stage = "none" /\ module = NoModule /\ manifest = NoManifest
        /\ UNCHANGED <<stage, module, manifest>>
    BY <1>2, <1>3, <2>1 DEF GenInv, EngineInv, outVars
  <2>3. OutTypeOK'
    BY <2>2 DEF GenInv, OutTypeOK
  <2>4. EngineInv' /\ TodoInv' /\ MethodsInv' /\ TypesDecideTheLoad'
    BY <2>2 DEF EngineInv, TodoInv, MethodsInv, TypesDecideTheLoad
  <2>5. ManifestIsClosed'
    BY <2>2 DEF ManifestIsClosed, NoManifest
  <2> QED BY <2>3, <2>4, <2>5 DEF GenInv
<1>4. CASE \E v \in Validators : Generate(v)
  <2>1. phase = "dumped"
    BY <1>4 DEF Generate
  <2> QED BY <1>1, <1>4, <2>1, GenerateKeeps
<1>5. CASE \E s \in SubscriptionsAsTools : ListTools(s)
  BY <1>5, ListToolsKeeps
<1>6. CASE Import \/ RunStatement \/ ModuleEnds
  <2>1. stage \in {"generated", "loading"}
    BY <1>6 DEF Import, RunStatement, ModuleEnds
  <2> QED BY <1>1, <1>2, <1>6, <2>1, ImportKeeps, RunStatementKeeps, ModuleEndsKeeps
<1>7. CASE StartTool \/ WalkRef \/ FinishTool
  <2>1. stage = "listing"
    BY <1>7 DEF StartTool, WalkRef, FinishTool
  <2> QED BY <1>1, <1>2, <1>7, <2>1, StartToolKeeps, WalkRefKeeps, FinishToolKeeps
<1>8. CASE ManifestEnds
  BY <1>8, ManifestEndsKeeps
<1>9. CASE UNCHANGED genVars
  <2>1. UNCHANGED <<phase, ir, procedures, stage, module, manifest>>
    BY <1>9 DEF genVars, asmVars, outVars
  <2>2. OutTypeOK' /\ EngineInv' /\ MethodsInv' /\ TypesDecideTheLoad'
    <3>1. OutTypeOK'
      BY <2>1 DEF GenInv, OutTypeOK
    <3>2. EngineInv'
      BY <2>1 DEF GenInv, EngineInv
    <3>3. MethodsInv'
      BY <2>1 DEF GenInv, MethodsInv
    <3>4. TypesDecideTheLoad'
      BY <2>1 DEF GenInv, TypesDecideTheLoad
    <3> QED BY <3>1, <3>2, <3>3, <3>4
  <2>3. TodoInv'
    <3>1. /\ SignatureTypes' = SignatureTypes
          /\ \A d : DefinitionOf(d)' = DefinitionOf(d)
          /\ NamesOf(ir)' = NamesOf(ir)
      BY <2>1 DEF SignatureTypes, DefinitionOf, NamesOf
    <3>2. TodoInv
      BY DEF GenInv
    <3> QED BY <2>1, <3>1, <3>2 DEF TodoInv
  <2>4. ManifestIsClosed'
    BY <2>1 DEF GenInv, ManifestIsClosed, DefinitionOf
  <2> QED BY <2>2, <2>3, <2>4 DEF GenInv
<1> QED BY <1>3, <1>4, <1>5, <1>6, <1>7, <1>8, <1>9 DEF GenNext

\* It holds before main has made a call.
LEMMA GenInvInit == GenInit => GenInv
<1> SUFFICES ASSUME GenInit PROVE GenInv
  OBVIOUS
<1>1. stage = "none" /\ module = NoModule /\ manifest = NoManifest
  BY DEF GenInit
<1>2. module \in Modules
  <2>1. <<>> \in Seq(StatementSet) /\ 1 \in Nat \ {0}
    OBVIOUS
  <2> QED BY <1>1, <2>1 DEF NoModule, Modules
<1>3. manifest \in Manifests
  <2>1. <<>> \in Seq(Nodes) /\ <<>> \in Seq(ToolSet) /\ 1 \in Nat \ {0}
    OBVIOUS
  <2> QED BY <1>1, <2>1 DEF NoManifest, Manifests
<1>4. OutTypeOK
  BY <1>1, <1>2, <1>3, OutTypeIs DEF StageOK
<1>5. EngineInv /\ TodoInv /\ MethodsInv /\ TypesDecideTheLoad /\ ManifestIsClosed
  BY <1>1 DEF EngineInv, TodoInv, MethodsInv, TypesDecideTheLoad, ManifestIsClosed,
              NoManifest
<1> QED BY <1>4, <1>5 DEF GenInv

\* The invariant holds throughout.
LEMMA GenInvAlways == GenSpec => []GenInv
  BY GenInvInit, GenInvStep, GenIsAsmSpec, AsmTypeCorrect, CollectAlways, IrAlways, PTL
  DEF GenSpec

\* The commands' state is always well typed.
THEOREM GenTypeCorrect == GenSpec => []OutTypeOK
<1>1. GenInv => OutTypeOK
  BY DEF GenInv
<1> QED BY <1>1, GenInvAlways, PTL

\* The import of the module throws at the first type that is not sound, and
\* nowhere else.
THEOREM LoadIsDecided == GenSpec => []TypesDecideTheLoad
<1>1. GenInv => TypesDecideTheLoad
  BY DEF GenInv
<1> QED BY <1>1, GenInvAlways, PTL

\* No $ref of a tool dangles.
THEOREM RefsResolve == GenSpec => []ManifestIsClosed
<1>1. GenInv => ManifestIsClosed
  BY DEF GenInv
<1> QED BY <1>1, GenInvAlways, PTL

\* The IR is TypeScript once written, its types are in the order in which their
\* schemas need each other, and their checks suit the fields.
InOrder ==
    \A v \in Validators \cup {"none"} :
        /\ IsTypeScript(ir, v)
        /\ \A k \in DOMAIN ir.types : IsSound(ir, k, v)

\* gen takes the dump of such a program, and the client's import of the output
\* does not fail, whatever the validator.
THEOREM InOrderLoads ==
    GenSpec => [](InOrder => stage \notin {"refused", "unreadable", "threw"})
<1>1. AsmTypeOK /\ CollectInv /\ IrInv /\ GenInv =>
          (InOrder => stage \notin {"refused", "unreadable", "threw"})
  <2> SUFFICES ASSUME AsmTypeOK, CollectInv, IrInv, GenInv, InOrder
               PROVE  stage \notin {"refused", "unreadable", "threw"}
    OBVIOUS
  <2>1. ASSUME stage = "refused" PROVE FALSE
    <3>1. DumpedIr
      BY <2>1, DumpIsComplete DEF GenInv, EngineInv
    <3>2. Conflicting(ir)
      BY <2>1 DEF GenInv, EngineInv
    <3> QED BY <3>1, <3>2, NoneConflict
  <2>2. module.validator \in Validators \cup {"none"}
    BY OutTypeIs DEF GenInv, Modules
  <2>3. ASSUME stage = "unreadable" PROVE FALSE
    BY <2>2, <2>3 DEF GenInv, EngineInv, InOrder
  <2>4. ASSUME stage = "threw" PROVE FALSE
    <3>1. module.validator # "none"
      <4>1. /\ module.statements = Statements(ir, module.validator)
            /\ module.next \in 1..(Len(module.statements) + 1)
            /\ module.next <= Len(module.statements)
        BY <2>4 DEF GenInv, EngineInv
      <4> QED BY <4>1 DEF Statements
    <3>2. module.next \in DOMAIN ir.types /\ ~IsSound(ir, module.next, module.validator)
      BY <2>4 DEF GenInv, TypesDecideTheLoad
    <3> QED BY <2>2, <3>1, <3>2 DEF InOrder
  <2> QED BY <2>1, <2>3, <2>4
<1> QED
  BY <1>1, GenInvAlways, GenIsAsmSpec, AsmTypeCorrect, CollectAlways, IrAlways, PTL
=============================================================================
