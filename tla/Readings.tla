------------------------------ MODULE Readings ------------------------------
(***************************************************************************)
(* The five readings of a Rust type: the TypeScript type, the schema of    *)
(* the client, the JSON schema of the MCP manifest, serde's encoding and   *)
(* the server's checks.                                                    *)
(*                                                                         *)
(* The first four render a type to a *view*, a record whose v is its form; *)
(* Fits says which values a view admits.  What they make of primitives and *)
(* of a field's constraints is in Leaves.                                  *)
(*                                                                         *)
(* The readings are recursions over nested types, views and values.  Each  *)
(* is a constant, the result for the parts of its argument, and the        *)
(* operator with the same name and Of, the result for the whole.  An       *)
(* instance gives every constant the operator of its name as its value:    *)
(* Unfolds, the equations of the recursion.                                *)
(***************************************************************************)
EXTENDS Leaves

CONSTANTS
    Json(_), Parsed(_), Ordinary(_),            \* of a value
    Fits(_, _), Through(_, _), Issues(_, _),    \* of a view and a value
    TsType(_, _), Schema(_, _), Mcp(_, _),      \* of a type and the CLI's settings
    Serde(_, _),                                \* of a type, "in" or "out"
    Errors(_, _),                               \* of a type and a value
    SubTypes(_), Validates(_),                  \* of a type
    TupleCap,                                   \* FIXED_ARRAY_TUPLE_CAP
    Depth                                       \* types are not nested deeper

ASSUME ReadingsAssumption == TupleCap \in Nat /\ Depth \in Nat

-----------------------------------------------------------------------------
(* Types.                                                                  *)

Attributes ==
    Seq(Seq([key : STRING, form : {"bare", "value", "group"}, n : Int,
             lo : Seq(Int), hi : Seq(Int), s : STRING]))
FieldsOver(T) == Seq([ident : STRING, wire : STRING, attrs : Attributes, ty : T])
VariantsOver(T) ==
    Seq([ident : STRING, wire : STRING, snake : STRING, attrs : Attributes,
         payload : {"unit", "tuple", "struct"}, elems : Seq(T), fields : FieldsOver(T)])

\* The types made of others.  A box and its content are one to all readings.
TypesOver(T) ==
    [k : {"prim"}, p : Primitives]
    \cup [k : {"option", "vec"}, of : T]
    \cup [k : {"map"}, key : T, of : T]
    \cup [k : {"tuple"}, elems : Seq(T) \ {<<>>}]
    \cup [k : {"array"}, of : T, len : Nat]
    \cup [k : {"struct"}, fields : FieldsOver(T)]
    \cup [k : {"tupleStruct"}, elems : Seq(T)]
    \cup [k : {"unitStruct"}]
    \cup [k : {"enum"}, tag : STRING, content : STRING, attrs : Attributes,
          variants : VariantsOver(T)]

\* The types nested so deep.
TypesTo[n \in 0..Depth] == IF n = 0 THEN {} ELSE TypesOver(TypesTo[n - 1])

PartsOf(t) ==
    CASE t.k \in {"option", "vec", "array"} -> {t.of}
      [] t.k = "map" -> {t.key, t.of}
      [] t.k \in {"tuple", "tupleStruct"} -> ToSet(t.elems)
      [] t.k = "struct" -> {f.ty : f \in ToSet(t.fields)}
      [] t.k = "enum" ->
            UNION {ToSet(v.elems) \cup {f.ty : f \in ToSet(v.fields)} : v \in ToSet(t.variants)}
      [] OTHER -> {}

\* A type and the types in it.
SubTypesOf(t) == {t} \cup UNION {SubTypes(p) : p \in PartsOf(t)}

\* The named fields of a type.
FieldsOf(t) ==
    CASE t.k = "struct" -> ToSet(t.fields)
      [] t.k = "enum" -> UNION {ToSet(v.fields) : v \in ToSet(t.variants)}
      [] OTHER -> {}

\* tuple_validate! is called for tuples no longer than this.
ValidTuple == 4

\* The types with an impl of Validate, a map being a HashMap: none for an array,
\* a Uuid or a longer tuple.
ValidatesOf(t) ==
    CASE t.k \in {"option", "vec", "map"} -> Validates(t.of)
      [] t.k = "tuple" ->
            Len(t.elems) <= ValidTuple /\ \A i \in DOMAIN t.elems : Validates(t.elems[i])
      [] t.k = "prim" -> t.p # "uuid"
      [] OTHER -> t.k # "array"

-----------------------------------------------------------------------------
(* Values.                                                                 *)

Arr(a) == [j |-> "arr", a |-> a]
Obj(o) == [j |-> "obj", o |-> o]
IsArr(x) == x.j = "arr" /\ x = Arr(x.a) /\ x.a \in Seq(ToSet(x.a))
IsObj(x) == x.j = "obj" /\ x = Obj([m \in DOMAIN x.o |-> x.o[m]])

\* What JSON.stringify makes of a value.
JsonOf(x) ==
    CASE x.j = "arr" -> Arr([i \in DOMAIN x.a |-> Json(x.a[i])])
      [] x.j = "obj" -> Obj([m \in {m \in DOMAIN x.o : x.o[m].j # "undef"} |-> Json(x.o[m])])
      [] OTHER -> JsonLeaf(x)

\* What a value that serde_json has written is after JSON.parse.
ParsedOf(x) ==
    CASE x.j = "arr" -> Arr([i \in DOMAIN x.a |-> Parsed(x.a[i])])
      [] x.j = "obj" -> Obj([m \in DOMAIN x.o |-> Parsed(x.o[m])])
      [] OTHER -> ParsedLeaf(x)

\* The values on which no reading has more to say than its form.
OrdinaryOf(x) ==
    CASE x.j = "arr" -> \A i \in DOMAIN x.a : Ordinary(x.a[i])
      [] x.j = "obj" -> \A m \in DOMAIN x.o : Ordinary(x.o[m])
      [] OTHER -> OrdinaryLeaf(x)

-----------------------------------------------------------------------------
(* Views.                                                                  *)

Leaf(name)     == [v |-> "leaf", leaf |-> name]
Literal(name)  == [v |-> "literal", name |-> name]
Nullable(w)    == [v |-> "nullable", of |-> w]
OrUndefined(w) == [v |-> "undefined", of |-> w]
ArrayOf(w)     == [v |-> "array", of |-> w]
Fixed(ws)      == [v |-> "tuple", items |-> ws]
RecordOf(w)    == [v |-> "record", of |-> w]
Union(ws)      == [v |-> "union", items |-> ws]
OneOf(ws)      == [v |-> "oneOf", items |-> ws]
Anything       == [v |-> "any"]
Checked(w, cs) == [v |-> "checked", of |-> w, checks |-> cs]
\* parts: [name, view, required] by position; a tag comes before the first.
\* keys: "any", or only those that are "named".
Object(parts, keys) == [v |-> "object", parts |-> parts, keys |-> keys]
Part(name, w, required) == [name |-> name, view |-> w, required |-> required]
Tagged(tag, name, parts) ==
    [i \in {0} \cup DOMAIN parts |->
        IF i = 0 THEN Part(tag, Literal(name), TRUE) ELSE parts[i]]
Names(parts) == {parts[i].name : i \in DOMAIN parts}

FitsOf(w, x) ==
    \/ w.v = "leaf" /\ x \in LeafValues /\ FitsLeaf(w.leaf, x)
    \/ w.v = "literal" /\ x = Str(w.name)
    \/ w.v = "any"
    \/ w.v = "undefined" /\ (x = Undef \/ Fits(w.of, x))
    \/ w.v = "nullable" /\ (x = Null \/ Fits(w.of, x))
    \/ w.v = "array" /\ IsArr(x) /\ \A i \in DOMAIN x.a : Fits(w.of, x.a[i])
    \/ /\ w.v = "tuple" /\ IsArr(x) /\ Len(x.a) = Len(w.items)
       /\ \A i \in DOMAIN x.a : Fits(w.items[i], x.a[i])
    \/ w.v = "record" /\ IsObj(x) /\ \A m \in DOMAIN x.o : Fits(w.of, x.o[m])
    \/ /\ w.v = "object" /\ IsObj(x)
       /\ \A i \in DOMAIN w.parts :
             IF w.parts[i].name \in DOMAIN x.o
             THEN Fits(w.parts[i].view, x.o[w.parts[i].name])
             ELSE ~w.parts[i].required
       /\ w.keys = "any" \/ DOMAIN x.o \subseteq Names(w.parts)
    \/ w.v = "union" /\ \E i \in DOMAIN w.items : Fits(w.items[i], x)
    \/ /\ w.v = "oneOf"
       /\ \E i \in DOMAIN w.items : \A k \in DOMAIN w.items : Fits(w.items[k], x) <=> k = i
    \/ w.v = "checked" /\ Fits(w.of, x) /\ \A c \in w.checks : ClientCheck(c, x)

\* The part with a name, and a member that a value fits.
PartOf(parts, m) == parts[CHOOSE i \in DOMAIN parts : parts[i].name = m]
Member(ws, x) == ws[CHOOSE i \in DOMAIN ws : Fits(ws[i], x)]

\* What the parse of a schema returns for a value that fits: 64 bit integers
\* become bigints, and an object keeps the keys the schema names.
ThroughOf(w, x) ==
    CASE w.v = "leaf" -> ThroughLeaf(w.leaf, x)
      [] w.v = "nullable" -> IF x = Null THEN x ELSE Through(w.of, x)
      [] w.v = "checked" -> Through(w.of, x)
      [] w.v = "array"  -> Arr([i \in DOMAIN x.a |-> Through(w.of, x.a[i])])
      [] w.v = "tuple"  -> Arr([i \in DOMAIN x.a |-> Through(w.items[i], x.a[i])])
      [] w.v = "record" -> Obj([m \in DOMAIN x.o |-> Through(w.of, x.o[m])])
      [] w.v = "object" ->
            Obj([m \in DOMAIN x.o \cap Names(w.parts) |->
                    Through(PartOf(w.parts, m).view, x.o[m])])
      [] w.v = "union"  -> Through(Member(w.items, x), x)
      [] OTHER -> x

\* The tag of an object of a union.
IsTagged(w, x) == w.parts[0].name \in DOMAIN x.o /\ Fits(w.parts[0].view, x.o[w.parts[0].name])

\* Where a schema library finds fault with a value: the paths of the issues it
\* throws, that of a union inside the variant the tag names.
IssuesOf(w, x) ==
    LET Under(key, issues) == {<<key>> \o at : at \in issues} IN
    CASE w.v = "nullable" -> IF x = Null THEN {} ELSE Issues(w.of, x)
      [] w.v = "checked" /\ Issues(w.of, x) # {} -> Issues(w.of, x)
      [] w.v = "array" /\ x.j = "arr" ->
            UNION {Under(i, Issues(w.of, x.a[i])) : i \in DOMAIN x.a}
      [] w.v = "tuple" /\ x.j = "arr" /\ Len(x.a) = Len(w.items) ->
            UNION {Under(i, Issues(w.items[i], x.a[i])) : i \in DOMAIN x.a}
      [] w.v = "record" /\ x.j = "obj" ->
            UNION {Under(m, Issues(w.of, x.o[m])) : m \in DOMAIN x.o}
      [] w.v = "object" /\ x.j = "obj" ->
            UNION {LET p == w.parts[i] IN
                   IF p.name \in DOMAIN x.o THEN Under(p.name, Issues(p.view, x.o[p.name]))
                   ELSE IF p.required THEN {<<p.name>>} ELSE {} : i \in DOMAIN w.parts}
      [] w.v = "union" /\ x.j = "obj" /\ \E i \in DOMAIN w.items : IsTagged(w.items[i], x) ->
            Issues(w.items[CHOOSE i \in DOMAIN w.items : IsTagged(w.items[i], x)], x)
      [] OTHER -> IF Fits(w, x) THEN {} ELSE {<<>>}

-----------------------------------------------------------------------------
(* The TypeScript type: type_map and write_type_def.                       *)

IsStringKey(key) == key.k = "prim" /\ key.p \in {"string", "uuid"}

Copies(n, w) == [i \in 1..n |-> w]

\* write_field_line: `?` for optional, `| undefined` when it is honoured.
TsField(f, o) ==
    Part(f.name,
         IF f.undefined /\ o.undefined THEN OrUndefined(TsType(f.ty, o)) ELSE TsType(f.ty, o),
         ~f.optional)
TsFields(fields, o) == [i \in DOMAIN fields |-> TsField(fields[i], o)]

\* render_tuple: the empty tuple is void.
TsTuple(elems, o) ==
    IF elems = <<>> THEN Leaf("void")
    ELSE Fixed([i \in DOMAIN elems |-> TsType(elems[i], o)])

\* write_variant: a payload of no elements is left out.
TsPayload(v, o) ==
    CASE v.payload = "struct" -> TsFields(v.fields, o)
      [] v.payload = "tuple" /\ v.elems # <<>> -> <<Part("payload", TsTuple(v.elems, o), TRUE)>>
      [] OTHER -> <<>>
TsVariant(tag, v, o) == Object(Tagged(tag, v.name, TsPayload(v, o)), "any")

\* write_type_def: a tuple struct of one is an alias of its element's type.
TsTupleStruct(elems, o) == IF Len(elems) = 1 THEN TsType(elems[1], o) ELSE TsTuple(elems, o)

\* write_struct and write_enum.
TsStruct(fields, o) == Object(TsFields(IrFields(fields), o), "any")
TsEnum(t, o) ==
    Union([i \in DOMAIN t.variants |-> TsVariant(IrTag(t), IrVariant(t.variants[i]), o)])

TsTypeOf(t, o) ==
    CASE t.k = "prim"   -> Leaf(TsPrimitive(t.p, o.bigint))
      [] t.k = "option" -> Nullable(TsType(t.of, o))
      [] t.k = "vec"    -> ArrayOf(TsType(t.of, o))
      [] t.k = "map"    -> IF IsStringKey(t.key) THEN RecordOf(TsType(t.of, o))
                           ELSE ArrayOf(Fixed(<<TsType(t.key, o), TsType(t.of, o)>>))
      [] t.k = "tuple"  -> TsTuple(t.elems, o)
      [] t.k = "array"  -> IF t.len <= TupleCap THEN Fixed(Copies(t.len, TsType(t.of, o)))
                           ELSE ArrayOf(TsType(t.of, o))
      [] t.k = "struct" -> TsStruct(t.fields, o)
      [] t.k = "tupleStruct" -> TsTupleStruct(t.elems, o)
      [] t.k = "enum" -> TsEnum(t, o)
      [] OTHER -> Leaf("void")

-----------------------------------------------------------------------------
(* The client's schema: write_schemas.                                     *)

\* render_field_schema: the checks go inside the option; neither optional nor
\* undefined is looked at.
SchemaField(f, o) ==
    LET inner == IF f.ty.k = "option" THEN f.ty.of ELSE f.ty
        base  == Checked(Schema(inner, o), SchemaChecks(inner, f.constraints))
    IN  Part(f.name, IF f.ty.k = "option" THEN Nullable(base) ELSE base, TRUE)
SchemaFields(fields, o) == [i \in DOMAIN fields |-> SchemaField(fields[i], o)]

\* render_tuple_schema
SchemaTuple(elems, o) ==
    IF elems = <<>> THEN Leaf("null")
    ELSE Fixed([i \in DOMAIN elems |-> Schema(elems[i], o)])

\* render_variant_schema
SchemaPayload(v, o) ==
    CASE v.payload = "struct" -> SchemaFields(v.fields, o)
      [] v.payload = "tuple" /\ v.elems # <<>> ->
            <<Part("payload", SchemaTuple(v.elems, o), TRUE)>>
      [] OTHER -> <<>>
SchemaVariant(tag, v, o) == Object(Tagged(tag, v.name, SchemaPayload(v, o)), "any")

\* render_struct_schema and render_enum_schema.
SchemaStruct(fields, o) == Object(SchemaFields(IrFields(fields), o), "any")
SchemaEnum(t, o) ==
    IF t.variants = <<>> THEN Leaf("never")
    ELSE Union([i \in DOMAIN t.variants |->
                   SchemaVariant(IrTag(t), IrVariant(t.variants[i]), o)])

SchemaOf(t, o) ==
    CASE t.k = "prim"   -> Leaf(SchemaPrimitive(t.p, o.bigint))
      [] t.k = "option" -> Nullable(Schema(t.of, o))
      [] t.k = "vec"    -> ArrayOf(Schema(t.of, o))
      [] t.k = "map"    -> IF IsStringKey(t.key) THEN RecordOf(Schema(t.of, o))
                           ELSE ArrayOf(Fixed(<<Schema(t.key, o), Schema(t.of, o)>>))
      [] t.k = "tuple"  -> SchemaTuple(t.elems, o)
      [] t.k = "array"  -> Fixed(Copies(t.len, Schema(t.of, o)))
      [] t.k = "struct" -> SchemaStruct(t.fields, o)
      [] t.k = "tupleStruct" ->
            IF Len(t.elems) = 1 THEN Schema(t.elems[1], o) ELSE SchemaTuple(t.elems, o)
      [] t.k = "enum" -> SchemaEnum(t, o)
      [] OTHER -> Leaf("null")

-----------------------------------------------------------------------------
(* The manifest's JSON schema: mcp.rs.                                     *)

McpFields(fields, o) ==
    [i \in DOMAIN fields |-> Part(fields[i].name, Mcp(fields[i].ty, o), ~fields[i].optional)]
McpTuple(elems, o) == Fixed([i \in DOMAIN elems |-> Mcp(elems[i], o)])

\* variant_to_schema: a payload of no elements is an empty array.
McpPayload(v, o) ==
    CASE v.payload = "struct" -> McpFields(v.fields, o)
      [] v.payload = "tuple" -> <<Part("payload", McpTuple(v.elems, o), TRUE)>>
      [] OTHER -> <<>>
McpVariant(tag, v, o) == Object(Tagged(tag, v.name, McpPayload(v, o)), "named")

\* A schema whose `type` is a list, that of an option of a type with one, loses
\* it inside another option: what is left of it admits anything.
HasTypeList(t) ==
    t.k = "option" /\ t.of.k \notin {"option", "enum", "struct", "tupleStruct", "unitStruct"}

McpOption(t, o) ==
    IF HasTypeList(t) THEN OneOf(<<Anything, Leaf("null")>>)
    ELSE IF t.k = "option" THEN OneOf(<<Mcp(t, o), Leaf("null")>>)
    ELSE Nullable(Mcp(t, o))

McpOf(t, o) ==
    CASE t.k = "prim"   -> Leaf(McpPrimitive(t.p, o.bigint))
      [] t.k = "option" -> McpOption(t.of, o)
      [] t.k = "vec"    -> ArrayOf(Mcp(t.of, o))
      [] t.k = "map"    -> RecordOf(Mcp(t.of, o))
      [] t.k = "tuple"  -> McpTuple(t.elems, o)
      [] t.k = "array"  -> Fixed(Copies(t.len, Mcp(t.of, o)))
      [] t.k = "struct" -> Object(McpFields(IrFields(t.fields), o), "named")
      [] t.k = "tupleStruct" ->
            CASE Len(t.elems) = 0 -> Leaf("null")
              [] Len(t.elems) = 1 -> Mcp(t.elems[1], o)
              [] OTHER -> McpTuple(t.elems, o)
      [] t.k = "enum" -> Union([i \in DOMAIN t.variants |->
                                   McpVariant(IrTag(t), IrVariant(t.variants[i]), o)])
      [] OTHER -> Leaf("null")

-----------------------------------------------------------------------------
(* serde's encoding of a Rust type: what it takes in, or, with all fields  *)
(* and no keys but theirs, what it gives out.                              *)

KeysTo(way) == IF way = "in" THEN "any" ELSE "named"

SerdeFields(fields, way) ==
    [i \in DOMAIN fields |->
        Part(fields[i].wire, Serde(fields[i].ty, way), way = "out" \/ fields[i].ty.k # "option")]
SerdeTuple(elems, way) == Fixed([i \in DOMAIN elems |-> Serde(elems[i], way)])

\* A sequence of types that is not named: one stands for itself.
SerdeItems(elems, way) ==
    IF Len(elems) = 1 THEN Serde(elems[1], way) ELSE SerdeTuple(elems, way)

SerdePayload(v, way) ==
    IF v.payload = "struct" THEN Object(SerdeFields(v.fields, way), KeysTo(way))
    ELSE SerdeItems(v.elems, way)

\* By the enum's tag and content: adjacent, internal (of structs and units
\* only), or external.
SerdeVariant(t, v, way) ==
    CASE t.tag # "none" /\ v.payload = "unit" -> Object(Tagged(t.tag, v.wire, <<>>), KeysTo(way))
      [] t.tag # "none" /\ t.content # "none" /\ v.payload # "unit" ->
            Object(Tagged(t.tag, v.wire,
                          <<Part(t.content, SerdePayload(v, way), TRUE)>>), KeysTo(way))
      [] t.tag # "none" /\ t.content = "none" /\ v.payload # "unit" ->
            Object(Tagged(t.tag, v.wire, SerdeFields(v.fields, way)), KeysTo(way))
      [] t.tag = "none" /\ v.payload = "unit" -> Literal(v.wire)
      [] OTHER -> Object(<<Part(v.wire, SerdePayload(v, way), TRUE)>>, "named")

SerdeOf(t, way) ==
    CASE t.k = "prim"   -> Leaf(SerdePrimitive(t.p))
      [] t.k = "option" -> Nullable(Serde(t.of, way))
      [] t.k = "vec"    -> ArrayOf(Serde(t.of, way))
      [] t.k = "map"    -> RecordOf(Serde(t.of, way))
      [] t.k = "tuple"  -> SerdeTuple(t.elems, way)
      [] t.k = "array"  -> Fixed(Copies(t.len, Serde(t.of, way)))
      [] t.k = "struct" -> Object(SerdeFields(t.fields, way), KeysTo(way))
      [] t.k = "tupleStruct" -> SerdeItems(t.elems, way)
      [] t.k = "enum" -> Union([i \in DOMAIN t.variants |-> SerdeVariant(t, t.variants[i], way)])
      [] OTHER -> Leaf("null")

-----------------------------------------------------------------------------
(* The server's checks: validate.rs and the derived impls.                 *)

\* An index goes in front of the path.
At(part, errors) == {<<<<part>> \o e[1], e[2]>> : e \in errors}

\* The variant of a value, and the fields of that of a struct variant.
VariantOf(t, x) ==
    t.variants[CHOOSE i \in DOMAIN t.variants : Fits(SerdeVariant(t, t.variants[i], "in"), x)]
PayloadIn(t, v, x) ==
    IF t.tag = "none" THEN x.o[v.wire].o
    ELSE IF t.content = "none" THEN x.o ELSE x.o[t.content].o

\* Validate::validate; map and tuple leave the paths of their elements alone.
ErrorsOf(t, x) ==
    CASE t.k = "option" -> IF x = Null THEN {} ELSE Errors(t.of, x)
      [] t.k = "vec"    -> UNION {At(i, Errors(t.of, x.a[i])) : i \in DOMAIN x.a}
      [] t.k = "map"    -> UNION {Errors(t.of, x.o[m]) : m \in DOMAIN x.o}
      [] t.k = "tuple"  -> UNION {Errors(t.elems[i], x.a[i]) : i \in DOMAIN x.a}
      [] t.k = "struct" -> FieldErrors(t.fields, x.o)
      [] t.k = "enum"   ->
            LET v == VariantOf(t, x)
            IN  IF v.payload = "struct" THEN FieldErrors(v.fields, PayloadIn(t, v, x)) ELSE {}
      [] OTHER -> {}

-----------------------------------------------------------------------------
(* Where the readings agree.                                               *)

\* rustc refuses two variants of one name, tsc two properties.
NamesDiffer(t, o) ==
    LET Differ(parts) == \A i, k \in DOMAIN parts : parts[i].name = parts[k].name => i = k
        variants == [i \in DOMAIN t.variants |-> IrVariant(t.variants[i])]
    IN  /\ t.k = "struct" => Differ(TsFields(IrFields(t.fields), o))
        /\ t.k = "enum" =>
              /\ Differ(variants)
              /\ \A i \in DOMAIN variants : Differ(TsVariant(IrTag(t), variants[i], o).parts)

\* A variant as serde writes it, under the tag and the name of the IR.
PlainVariant(t, v) ==
    /\ v.wire = v.ident /\ t.tag = IrTag(t) /\ t.tag # "none"
    /\ v.payload = "tuple" => t.content = "payload" /\ Len(v.elems) >= 2
    /\ v.payload = "struct" => t.content = "none"

\* A field that has its name of serde in the IR, and is left out only where
\* serde takes its absence.
SerdeField(f) ==
    /\ IrField(f).name = f.wire
    /\ IrField(f).optional \/ IrField(f).undefined => f.ty.k = "option"

\* The Rust types for which all readings describe the same encoding.
PlainPart(t, o) ==
    /\ t.k = "map" => t.key.k = "prim" /\ t.key.p = "string"
    /\ t.k = "prim" => PlainPrimitive(t.p, o.bigint)
    /\ t.k = "array" => t.len <= TupleCap
    /\ t.k = "tupleStruct" => t.elems # <<>>
    /\ t.k = "option" => ~HasTypeList(t.of)
    /\ t.k = "enum" => \A i \in DOMAIN t.variants : PlainVariant(t, t.variants[i])
    /\ \A f \in FieldsOf(t) : SerdeField(f)

IsUnit(t) == t.k = "unitStruct" \/ (t.k = "prim" /\ t.p = "unit")

\* A unit may be the whole input or output, but no part of it.
PlainType(t, o) ==
    /\ \A s \in SubTypes(t) : PlainPart(s, o)
    /\ IsUnit(t) \/ \A s \in SubTypes(t) : ~IsUnit(s)

Unconstrained(t) ==
    \A s \in SubTypes(t) : \A f \in FieldsOf(s) : IrField(f).constraints = {}

HasWide(t) == \E s \in SubTypes(t) : s.k = "prim" /\ s.p \in Wide

\* The elements of arrays, tuple structs and tuple variants, of which the server checks
\* nothing; no more does it look into the fields of a struct or a variant.
Unchecked(t) ==
    CASE t.k = "array" -> {t.of}
      [] t.k = "tupleStruct" -> ToSet(t.elems)
      [] t.k = "enum" -> UNION {ToSet(v.elems) : v \in ToSet(t.variants)}
      [] OTHER -> {}

\* Fields whose constraints the client and the server read alike.
PlainChecks(t) ==
    \A s \in SubTypes(t) :
        /\ \A f \in FieldsOf(s) :
              PlainField(f) /\ ~IrField(f).optional /\ ~IrField(f).undefined
        /\ \A part \in Unchecked(s) \cup {f.ty : f \in FieldsOf(s)} : Unconstrained(part)

\* The types of which both sides name a part alike: the server leaves keys and
\* the indices of tuples out of a path, and has identifiers in it.
PlainPaths(t) ==
    \A s \in SubTypes(t) :
        /\ s.k \notin {"map", "tuple"}
        /\ \A f \in FieldsOf(s) : f.wire = f.ident

-----------------------------------------------------------------------------
\* The equations of the recursion.
Unfolds ==
    /\ \A x : Json(x) = JsonOf(x) /\ Parsed(x) = ParsedOf(x)
    /\ \A x : Ordinary(x) <=> OrdinaryOf(x)
    /\ \A w, x : Fits(w, x) <=> FitsOf(w, x)
    /\ \A w, x : Through(w, x) = ThroughOf(w, x) /\ Issues(w, x) = IssuesOf(w, x)
    /\ \A t, o : TsType(t, o) = TsTypeOf(t, o) /\ Schema(t, o) = SchemaOf(t, o)
    /\ \A t, o : Mcp(t, o) = McpOf(t, o)
    /\ \A t, way : Serde(t, way) = SerdeOf(t, way)
    /\ \A t, x : Errors(t, x) = ErrorsOf(t, x)
    /\ \A t : SubTypes(t) = SubTypesOf(t) /\ (Validates(t) <=> ValidatesOf(t))
=============================================================================
