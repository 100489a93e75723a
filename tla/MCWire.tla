------------------------------- MODULE MCWire -------------------------------
(***************************************************************************)
(* Wire for TLC: procedures over types of every form, some plain and some  *)
(* with the features on which the readings part.  2^53 stands at 4.        *)
(***************************************************************************)
EXTENDS WireInv, TLC

CONSTANTS
    Ints,       \* bound: the integers that are tried
    MaxItems    \* bound: elements of an array or a map that is tried

-----------------------------------------------------------------------------
(* The values of a view that are tried.                                    *)

Atoms ==
    {Null, Undef, NaN, [j |-> "bool"]}
    \cup {[j |-> "num", n |-> n, frac |-> f] : n \in Ints, f \in BOOLEAN}
    \cup {Big(n) : n \in Ints} \cup {Str(s) : s \in DOMAIN Strings}

RECURSIVE Sample(_), SampleParts(_, _)
\* The objects with these of the parts.
SampleParts(parts, from) ==
    IF from = {} THEN {<<>>}
    ELSE LET i == CHOOSE i \in from : TRUE
             rest == SampleParts(parts, from \ {i})
         IN  (IF parts[i].required THEN {} ELSE rest)
             \cup {(parts[i].name :> x) @@ o : x \in Sample(parts[i].view), o \in rest}

Sample(w) ==
    CASE w.v = "leaf" -> {x \in Atoms : FitsLeaf(w.leaf, x)} \ (IF w.leaf = "void" THEN {Null} ELSE {})
      [] w.v = "literal"   -> {Str(w.name)}
      [] w.v = "any"       -> Atoms \ {Undef, NaN}
      [] w.v = "undefined" -> {Undef} \cup Sample(w.of)
      [] w.v = "nullable"  -> {Null} \cup Sample(w.of)
      [] w.v = "array"     -> {Arr(a) : a \in UNION {[1..n -> Sample(w.of)] : n \in 0..MaxItems}}
      [] w.v = "tuple"     ->
            {Arr(a) : a \in {a \in [1..Len(w.items) -> UNION {Sample(w.items[i]) : i \in DOMAIN w.items}] :
                                \A i \in DOMAIN a : a[i] \in Sample(w.items[i])}}
      [] w.v = "record"    -> {Obj(o) : o \in UNION {[D -> Sample(w.of)] : D \in SUBSET {"k1"}}}
      [] w.v = "object"    -> {Obj(o) : o \in SampleParts(w.parts, DOMAIN w.parts)}
      [] w.v \in {"union", "oneOf"} -> UNION {Sample(w.items[i]) : i \in DOMAIN w.items}

-----------------------------------------------------------------------------
(* The readings: each constant has the operator with its name and Of as    *)
(* its value, in which the constant stands for the parts.  TLC follows     *)
(* definitions before it runs: what is RECURSIVE and behind a LET ends it. *)

RECURSIVE MCJson(_), MCParsed(_), MCOrdinary(_), MCFits(_, _), MCThrough(_, _), MCIssues(_, _)
RECURSIVE MCTsType(_, _), MCSchema(_, _), MCMcp(_, _), MCSerde(_, _), MCErrors(_, _)
RECURSIVE MCSubTypes(_), MCValidates(_)
MCJson(x) == LET whole == JsonOf(x) IN whole
MCParsed(x) == LET whole == ParsedOf(x) IN whole
MCOrdinary(x) == LET whole == OrdinaryOf(x) IN whole
MCFits(w, x) == LET whole == FitsOf(w, x) IN whole
MCThrough(w, x) == LET whole == ThroughOf(w, x) IN whole
MCIssues(w, x) == LET whole == IssuesOf(w, x) IN whole
MCTsType(t, o) == LET whole == TsTypeOf(t, o) IN whole
MCSchema(t, o) == LET whole == SchemaOf(t, o) IN whole
MCMcp(t, o) == LET whole == McpOf(t, o) IN whole
MCSerde(t, way) == LET whole == SerdeOf(t, way) IN whole
MCErrors(t, x) == LET whole == ErrorsOf(t, x) IN whole
MCSubTypes(t) == LET whole == SubTypesOf(t) IN whole
MCValidates(t) == LET whole == ValidatesOf(t) IN whole

-----------------------------------------------------------------------------
(* The procedures.                                                         *)

\* Arguments of #[taut(..)].
Arg(key, form) == [key |-> key, form |-> form, n |-> 0, lo |-> <<>>, hi |-> <<>>, s |-> "x"]
Value(key, n)  == [Arg(key, "value") EXCEPT !.n = n]
Text1(key, s)  == [Arg(key, "value") EXCEPT !.s = s]
Flag(key)      == Arg(key, "bare")
Length(lo, hi) == [Arg("length", "group") EXCEPT !.lo = lo, !.hi = hi]

\* Types.
P(p)       == [k |-> "prim", p |-> p]
Opt(t)     == [k |-> "option", of |-> t]
Vec(t)     == [k |-> "vec", of |-> t]
MapOf(s, t) == [k |-> "map", key |-> s, of |-> t]
Tup(ts)    == [k |-> "tuple", elems |-> ts]
Array(t, n) == [k |-> "array", of |-> t, len |-> n]
Struct(fs) == [k |-> "struct", fields |-> fs]
TupleStruct(ts) == [k |-> "tupleStruct", elems |-> ts]
Field(name, t, attrs) == [ident |-> name, wire |-> name, attrs |-> attrs, ty |-> t]
Enum(tag, content, attrs, vs) ==
    [k |-> "enum", tag |-> tag, content |-> content, attrs |-> attrs, variants |-> vs]
Variant(name, payload, elems, fields) ==
    [ident |-> name, wire |-> name, snake |-> "e1", attrs |-> <<>>,
     payload |-> payload, elems |-> elems, fields |-> fields]
Unit(name) == Variant(name, "unit", <<>>, <<>>)

Inner == Struct(<<Field("x", P("u8"), <<<<Value("min", 1)>>>>)>>)
Plain == Struct(<<Field("x", Opt(P("u8")), <<>>), Field("y", P("string"), <<>>)>>)
Bounded ==
    Struct(<<Field("x", P("f64"), <<<<Value("min", 1)>>, <<Flag("code"), Value("max", 2)>>>>),
             Field("y", P("string"), <<<<Length(<<2>>, <<2>>), Text1("custom", "f")>>>>)>>)
Single32 ==
    Struct(<<Field("x", P("f32"), <<<<Value("min", 5)>>>>),
             Field("y", P("f32"), <<<<Value("max", 2)>>>>)>>)
\* Constraints on which the two sides part.
Searched == Struct(<<Field("q", P("string"), <<<<Flag("email")>>, <<Flag("url")>>>>)>>)
Twice == Struct(<<Field("x", P("u8"), <<<<Value("min", 3), Value("min", 1)>>>>)>>)
Renamed ==
    Struct(<<[Field("x", P("u8"), <<<<Text1("rename", "z"), Value("min", 2)>>>>)
                EXCEPT !.wire = "z"]>>)
Apart ==
    Struct(<<[Field("x", P("u8"), <<<<Text1("rename", "z")>>, <<Value("min", 2)>>>>)
                EXCEPT !.wire = "z"]>>)
\* Fields whose generated type is not what the server takes.
Misnamed == Struct(<<Field("x", P("u8"), <<<<Text1("rename", "z")>>>>)>>)
Absent == Struct(<<Field("x", Opt(P("u8")), <<<<Flag("optional"), Flag("undefined")>>>>)>>)
NeverAbsent == Struct(<<Field("x", P("u8"), <<<<Flag("optional")>>>>)>>)
WithUnit == Struct(<<Field("y", P("unit"), <<>>)>>)
NotOptional == Struct(<<Field("x", P("u8"), <<<<Flag("undefined")>>>>)>>)
\* Two fields under one name.
Clash ==
    Struct(<<Field("x", P("u64"), <<>>),
             [Field("z", P("u8"), <<<<Text1("rename", "x")>>>>) EXCEPT !.wire = "x"]>>)
Long == Struct(<<Field("r", Array(P("bool"), 2), <<>>)>>)
\* Enums as serde tags them.
Moved == Variant("Moved", "struct", <<>>, <<Field("x", P("u8"), <<<<Value("max", 2)>>>>)>>)
Two(t) == Variant("Two", "tuple", <<t, P("bool")>>, <<>>)
Event  == Enum("type", "none", <<>>, <<Unit("Left"), Moved>>)
Pair   == Enum("kind", "payload", <<<<Text1("tag", "kind")>>>>, <<Unit("None"), Two(P("u64"))>>)
Single == Enum("type", "payload", <<>>, <<Variant("One", "tuple", <<P("u8")>>, <<>>)>>)
External == Enum("none", "none", <<>>, <<Unit("Away"), Moved>>)
Content  == Enum("type", "data", <<>>, <<Two(P("bool"))>>)
InContent == Enum("type", "payload", <<>>, <<Moved>>)

Failure ==
    Enum("code", "payload", <<<<Text1("tag", "code")>>>>,
         <<[Unit("Gone") EXCEPT !.attrs = <<<<Value("status", 410), Text1("code", "gone")>>>>],
           Variant("Busy", "tuple", <<P("u8"), P("u8")>>, <<>>)>>)
Wider == [Failure EXCEPT !.variants = <<Two(P("u64"))>>]
\* With serde's rename_all.
Snaky == Enum("type", "payload", <<>>, <<[Unit("Lost") EXCEPT !.wire = "lost"]>>)

Proc(i, o) == [input |-> i, output |-> o, error |-> Failure]

MCProcedures ==
    "plain"  :> Proc(Plain, Vec(Plain)) @@
    "bound"  :> Proc(Bounded, Bounded) @@
    "wide"   :> [Proc(Pair, P("u64")) EXCEPT !.error = Wider] @@
    "event"  :> Proc(Event, Pair) @@
    "list"   :> Proc(Vec(Inner), MapOf(P("string"), P("u64"))) @@
    "maps"   :> Proc(MapOf(P("string"), Inner), Event) @@
    "pairs"  :> Proc(Tup(<<Inner, P("bool")>>), Tup(<<P("u64"), Opt(P("bool"))>>)) @@
    "keyed"  :> Proc(MapOf(P("u8"), P("bool")), MapOf(P("u8"), P("bool"))) @@
    "search" :> Proc(Searched, P("unit")) @@
    "twice"  :> [Proc(Twice, P("unit")) EXCEPT !.error = Snaky] @@
    "none"   :> Proc(P("unit"), P("f64")) @@
    "rename" :> Proc(Renamed, P("bool")) @@
    "apart"  :> Proc(Apart, P("bool")) @@
    "misnamed" :> Proc(Misnamed, P("bool")) @@
    "nested" :> Proc(Struct(<<Field("in", Inner, <<>>)>>), TupleStruct(<<P("u64")>>)) @@
    "absent" :> Proc(Absent, Absent) @@
    "never"  :> Proc(NeverAbsent, P("bool")) @@
    "unit"   :> Proc(WithUnit, WithUnit) @@
    "long"   :> Proc(Long, Array(P("bool"), 1)) @@
    "single" :> Proc(Single, Single) @@
    "external" :> Proc(External, External) @@
    "content"  :> Proc(Content, P("bool")) @@
    "tagged"   :> Proc([Event EXCEPT !.attrs = <<<<Text1("tag", "kind")>>>>], P("bool")) @@
    "inside"   :> Proc(InContent, P("bool")) @@
    "opts"   :> Proc(Opt(Opt(P("string"))), Array(P("bool"), 2)) @@
    "ids"    :> Proc(Struct(<<Field("y", P("uuid"), <<>>)>>), Opt(Plain)) @@
    "id"     :> Proc(P("uuid"), P("bool")) @@
    "five"   :> Proc(Tup([i \in 1..5 |-> P("bool")]), P("bool")) @@
    "single32" :> Proc(Single32, P("f32")) @@
    "units"  :> Proc([k |-> "unitStruct"], TupleStruct(<<>>)) @@
    "array"  :> Proc(Array(P("bool"), 1), P("bool")) @@
    "odd"    :> Proc(Struct(<<Field("x", P("u8"), <<<<Flag("huh")>>>>)>>), P("bool")) @@
    "undef"  :> Proc(NotOptional, P("bool")) @@
    "clash"  :> Proc(P("bool"), Clash) @@
    "wrapped" :> Proc(TupleStruct(<<Inner>>), P("bool")) @@
    "carried" :> Proc([Content EXCEPT !.content = "payload", !.variants = <<Two(Inner)>>], P("bool")) @@
    "cmp"    :> Proc(Struct(<<Field("x", Opt(P("u8")), <<<<Value("min", 1)>>>>)>>), P("bool"))

OnlyRenamed == "rename" :> MCProcedures["rename"]

Native(validator) == [validator |-> validator, bigint |-> "native", undefined |-> TRUE]
AllOptions ==
    {Native("valibot"), Native("none"),
     [Native("valibot") EXCEPT !.bigint = "asString", !.undefined = FALSE]}
Defaults == {Native("valibot")}

\* Above 3 an f32 has the even numbers only.
MCToF32(x) ==
    IF x.n <= 3 THEN x ELSE [x EXCEPT !.n = @ - (@ % 2), !.frac = FALSE]

MCIntRange == "u8" :> 0..3 @@ "u64" :> 0..5

S(units, chars, facts) ==
    [units |-> units, chars |-> chars, num |-> 5, facts |-> facts,
     client |-> {}, server |-> {}]
MCStrings ==
    "e"    :> S(0, 0, {}) @@
    "5"    :> S(1, 1, {"digits"}) @@
    "mail" :> [S(2, 2, {}) EXCEPT !.client = {"email", "url"}, !.server = {"email"}] @@
    "link" :> [S(3, 3, {}) EXCEPT !.client = {"url"}, !.server = {"url", "email"}] @@
    "id"   :> S(3, 3, {"uuid"}) @@
    "astral" :> S(2, 1, {}) @@
    [s \in {"Left", "Moved", "None", "Two", "One", "Away", "Gone",
            "Busy", "Lost", "lost"} |-> S(4, 4, {})]
=============================================================================
