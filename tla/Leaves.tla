------------------------------- MODULE Leaves -------------------------------
(***************************************************************************)
(* Where the readings of a type end: what a primitive of Rust is to        *)
(* TypeScript, to the client's schema, to the manifest and to serde, what  *)
(* the way does to its values, and the checks of a field that has one.     *)
(*                                                                         *)
(* JSON and JavaScript values are records whose j is their form: null,     *)
(* undef, bool, num (n, and frac for n + 1/2), nan, big (n), str (s),      *)
(* arr (a), obj (o); those of the last two have values in them.            *)
(***************************************************************************)
EXTENDS Declarations

CONSTANTS
    IntRange,   \* integer primitive -> its values, in the scale of MaxSafe
    MaxSafe,    \* stands for 2^53: a number of JavaScript above it is even
    ToF32(_),  \* the number that f32 has next to a number
    Strings     \* name -> [units, chars, num, facts, client, server]: lengths in
                \* UTF-16 and in characters, its value if of digits, whether it
                \* is of digits or a uuid, the checks it passes on each side

Floats == {"f32", "f64"}
Primitives == {"bool", "unit"} \cup Floats \cup Text \cup DOMAIN IntRange

Null   == [j |-> "null"]
Undef  == [j |-> "undef"]
NaN    == [j |-> "nan"]
Num(n) == [j |-> "num", n |-> n, frac |-> FALSE]
Str(s) == [j |-> "str", s |-> s]
Big(n) == [j |-> "big", n |-> n]

\* The smallest integers are far below 2^53, and exact in an f32; no integer
\* has another's name.
ASSUME LeavesAssumption ==
    /\ Text = {"string", "uuid"}
    /\ Wide \subseteq DOMAIN IntRange
    /\ DOMAIN IntRange \cap {"bool", "unit", "f32", "f64", "float", "string", "uuid",
                             "boolean", "null", "number", "finite", "bigint", "toBigint", "integer",
                             "digits", "void", "never"} = {}
    /\ MaxSafe \in Int
    /\ \A s \in DOMAIN Strings : Strings[s].num \in Int
    /\ \E p \in DOMAIN IntRange : \A n \in IntRange[p] :
          n \in Int /\ n <= MaxSafe /\ ToF32(Num(n)) = Num(n)

\* The values that have no others in them.
LeafValues ==
    {Null, Undef, NaN, [j |-> "bool"]}
    \cup [j : {"num"}, n : Int, frac : BOOLEAN]
    \cup [j : {"big"}, n : Int]
    \cup [j : {"str"}, s : DOMAIN Strings]

-----------------------------------------------------------------------------
(* What the way does to them.                                              *)

\* The double next to an integer.
Round(n) == IF n <= MaxSafe THEN n ELSE n - (n % 2)

\* JSON.stringify, with HttpTransport's replacer.
JsonLeaf(x) ==
    CASE x.j = "big" -> Num(Round(x.n))
      [] x.j \in {"nan", "undef"} -> Null
      [] OTHER -> x

\* serde_json and then JSON.parse: a float that is not a number is written as
\* null.
ParsedLeaf(x) ==
    CASE x.j = "nan" -> Null
      [] x.j = "num" -> [x EXCEPT !.n = Round(@)]
      [] OTHER -> x

\* What a call without an input passes on.
Passed(x) == IF x = Undef THEN Null ELSE x

-----------------------------------------------------------------------------
(* The primitives in the four readings, each the name of a leaf.           *)

\* The values of a leaf; those that serde writes and reads have the names of
\* their primitives.
IsInt(x) == x.j = "num" /\ ~x.frac
FitsLeaf(leaf, x) ==
    CASE leaf = "boolean"  -> x.j = "bool"
      [] leaf = "number"   -> x.j \in {"num", "nan"}
      [] leaf = "finite"   -> x.j = "num"
      [] leaf = "bigint"   -> x.j = "big"
      [] leaf = "toBigint" -> x.j = "big" \/ IsInt(x)
                                \/ (x.j = "str" /\ "digits" \in Strings[x.s].facts)
      [] leaf = "integer"  -> IsInt(x)
      [] leaf = "digits"   -> x.j = "str" /\ "digits" \in Strings[x.s].facts
      [] leaf = "string"   -> x.j = "str"
      [] leaf = "uuid"     -> x.j = "str" /\ "uuid" \in Strings[x.s].facts
      [] leaf = "null"     -> x.j = "null"
      [] leaf = "void"     -> x.j \in {"undef", "null"}
      [] leaf = "float"    -> x.j \in {"num", "nan"}
      [] leaf = "never"    -> FALSE
      [] OTHER             -> IsInt(x) /\ x.n \in IntRange[leaf]

TsPrimitive(p, bigint) ==
    IF p \in Wide THEN IF bigint = "native" THEN "bigint" ELSE "string"
    ELSE IF p \in Text THEN "string"
    ELSE CASE p = "bool" -> "boolean" [] p = "unit" -> "void" [] OTHER -> "number"

\* Mutant: the schema of a wide integer is the plain one of its type.
PlainBigint(p, bigint) ==
    IF p \in Wide THEN IF bigint = "native" THEN "bigint" ELSE "string"
    ELSE IF p \in Text THEN "string"
    ELSE CASE p = "bool" -> "boolean" [] p = "unit" -> "null" [] OTHER -> "finite"

\* render_primitive_schema: a bigint is made of the number that JSON.parse
\* gives; number() refuses NaN.
SchemaPrimitive(p, bigint) ==
    IF p \in Wide THEN IF bigint = "native" THEN "toBigint" ELSE "string"
    ELSE IF p \in Text THEN "string"
    ELSE CASE p = "bool" -> "boolean" [] p = "unit" -> "null" [] OTHER -> "finite"

\* primitive_to_schema
McpPrimitive(p, bigint) ==
    IF p \in Wide THEN IF bigint = "native" THEN "integer" ELSE "digits"
    ELSE CASE p = "bool" -> "boolean" [] p \in Floats -> "finite"
           [] p = "unit" -> "null" [] OTHER -> p

\* What serde has of the two floats is written and read alike; an f32 stands
\* for the number that it is written as.
SerdePrimitive(p) ==
    CASE p = "bool" -> "boolean" [] p \in Floats -> "float"
      [] p = "unit" -> "null" [] OTHER -> p

\* What the parse of a leaf's schema returns for a value that fits.
ThroughLeaf(leaf, x) ==
    IF leaf = "toBigint"
    THEN IF x.j = "str" THEN Big(Strings[x.s].num) ELSE Big(x.n)
    ELSE x

-----------------------------------------------------------------------------
(* The checks of a field.                                                  *)

\* apply_valibot_constraints and apply_zod_constraints: min and max of a
\* string and custom checks become comments.
SchemaChecks(t, constraints) ==
    {c \in constraints :
        /\ c.key # "custom"
        /\ c.key \in {"min", "max"} => ~(t.k = "prim" /\ t.p \in Text)}

\* A check of a schema library, over a value that fits the base schema.
ClientCheck(c, x) ==
    LET length == IF x.j = "arr" THEN Len(x.a) ELSE Strings[x.s].units IN
    CASE c.key = "min" -> x.n >= c.n
      [] c.key = "max" -> x.n < c.n \/ (x.n = c.n /\ (x.j = "num" => ~x.frac))
      [] c.key = "length" -> /\ c.lo # <<>> => length >= c.lo[1]
                             /\ c.hi # <<>> => length <= c.hi[1]
      [] OTHER -> c.key \in Strings[x.s].client

\* validate::check, over a value that serde has decoded.
ServerCheck(c, x) ==
    LET length == Strings[x.s].chars IN
    CASE c.key = "min" -> x.n >= c.n
      [] c.key = "max" -> x.n < c.n \/ (x.n = c.n /\ ~x.frac)
      [] c.key = "length" -> /\ c.lo # <<>> => length >= c.lo[1]
                             /\ c.hi # <<>> => length <= c.hi[1]
      [] OTHER -> c.key \in Strings[x.s].server

\* serde narrows the number of an f32, and the check widens it back.
Decoded(t, x) ==
    IF t.k = "prim" /\ t.p = "f32" /\ x.j = "num" THEN ToF32(x) ELSE x

\* A check of a field on what is sent for it.
FieldCheck(f, c, x) == ServerCheck(c, Decoded(f.ty, x))

\* The errors of the named fields of o, at their identifiers; a field of a type
\* that has checks of its own is not looked into.
FieldErrors(fields, o) ==
    UNION {{<<<<fields[i].ident>>, c.key>> : c \in
               {c \in Checks(fields[i]) : ~FieldCheck(fields[i], c, o[fields[i].wire])}}
           : i \in {i \in DOMAIN fields : fields[i].wire \in DOMAIN o}}

PathsOf(errors) == {e[1] : e \in errors}

-----------------------------------------------------------------------------
(* Where the readings agree.                                               *)

\* The numbers every integer type has, and strings of one unit per character.
OrdinaryLeaf(x) ==
    CASE x.j = "num" -> ~x.frac /\ \A p \in DOMAIN IntRange : x.n \in IntRange[p]
      [] x.j = "big" -> \A p \in DOMAIN IntRange : x.n \in IntRange[p]
      [] x.j = "nan" -> FALSE
      [] x.j = "str" -> Strings[x.s].units = Strings[x.s].chars
      [] OTHER -> TRUE

\* uuid.rs parses what the generated type and schema take for any string;
\* serde has numbers where the client would have strings of digits.
PlainPrimitive(p, bigint) ==
    p \in Primitives \ {"uuid"} /\ (p \in Wide => bigint = "native")

\* A field whose constraints the client and the server read alike: the server
\* sees all its attributes, none is judged by different code or repeated or bounds
\* a boolean (which Rust takes for a number).
PlainField(f) ==
    LET cs == IrField(f).constraints IN
    /\ SeenArgs(f) = AllArgs(f.attrs)
    /\ \A c \in cs : c.key \in {"min", "max", "length", "custom"}
    /\ \A c, d \in cs : c.key = d.key => c = d
    /\ f.ty.k = "prim" /\ f.ty.p = "bool" => \A c \in cs : c.key = "custom"

\* What the field's schema lets through, and what the derived impl does.
ClientAccepts(f, x) ==
    \A c \in SchemaChecks(f.ty, IrField(f).constraints) : ClientCheck(c, x)
ServerAccepts(f, x) == \A c \in Checks(f) : FieldCheck(f, c, x)
=============================================================================
