---------------------------- MODULE Declarations ----------------------------
(***************************************************************************)
(* What the derives make of a type: Type reads `#[taut(..)]` for the IR,   *)
(* Validate for the server's checks, TautError for codes and statuses.     *)
(* All three read the same attributes, each its own keys.                  *)
(*                                                                         *)
(* An attribute is a sequence of arguments [key, form, n, lo, hi, s], the  *)
(* form "bare", "value" or "group"; a bound is a sequence of length 0 or 1.*)
(* A Rust type is a record whose k is its form:                            *)
(*   prim (p), option, vec and box (of), map (key, of), tuple (elems),     *)
(*   array (of, len), struct (fields), tupleStruct (elems), unitStruct,    *)
(*   enum (attrs, variants, and serde's tag and content key, or "none").   *)
(* A field is [ident, wire, attrs, ty], wire being serde's name for it; a  *)
(* variant [ident, wire, attrs, payload, elems, fields].                   *)
(***************************************************************************)
EXTENDS Integers, Sequences, SequencesExt

CONSTANTS
    Text,   \* primitives that are strings on the wire
    Wide    \* integers of 64 and 128 bits

\* The arguments of all attributes of an item, in order.
AllArgs(attrs) == FlattenSeq(attrs)

\* Where a key is given; the last of a repeated one counts.
Places(args, key) == {i \in DOMAIN args : args[i].key = key}
HasKey(args, key) == Places(args, key) # {}
LastWith(args, key) ==
    args[CHOOSE i \in Places(args, key) : \A j \in Places(args, key) : j <= i]

\* The value of the last argument with the key.
LastOf(args, key, default) ==
    IF HasKey(args, key) THEN LastWith(args, key).s ELSE default

-----------------------------------------------------------------------------
(* The form of an argument.                                                *)

ConstraintKeys == {"min", "max", "length", "pattern", "email", "url", "custom"}

FormOf(key) ==
    IF key \in {"optional", "undefined", "email", "url"} THEN "bare"
    ELSE IF key = "length" THEN "group" ELSE "value"

\* length() has a bound.
WellFormed(a) ==
    /\ a.form = FormOf(a.key)
    /\ a.key = "length" => a.lo \o a.hi # <<>>

\* Keys of TautError, whose value the Type derive passes over.
ErrorArg(a) == a.key \in {"code", "status"} /\ a.form # "group"

-----------------------------------------------------------------------------
(* #[derive(Type)].                                                        *)

\* FieldAttrs::parse, TypeAttrs::parse and VariantAttrs::parse refuse a key
\* they do not know.
TakenByField(a) ==
    \/ /\ a.key \in {"rename", "optional", "undefined"} \cup ConstraintKeys
       /\ WellFormed(a)
    \/ ErrorArg(a)
TakenByType(a)    == (a.key \in {"rename", "tag"} /\ WellFormed(a)) \/ ErrorArg(a)
TakenByVariant(a) == (a.key = "rename" /\ WellFormed(a)) \/ ErrorArg(a)

\* constraints_tokens: what the IR has of the constraint of an argument.
ConstraintOf(a) == [key |-> a.key, n |-> a.n, lo |-> a.lo, hi |-> a.hi]

Constraints(args) == {ConstraintOf(a) : a \in {a \in ToSet(args) : a.key \in ConstraintKeys}}

\* A field of the IR; all its constraints are kept, a repeated one too.
IrField(f) ==
    LET args == AllArgs(f.attrs)
    IN  [name |-> LastOf(args, "rename", f.ident),
         optional |-> HasKey(args, "optional"),
         undefined |-> HasKey(args, "undefined"),
         constraints |-> Constraints(args),
         wire |-> f.wire, ty |-> f.ty]

IrFields(fields) == [i \in DOMAIN fields |-> IrField(fields[i])]

\* expand_enum: the discriminant's key.
IrTag(t) == LastOf(AllArgs(t.attrs), "tag", "type")

\* expand_variant: the IR has the identifier, a rename is read and dropped.
IrVariant(v) ==
    [name |-> v.ident, payload |-> v.payload, elems |-> v.elems,
     fields |-> IrFields(v.fields)]

\* expand: what the derive refuses.
TypeExpands(t) ==
    LET Taken(attrs, Takes(_)) == \A i \in DOMAIN AllArgs(attrs) : Takes(AllArgs(attrs)[i])
        FieldsOk(fs) == \A i \in DOMAIN fs : Taken(fs[i].attrs, TakenByField)
    IN  CASE t.k = "struct" -> FieldsOk(t.fields)
          [] t.k = "enum" ->
                /\ Taken(t.attrs, TakenByType)
                /\ \A i \in DOMAIN t.variants :
                      /\ Taken(t.variants[i].attrs, TakenByVariant)
                      /\ FieldsOk(t.variants[i].fields)
          [] OTHER -> TRUE

-----------------------------------------------------------------------------
(* #[derive(Validate)].                                                    *)

\* consume_foreign takes `= ..` with all that follows in the attribute.
Swallows(a) == a.key \notin ConstraintKeys /\ a.form = "value"

\* What FieldConstraints::parse gets to see of an attribute.
Seen(attr) ==
    LET from == {i \in DOMAIN attr : Swallows(attr[i])}
    IN  IF from = {} THEN attr
        ELSE SubSeq(attr, 1, (CHOOSE i \in from : \A j \in from : i <= j))

SeenArgs(f) == FlattenSeq([i \in DOMAIN f.attrs |-> Seen(f.attrs[i])])

\* Mutant: the bounds are not looked for.
NoBounds(f) ==
    {a \in ToSet(SeenArgs(f)) :
        a.key \in ConstraintKeys \ {"custom", "min", "max", "length"}}

\* emit_field_checks and emit_variant_field_checks: one check for each key,
\* the last of a repeated one; custom emits nothing.
Checks(f) ==
    LET args == SeenArgs(f)
    IN  {LastWith(args, key) : key \in {k \in ConstraintKeys \ {"custom"} : HasKey(args, k)}}

\* FieldConstraints::parse refuses only a constraint of another form.
TakenByValidate(a) == a.key \in ConstraintKeys => WellFormed(a)

ValidateExpands(t) ==
    LET FieldsOk(fs) ==
            \A i \in DOMAIN fs : \A a \in ToSet(SeenArgs(fs[i])) : TakenByValidate(a)
    IN  CASE t.k = "struct" -> FieldsOk(t.fields)
          [] t.k = "enum" -> \A i \in DOMAIN t.variants : FieldsOk(t.variants[i].fields)
          [] OTHER -> TRUE

\* What the calls of a field's checks ask of its type: T: Into<f64>, .as_str().
ChecksCompile(f) ==
    \A a \in Checks(f) :
        /\ f.ty.k = "prim"
        /\ IF a.key \in {"min", "max"} THEN f.ty.p \notin Text \cup Wide \cup {"unit"}
           ELSE f.ty.p = "string"

-----------------------------------------------------------------------------
(* #[derive(TautError)].                                                   *)

\* The code of a variant; serde's snake_case name by default, which is its
\* wire name when the enum has rename_all.
CodeOf(v, snake) == LastOf(AllArgs(v.attrs), "code", snake)

\* The status of a variant.
StatusOf(v) ==
    LET args == AllArgs(v.attrs)
    IN  IF HasKey(args, "status") THEN LastWith(args, "status").n ELSE 400

\* VariantAttrs::parse passes over other keys one by one; a status has 16 bits.
TakenByError(a) ==
    a.key \in {"code", "status"} => a.form = "value" /\ (a.key = "status" => a.n < 2^16)

ErrorExpands(t) ==
    /\ t.k = "enum"
    /\ \A i \in DOMAIN t.variants :
          \A a \in ToSet(AllArgs(t.variants[i].attrs)) : TakenByError(a)
=============================================================================
