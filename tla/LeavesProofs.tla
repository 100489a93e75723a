---------------------------- MODULE LeavesProofs ----------------------------
(***************************************************************************)
(* What holds of every field, whatever its attributes, and of every        *)
(* primitive: the derives agree on what a field declares, the client's     *)
(* checks on what the server's let through, and the readings of a          *)
(* primitive on its values.                                                *)
(***************************************************************************)
EXTENDS Leaves, SequenceTheorems, WellFoundedInduction, TLAPS

-----------------------------------------------------------------------------
(* Induction over the natural numbers, for sets.                           *)

\* Every nonempty set of natural numbers has a least element.
LEMMA LeastExists ==
    ASSUME NEW T, T \subseteq Nat, T # {}
    PROVE  \E x \in T : \A y \in T : x <= y
<1> DEFINE R == {p \in Nat \X Nat : p[1] < p[2]}
<1>1. IsWellFoundedOn(R, Nat)
  BY NatLessThanWellFounded DEF OpToRel
<1>2. \A x, y \in Nat : x < y => <<x, y>> \in R
  OBVIOUS
<1> HIDE DEF R
<1>3. PICK x \in T : \A y \in T : ~(<<y, x>> \in R)
  BY <1>1, WFMin, Zenon
<1>4. ASSUME NEW y \in T PROVE x <= y
  <2>1. x \in Nat /\ y \in Nat /\ ~(y < x)
    BY <1>2, <1>3
  <2> QED BY <2>1
<1> HIDE DEF R
<1>5. x \in T /\ \A y \in T : x <= y
  BY <1>4
<1> QED BY <1>5, Zenon

\* A set that has 0 and the successors of its members has every number.
LEMMA SetInduction ==
    ASSUME NEW T, 0 \in T, \A n \in Nat : n \in T => n + 1 \in T
    PROVE  Nat \subseteq T
<1> SUFFICES ASSUME Nat \ T # {} PROVE FALSE
  OBVIOUS
<1>1. PICK x \in Nat \ T : \A y \in Nat \ T : x <= y
  BY LeastExists
<1>2. x - 1 \in Nat /\ x - 1 < x /\ x - 1 + 1 = x
  BY <1>1
<1> QED BY <1>1, <1>2

-----------------------------------------------------------------------------
(* Sequences of arguments.                                                 *)

\* The recursive function inside FlattenSeq is one: it satisfies its equation.
LEMMA FlattenDefined ==
    ASSUME NEW S, NEW ss \in Seq(Seq(S))
    PROVE  \E g : g = [i \in 1..Len(ss) |-> IF i = 1 THEN ss[i] ELSE g[i-1] \o ss[i]]
<1> DEFINE Upto(k) ==
             \E g : g = [i \in 1..k |-> IF i = 1 THEN ss[i] ELSE g[i-1] \o ss[i]]
           T == {k \in Nat : Upto(k)}
<1>1. Upto(0)
  <2> DEFINE g == [i \in 1..0 |-> ss[i]]
  <2>1. g = [i \in 1..0 |-> IF i = 1 THEN ss[i] ELSE g[i-1] \o ss[i]]
    OBVIOUS
  <2> QED BY <2>1
<1>2. ASSUME NEW k \in Nat, Upto(k) PROVE Upto(k + 1)
  <2>1. PICK g : g = [i \in 1..k |-> IF i = 1 THEN ss[i] ELSE g[i-1] \o ss[i]]
    BY <1>2
  <2> DEFINE last == IF k = 0 THEN ss[1] ELSE g[k] \o ss[k + 1]
             h == [i \in 1..(k + 1) |-> IF i <= k THEN g[i] ELSE last]
  <2>2. ASSUME NEW i \in 1..(k + 1)
        PROVE  h[i] = IF i = 1 THEN ss[i] ELSE h[i-1] \o ss[i]
    <3>1. CASE i <= k
      <4>1. g[i] = IF i = 1 THEN ss[i] ELSE g[i-1] \o ss[i]
        <5> DEFINE gg == [m \in 1..k |-> IF m = 1 THEN ss[m] ELSE g[m-1] \o ss[m]]
        <5>1. i \in 1..k
          BY <3>1
        <5>2. gg[i] = IF i = 1 THEN ss[i] ELSE g[i-1] \o ss[i]
          BY <5>1
        <5>3. g = gg
          BY <2>1, Zenon
        <5> QED BY <5>2, <5>3, Zenon
      <4>2. h[i] = g[i]
        BY <3>1
      <4>3. i # 1 => h[i-1] = g[i-1]
        <5>1. i # 1 => i - 1 \in 1..(k + 1) /\ i - 1 <= k
          BY <3>1
        <5> QED BY <5>1
      <4> HIDE DEF h
      <4> QED BY <4>1, <4>2, <4>3
    <3>2. CASE i = k + 1
      <4>1. h[i] = last
        BY <3>2
      <4>2. i # 1 => h[i-1] = g[k]
        <5>1. i # 1 => i - 1 \in 1..(k + 1) /\ i - 1 <= k /\ i - 1 = k
          BY <3>2
        <5> QED BY <5>1
      <4> HIDE DEF h
      <4> QED BY <4>1, <4>2, <3>2
    <3> QED BY <3>1, <3>2
  <2>3. h = [i \in 1..(k + 1) |-> IF i = 1 THEN ss[i] ELSE h[i-1] \o ss[i]]
    <3> DEFINE hh == [i \in 1..(k + 1) |-> IF i = 1 THEN ss[i] ELSE h[i-1] \o ss[i]]
    <3>1. DOMAIN h = 1..(k + 1) /\ h = [i \in DOMAIN h |-> h[i]]
      OBVIOUS
    <3>2. \A i \in 1..(k + 1) : h[i] = hh[i]
      BY <2>2
    <3> HIDE DEF h
    <3> QED BY <3>1, <3>2
  <2> QED BY <2>3
<1>3. \A k \in Nat : k \in T => k + 1 \in T
  <2> HIDE DEF Upto
  <2> QED BY <1>2
<1>4. 0 \in T
  BY <1>1
<1> HIDE DEF T
<1>5. Nat \subseteq T
  BY <1>3, <1>4, SetInduction
<1> QED BY <1>5, LenProperties DEF T

\* FlattenSeq has the elements of its parts.
LEMMA FlattenIs ==
    ASSUME NEW S, NEW ss \in Seq(Seq(S))
    PROVE  /\ FlattenSeq(ss) \in Seq(S)
           /\ ToSet(FlattenSeq(ss)) = UNION {ToSet(ss[i]) : i \in DOMAIN ss}
<1> DEFINE flatten == CHOOSE g : g = [i \in 1..Len(ss) |->
                                        IF i = 1 THEN ss[i] ELSE g[i-1] \o ss[i]]
           n == Len(ss)
<1>0. n \in Nat /\ DOMAIN ss = 1..n /\ \A i \in 1..n : ss[i] \in Seq(S)
  OBVIOUS
<1>1. FlattenSeq(ss) = IF n = 0 THEN ss ELSE flatten[n]
  BY DEF FlattenSeq
<1>2. flatten = [i \in 1..n |-> IF i = 1 THEN ss[i] ELSE flatten[i-1] \o ss[i]]
  BY FlattenDefined
<1> HIDE DEF flatten, n
\* What the equation says of one index.
<1>5. ASSUME NEW i \in 1..n
      PROVE  flatten[i] = IF i = 1 THEN ss[i] ELSE flatten[i-1] \o ss[i]
  <2> DEFINE ff == [m \in 1..n |-> IF m = 1 THEN ss[m] ELSE flatten[m-1] \o ss[m]]
  <2>1. ff[i] = IF i = 1 THEN ss[i] ELSE flatten[i-1] \o ss[i]
    OBVIOUS
  <2>2. flatten = ff
    BY <1>2, Zenon
  <2> QED BY <2>1, <2>2, Zenon
<1>3. CASE n = 0
  <2>1. FlattenSeq(ss) = ss /\ ss = <<>>
    BY <1>1, <1>3 DEF n
  <2>2. ToSet(<<>>) = {} /\ DOMAIN <<>> = {}
    BY DEF ToSet
  <2>3. UNION {ToSet(ss[i]) : i \in DOMAIN ss} = {}
    BY <2>1, <2>2
  <2> QED BY <2>1, <2>2, <2>3
<1>4. CASE n # 0
  <2> DEFINE Good(k) == /\ flatten[k] \in Seq(S)
                        /\ ToSet(flatten[k]) = UNION {ToSet(ss[i]) : i \in 1..k}
             T == {k \in Nat : k < n => Good(k + 1)}
  <2>1. Good(1)
    <3>1. flatten[1] = ss[1]
      BY <1>5, <1>4, <1>0
    <3> QED BY <3>1, <1>4, <1>0
  <2>2. ASSUME NEW k \in Nat \ {0}, k < n, Good(k)
        PROVE  Good(k + 1)
    <3>1. flatten[k + 1] = flatten[k] \o ss[k + 1]
      <4> DEFINE m == k + 1
      <4>1. m \in 1..n /\ m # 1 /\ m - 1 = k
        BY <1>0, <2>2
      <4> HIDE DEF m
      <4>2. flatten[m] = flatten[m - 1] \o ss[m]
        BY <1>5, <4>1
      <4>3. flatten[m] = flatten[k] \o ss[m]
        BY <4>1, <4>2, Zenon
      <4> QED BY <4>3 DEF m
    <3>2. ss[k + 1] \in Seq(S)
      BY <1>0, <2>2
    <3>3. ToSet(flatten[k] \o ss[k + 1]) = ToSet(flatten[k]) \cup ToSet(ss[k + 1])
      <4>1. \A s : Range(s) = ToSet(s)
        BY DEF Range, ToSet
      <4>2. flatten[k] \in Seq(S)
        BY <2>2
      <4> QED BY <3>2, <4>1, <4>2, RangeConcatenation
    <3>4. 1..(k + 1) = 1..k \cup {k + 1}
      OBVIOUS
    <3>5. flatten[k + 1] \in Seq(S)
      BY <3>1, <3>2, <2>2
    <3>6. ToSet(flatten[k + 1]) = (UNION {ToSet(ss[i]) : i \in 1..k}) \cup ToSet(ss[k + 1])
      BY <3>1, <3>3, <2>2
    <3>7. UNION {ToSet(ss[i]) : i \in 1..(k + 1)}
          = (UNION {ToSet(ss[i]) : i \in 1..k}) \cup ToSet(ss[k + 1])
      BY <3>4, Zenon
    <3> QED BY <3>5, <3>6, <3>7
  <2>3. 0 \in T
    BY <2>1
  <2>4. \A k \in Nat : k \in T => k + 1 \in T
    <3> HIDE DEF Good
    <3>1. ASSUME NEW k \in Nat, k \in T, k + 1 < n PROVE Good(k + 1 + 1)
      <4>1. k + 1 \in Nat \ {0} /\ k < n
        BY <1>0, <3>1
      <4>2. Good(k + 1)
        BY <3>1, <4>1
      <4> QED BY <2>2, <3>1, <4>1, <4>2
    <3> QED BY <3>1
  <2> HIDE DEF T
  <2>5. n - 1 \in T
    <3>1. n - 1 \in Nat
      BY <1>0, <1>4
    <3>2. Nat \subseteq T
      BY <2>3, <2>4, SetInduction
    <3> QED BY <3>1, <3>2
  <2>6. Good(n)
    <3> HIDE DEF Good
    <3>1. n - 1 \in Nat /\ n - 1 < n /\ n - 1 + 1 = n
      BY <1>0, <1>4
    <3> QED BY <2>5, <3>1 DEF T
  <2> QED BY <2>6, <1>0, <1>1, <1>4
<1> QED BY <1>3, <1>4
-----------------------------------------------------------------------------
(* What the derives take of a field.                                       *)

\* The attributes of an item: each a sequence of arguments.
AttributesOver(S) == Seq(Seq(S))

\* The last argument with a key is there, when one is.
LEMMA LastWithIs ==
    ASSUME NEW S, NEW args \in Seq(S), NEW key, HasKey(args, key)
    PROVE  /\ LastWith(args, key) \in ToSet(args)
           /\ LastWith(args, key).key = key
<1> DEFINE P == Places(args, key)
           n == Len(args)
           T == {n - i : i \in P}
<1>1. n \in Nat /\ DOMAIN args = 1..n /\ P \subseteq 1..n /\ P # {}
  BY DEF HasKey, Places
<1> HIDE DEF P, n
<1>2. T \subseteq Nat /\ T # {}
  <2>1. \A i \in P : n - i \in Nat
    BY <1>1
  <2>2. T # {}
    BY <1>1
  <2> QED BY <2>1, <2>2
<1>3. PICK t \in T : \A y \in T : t <= y
  BY <1>2, LeastExists
<1>4. PICK i \in P : t = n - i
  BY <1>3
<1>5. \A j \in P : j <= i
  <2> SUFFICES ASSUME NEW j \in P PROVE j <= i
    OBVIOUS
  <2>1. n - j \in T
    OBVIOUS
  <2>2. n - i <= n - j
    BY <1>3, <1>4, <2>1
  <2> QED BY <1>1, <2>2
<1> DEFINE last == CHOOSE x \in P : \A j \in P : j <= x
<1>6. last \in P
  BY <1>5
<1>7. LastWith(args, key) = args[last]
  BY DEF LastWith, P
<1> HIDE DEF last
<1> QED BY <1>6, <1>7, <1>1 DEF ToSet, P, Places

\* A key of an argument is found.
LEMMA KeyFound ==
    ASSUME NEW args, NEW a \in ToSet(args)
    PROVE  HasKey(args, a.key)
BY DEF ToSet, HasKey, Places

\* What the Validate derive sees of an attribute is a beginning of it, and all
\* that comes before the first foreign key with a value.
LEMMA SeenIs ==
    ASSUME NEW S, NEW attr \in Seq(S)
    PROVE  /\ Seen(attr) \in Seq(S)
           /\ ToSet(Seen(attr)) \subseteq ToSet(attr)
           /\ \A k \in DOMAIN attr :
                 (\A i \in 1..(k - 1) : ~Swallows(attr[i])) => attr[k] \in ToSet(Seen(attr))
<1> DEFINE from == {i \in DOMAIN attr : Swallows(attr[i])}
           n == Len(attr)
<1>1. n \in Nat /\ DOMAIN attr = 1..n
  OBVIOUS
<1>2. CASE from = {}
  <2>1. Seen(attr) = attr
    BY <1>2 DEF Seen
  <2> QED BY <2>1 DEF ToSet
<1>3. CASE from # {}
  <2> DEFINE first == CHOOSE i \in from : \A j \in from : i <= j
  <2>1. from \subseteq Nat /\ from \subseteq 1..n
    BY <1>1
  <2> HIDE DEF from
  <2>2. first \in from /\ \A j \in from : first <= j
    <3>1. \E i \in from : \A j \in from : i <= j
      BY <1>3, <2>1, LeastExists
    <3> QED BY <3>1
  <2>3. Seen(attr) = SubSeq(attr, 1, first)
    BY <1>3 DEF Seen, from
  <2> HIDE DEF first
  <2>4. first \in 1..n
    BY <2>1, <2>2
  <2> HIDE DEF n
  <2>5. /\ SubSeq(attr, 1, first) \in Seq(S)
        /\ DOMAIN SubSeq(attr, 1, first) = 1..first
        /\ \A i \in 1..first : SubSeq(attr, 1, first)[i] = attr[i]
    BY <1>1, <2>4
  <2>6. ToSet(SubSeq(attr, 1, first)) = {attr[i] : i \in 1..first}
    BY <2>5 DEF ToSet
  <2>7. \A i \in 1..first : i \in 1..n
    BY <2>4, <1>1
  <2>8. ASSUME NEW k \in DOMAIN attr, \A i \in 1..(k - 1) : ~Swallows(attr[i])
        PROVE  k \in 1..first
    <3>1. first \notin 1..(k - 1)
      BY <2>2, <2>8 DEF from
    <3> QED BY <3>1, <2>4, <1>1
  <2> QED BY <2>3, <2>5, <2>6, <2>7, <2>8, <1>1 DEF ToSet
<1> QED BY <1>2, <1>3

\* What the derives have of a field: of the arguments of all its attributes, the
\* Type derive each, the Validate derive those it sees of each attribute.
LEMMA ArgsAre ==
    ASSUME NEW S, NEW f, f.attrs \in AttributesOver(S)
    PROVE  /\ AllArgs(f.attrs) \in Seq(S) /\ SeenArgs(f) \in Seq(S)
           /\ ToSet(AllArgs(f.attrs)) = UNION {ToSet(f.attrs[i]) : i \in DOMAIN f.attrs}
           /\ ToSet(SeenArgs(f)) = UNION {ToSet(Seen(f.attrs[i])) : i \in DOMAIN f.attrs}
           /\ ToSet(SeenArgs(f)) \subseteq ToSet(AllArgs(f.attrs))
<1> DEFINE attrs == f.attrs
           seen == [i \in DOMAIN attrs |-> Seen(attrs[i])]
<1>1. attrs \in Seq(Seq(S)) /\ \A i \in DOMAIN attrs : attrs[i] \in Seq(S)
  BY DEF AttributesOver
<1> HIDE DEF attrs
<1>2. \A i \in DOMAIN attrs : Seen(attrs[i]) \in Seq(S) /\ ToSet(Seen(attrs[i])) \subseteq ToSet(attrs[i])
  BY <1>1, SeenIs
<1>3. seen \in Seq(Seq(S)) /\ DOMAIN seen = DOMAIN attrs
  BY <1>1, <1>2
<1>4. AllArgs(attrs) \in Seq(S) /\ ToSet(AllArgs(attrs)) = UNION {ToSet(attrs[i]) : i \in DOMAIN attrs}
  BY <1>1, FlattenIs DEF AllArgs
<1>5. SeenArgs(f) = FlattenSeq(seen)
  BY DEF SeenArgs, attrs
<1>6. \A i \in DOMAIN attrs : seen[i] = Seen(attrs[i])
  OBVIOUS
<1> HIDE DEF seen
<1>7. SeenArgs(f) \in Seq(S) /\ ToSet(SeenArgs(f)) = UNION {ToSet(seen[i]) : i \in DOMAIN seen}
  BY <1>3, <1>5, FlattenIs
<1>8. ToSet(SeenArgs(f)) = UNION {ToSet(Seen(attrs[i])) : i \in DOMAIN attrs}
  BY <1>3, <1>6, <1>7
<1> QED BY <1>2, <1>4, <1>7, <1>8 DEF attrs

\* derive_validate.rs:216-283, derive_type.rs:564-620: the server checks nothing of
\* a field that its IR does not declare, and never calls a custom check itself.
THEOREM ChecksAreDeclared ==
    ASSUME NEW S, NEW f, f.attrs \in AttributesOver(S)
    PROVE  \A c \in Checks(f) :
              c.key # "custom" /\ ConstraintOf(c) \in IrField(f).constraints
<1> DEFINE args == AllArgs(f.attrs)
           seen == SeenArgs(f)
<1>1. seen \in Seq(S) /\ ToSet(seen) \subseteq ToSet(args)
  BY ArgsAre
<1>2. IrField(f).constraints = Constraints(args)
  BY DEF IrField
<1>3. Checks(f) = {LastWith(seen, key) : key \in {k \in ConstraintKeys \ {"custom"} : HasKey(seen, k)}}
  BY DEF Checks
<1> HIDE DEF args, seen
<1>4. ASSUME NEW key \in ConstraintKeys \ {"custom"}, HasKey(seen, key)
      PROVE  /\ LastWith(seen, key).key # "custom"
             /\ ConstraintOf(LastWith(seen, key)) \in Constraints(args)
  <2> DEFINE c == LastWith(seen, key)
  <2>1. c \in ToSet(args) /\ c.key = key
    BY <1>1, <1>4, LastWithIs
  <2> HIDE DEF c
  <2>2. c.key # "custom" /\ ConstraintOf(c) \in Constraints(args)
    BY <2>1 DEF Constraints
  <2> QED BY <2>2 DEF c
<1> QED BY <1>2, <1>3, <1>4

\* derive_validate.rs:377-452, 533-560: a constraint is checked unless a foreign
\* key with a value comes before it in its attribute; a key that is given once is
\* checked with the bound it has.
THEOREM DeclaredIsChecked ==
    ASSUME NEW S, NEW f, f.attrs \in AttributesOver(S),
           NEW i \in DOMAIN f.attrs, NEW k \in DOMAIN f.attrs[i],
           f.attrs[i][k].key \in ConstraintKeys \ {"custom"},
           \A j \in 1..(k - 1) : ~Swallows(f.attrs[i][j])
    PROVE  /\ \E c \in Checks(f) : c.key = f.attrs[i][k].key
           /\ (\A b \in ToSet(AllArgs(f.attrs)) :
                  b.key = f.attrs[i][k].key => b = f.attrs[i][k])
              => f.attrs[i][k] \in Checks(f)
<1> DEFINE args == AllArgs(f.attrs)
           seen == SeenArgs(f)
           a == f.attrs[i][k]
           c == LastWith(seen, a.key)
<1>1. f.attrs[i] \in Seq(S)
  BY DEF AttributesOver
<1>2. a \in ToSet(Seen(f.attrs[i]))
  BY <1>1, SeenIs
<1>3. seen \in Seq(S) /\ ToSet(seen) \subseteq ToSet(args) /\ a \in ToSet(seen)
  BY <1>2, ArgsAre
<1>4. Checks(f) = {LastWith(seen, key) : key \in {x \in ConstraintKeys \ {"custom"} : HasKey(seen, x)}}
  BY DEF Checks
<1>0. a.key \in ConstraintKeys \ {"custom"}
  OBVIOUS
<1> HIDE DEF args, seen, a
<1>5. HasKey(seen, a.key)
  BY <1>3, KeyFound
<1>6. c \in ToSet(args) /\ c.key = a.key
  BY <1>3, <1>5, LastWithIs
<1>7. c \in Checks(f)
  BY <1>0, <1>4, <1>5
<1> QED BY <1>6, <1>7 DEF args, a

\* A struct or an enum, as far as the derives look at it.
Fields(t)   == IF t.k = "struct" THEN {t.fields} ELSE {t.variants[i].fields : i \in DOMAIN t.variants}
Declared(t) ==
    /\ t.k \in {"struct", "enum"}
    /\ \A fs \in Fields(t) : \A i \in DOMAIN fs : \E S : fs[i].attrs \in AttributesOver(S)

\* derive_type.rs:421-482, derive_validate.rs:377-452: where the Type derive
\* expands, the Validate derive does: it refuses no attribute that Type takes.
THEOREM TypeImpliesValidate ==
    ASSUME NEW t, Declared(t), TypeExpands(t)
    PROVE  ValidateExpands(t)
<1>1. ASSUME NEW f, NEW S, f.attrs \in AttributesOver(S),
             \A i \in DOMAIN AllArgs(f.attrs) : TakenByField(AllArgs(f.attrs)[i])
      PROVE  \A a \in ToSet(SeenArgs(f)) : TakenByValidate(a)
  <2> SUFFICES ASSUME NEW a \in ToSet(SeenArgs(f)) PROVE TakenByValidate(a)
    OBVIOUS
  <2>1. a \in ToSet(AllArgs(f.attrs))
    BY <1>1, ArgsAre
  <2>2. TakenByField(a)
    BY <1>1, <2>1 DEF ToSet
  <2> QED BY <2>2 DEF TakenByField, ErrorArg, TakenByValidate, ConstraintKeys
<1>2. CASE t.k = "struct"
  <2>1. \A i \in DOMAIN t.fields : \E S : t.fields[i].attrs \in AttributesOver(S)
    BY <1>2 DEF Declared, Fields
  <2>2. \A i \in DOMAIN t.fields : \A j \in DOMAIN AllArgs(t.fields[i].attrs) :
           TakenByField(AllArgs(t.fields[i].attrs)[j])
    BY <1>2 DEF TypeExpands
  <2>3. \A i \in DOMAIN t.fields : \A a \in ToSet(SeenArgs(t.fields[i])) : TakenByValidate(a)
    BY <1>1, <2>1, <2>2
  <2> QED BY <1>2, <2>3 DEF ValidateExpands
<1>3. CASE t.k = "enum"
  <2>1. \A v \in DOMAIN t.variants : \A i \in DOMAIN t.variants[v].fields :
           \E S : t.variants[v].fields[i].attrs \in AttributesOver(S)
    BY <1>3 DEF Declared, Fields
  <2>2. \A v \in DOMAIN t.variants : \A i \in DOMAIN t.variants[v].fields :
           \A j \in DOMAIN AllArgs(t.variants[v].fields[i].attrs) :
              TakenByField(AllArgs(t.variants[v].fields[i].attrs)[j])
    BY <1>3 DEF TypeExpands
  <2>3. \A v \in DOMAIN t.variants : \A i \in DOMAIN t.variants[v].fields :
           \A a \in ToSet(SeenArgs(t.variants[v].fields[i])) : TakenByValidate(a)
    BY <1>1, <2>1, <2>2
  <2> QED BY <1>3, <2>3 DEF ValidateExpands
<1> QED BY <1>2, <1>3 DEF Declared

-----------------------------------------------------------------------------
(* The client's checks and the server's, of a field of a primitive type.   *)

\* Two lengths agree on the strings that have one unit for each character; the
\* bound on a boolean, which Rust takes for a number too, is left out.
Judged(f, x) ==
    /\ f.ty.k = "prim" /\ f.ty.p # "bool"
    /\ \E S : f.attrs \in AttributesOver(S)
    /\ ChecksCompile(f)
    /\ \A c \in IrField(f).constraints : c.key \in {"min", "max", "length", "custom"}
    /\ x.j = "str" => Strings[x.s].units = Strings[x.s].chars

\* An f32 that has the number sent for it.
AsSent(f, x) == Decoded(f.ty, x) = x

\* What a schema passes to the checks of a field, for each type that has some.
Based(f, x) ==
    \E bigint : FitsLeaf(SchemaPrimitive(f.ty.p, bigint), x)

\* A check is that of its constraint, on both sides, on the values it is made for.
LEMMA ChecksMatch ==
    ASSUME NEW c, NEW x, x.j \in {"num", "str"}, c.key \in {"min", "max", "length"},
           c.key = "length" => x.j = "str",
           c.key \in {"min", "max"} => x.j = "num",
           x.j = "str" => Strings[x.s].units = Strings[x.s].chars
    PROVE  ClientCheck(ConstraintOf(c), x) <=> ServerCheck(c, x)
<1> DEFINE d == ConstraintOf(c)
<1>1. d.key = c.key /\ d.n = c.n /\ d.lo = c.lo /\ d.hi = c.hi
  BY DEF ConstraintOf
<1> HIDE DEF d
<1>2. CASE c.key = "min"
  <2>1. ServerCheck(c, x) <=> x.n >= c.n
    BY <1>2 DEF ServerCheck
  <2>2. ClientCheck(d, x) <=> x.n >= d.n
    BY <1>1, <1>2 DEF ClientCheck
  <2> QED BY <1>1, <2>1, <2>2, Zenon DEF d
<1>3. CASE c.key = "max"
  <2>1. ServerCheck(c, x) <=> x.n < c.n \/ (x.n = c.n /\ ~x.frac)
    BY <1>3 DEF ServerCheck
  <2>2. ClientCheck(d, x) <=> x.n < d.n \/ (x.n = d.n /\ (x.j = "num" => ~x.frac))
    BY <1>1, <1>3 DEF ClientCheck
  <2> QED BY <1>1, <1>3, <2>1, <2>2, Zenon DEF d
<1>4. CASE c.key = "length"
  <2> DEFINE chars == Strings[x.s].chars
             within == (c.lo # <<>> => chars >= c.lo[1]) /\ (c.hi # <<>> => chars <= c.hi[1])
  <2>1. ServerCheck(c, x) <=> within
    BY <1>4 DEF ServerCheck
  <2>2. ClientCheck(d, x) <=> within
    BY <1>1, <1>4 DEF ClientCheck
  <2> QED BY <2>1, <2>2 DEF d
<1> QED BY <1>2, <1>3, <1>4 DEF d

\* What a value that reaches a check of the server is: bounds are of numbers,
\* lengths of strings, and the way to the server leaves both as they are.
LEMMA CheckedValue ==
    ASSUME NEW f, NEW x, Judged(f, x), Based(f, x), NEW c \in Checks(f)
    PROVE  /\ c.key \in {"min", "max", "length"}
           /\ x.j \in {"num", "str"} /\ JsonLeaf(x) = x
           /\ c.key = "length" => x.j = "str"
           /\ c.key \in {"min", "max"} => x.j = "num" /\ f.ty.p \notin Text
<1>1. c.key # "custom" /\ ConstraintOf(c) \in IrField(f).constraints
  BY ChecksAreDeclared DEF Judged
<1>2. c.key \in {"min", "max", "length"}
  <2>1. ConstraintOf(c).key = c.key
    BY DEF ConstraintOf
  <2> QED BY <1>1, <2>1 DEF Judged
<1>3. IF c.key \in {"min", "max"} THEN f.ty.p \notin Text \cup Wide \cup {"unit"}
      ELSE f.ty.p = "string"
  BY DEF Judged, ChecksCompile
<1>4. PICK bigint : FitsLeaf(SchemaPrimitive(f.ty.p, bigint), x)
  BY DEF Based
<1>5. CASE c.key \in {"min", "max"}
  <2>1. SchemaPrimitive(f.ty.p, bigint) = "finite"
    BY <1>3, <1>5 DEF SchemaPrimitive, Judged
  <2>2. x.j = "num"
    BY <1>4, <2>1 DEF FitsLeaf
  <2> QED BY <1>3, <1>5, <2>2 DEF JsonLeaf
<1>6. CASE c.key = "length"
  <2>1. SchemaPrimitive(f.ty.p, bigint) = "string"
    <3>1. "string" \in Text /\ "string" \notin Wide
      BY LeavesAssumption
    <3> QED BY <1>3, <1>6, <3>1 DEF SchemaPrimitive
  <2>2. x.j = "str"
    BY <1>4, <2>1 DEF FitsLeaf
  <2> QED BY <1>6, <2>2 DEF JsonLeaf
<1> QED BY <1>2, <1>5, <1>6

\* The client's check of the constraint of a check of the server.
LEMMA ClientChecksToo ==
    ASSUME NEW f, NEW x, Judged(f, x), Based(f, x), ClientAccepts(f, x), NEW c \in Checks(f)
    PROVE  ServerCheck(c, x)
<1> DEFINE d == ConstraintOf(c)
<1>1. /\ c.key \in {"min", "max", "length"}
      /\ x.j \in {"num", "str"} /\ JsonLeaf(x) = x
      /\ c.key = "length" => x.j = "str"
      /\ c.key \in {"min", "max"} => x.j = "num" /\ f.ty.p \notin Text
  BY CheckedValue
<1>2. d \in IrField(f).constraints
  BY ChecksAreDeclared DEF Judged
<1>3. d.key = c.key
  BY DEF ConstraintOf
<1> HIDE DEF d
<1>4. d \in SchemaChecks(f.ty, IrField(f).constraints)
  BY <1>1, <1>2, <1>3 DEF SchemaChecks
<1>5. ClientCheck(d, x)
  BY <1>4 DEF ClientAccepts
<1>6. x.j = "str" => Strings[x.s].units = Strings[x.s].chars
  BY DEF Judged
<1> QED BY <1>1, <1>5, <1>6, ChecksMatch DEF d

\* Rounding keeps the order of numbers.
Numbers == [j : {"num"}, n : Int, frac : BOOLEAN]
AtMost(x, y) == x.n < y.n \/ (x.n = y.n /\ (x.frac => y.frac))
NarrowsInOrder ==
    /\ \A x \in Numbers : ToF32(x) \in Numbers
    /\ \A x, y \in Numbers : AtMost(x, y) => AtMost(ToF32(x), ToF32(y))

\* The bounds of a field are numbers that an f32 has.
BoundsExact(f) == \A c \in Checks(f) : c.n \in Int /\ ToF32(Num(c.n)) = Num(c.n)

\* codegen.rs:665-770, derive_validate.rs:216-283, validate.rs:166-314: a field
\* that the client's schema lets through passes the server's bounds and lengths,
\* whatever the attributes and however they are grouped or repeated; of an f32,
\* whatever number is sent, when its bounds are exact, and else when the number is.
THEOREM ClientIsNoLaxer ==
    ASSUME NEW f, NEW x \in LeafValues, Judged(f, x), Based(f, x), ClientAccepts(f, x),
           AsSent(f, x) \/ (NarrowsInOrder /\ BoundsExact(f))
    PROVE  ServerAccepts(f, JsonLeaf(x))
<1> SUFFICES ASSUME NEW c \in Checks(f) PROVE FieldCheck(f, c, JsonLeaf(x))
  BY DEF ServerAccepts
<1>1. JsonLeaf(x) = x /\ ServerCheck(c, x)
  BY ClientChecksToo, CheckedValue
<1>2. CASE Decoded(f.ty, x) = x
  BY <1>1, <1>2 DEF FieldCheck
<1>3. CASE Decoded(f.ty, x) # x
  <2>1. x.j = "num" /\ Decoded(f.ty, x) = ToF32(x)
    BY <1>3 DEF Decoded
  <2>2. x \in Numbers
    BY <2>1 DEF LeafValues, Numbers, Null, Undef, NaN
  <2>3. c.n \in Int /\ ToF32(Num(c.n)) = Num(c.n) /\ NarrowsInOrder
    BY <1>3 DEF AsSent, BoundsExact
  <2>4. Num(c.n) \in Numbers /\ Num(c.n).n = c.n /\ Num(c.n).frac = FALSE
    BY <2>3 DEF Num, Numbers
  <2>5. c.key \in {"min", "max"}
    BY <2>1, CheckedValue
  <2>6. CASE c.key = "min"
    <3>1. x.n >= c.n
      BY <1>1, <2>6 DEF ServerCheck
    <3>2. AtMost(Num(c.n), x)
      BY <3>1, <2>2, <2>3, <2>4 DEF AtMost, Numbers
    <3>3. AtMost(Num(c.n), ToF32(x))
      BY <3>2, <2>2, <2>3, <2>4 DEF NarrowsInOrder
    <3>4. c.n < ToF32(x).n \/ c.n = ToF32(x).n
      BY <3>3, <2>4 DEF AtMost
    <3>5. ToF32(x).n >= c.n
      <4>1. ToF32(x) \in Numbers
        BY <2>2, <2>3 DEF NarrowsInOrder
      <4> QED BY <3>4, <4>1, <2>3 DEF Numbers
    <3> QED BY <1>1, <2>1, <2>6, <3>5 DEF FieldCheck, ServerCheck
  <2>7. CASE c.key = "max"
    <3>1. x.n < c.n \/ (x.n = c.n /\ ~x.frac)
      BY <1>1, <2>7 DEF ServerCheck
    <3>2. AtMost(x, Num(c.n))
      BY <3>1, <2>4 DEF AtMost
    <3>3. AtMost(ToF32(x), Num(c.n))
      BY <3>2, <2>2, <2>3, <2>4 DEF NarrowsInOrder
    <3>4. ToF32(x).n < c.n \/ (ToF32(x).n = c.n /\ ~ToF32(x).frac)
      BY <3>3, <2>4 DEF AtMost
    <3> QED BY <1>1, <2>1, <2>7, <3>4 DEF FieldCheck, ServerCheck
  <2> QED BY <2>5, <2>6, <2>7
<1> QED BY <1>2, <1>3

\* A constraint that the server sees, alone of its key, is that of a check.
LEMMA PlainIsChecked ==
    ASSUME NEW f, \E S : f.attrs \in AttributesOver(S), PlainField(f),
           NEW d \in IrField(f).constraints, d.key # "custom"
    PROVE  \E c \in Checks(f) : d = ConstraintOf(c)
<1> DEFINE args == AllArgs(f.attrs)
<1>1. IrField(f).constraints = Constraints(args)
  BY DEF IrField
<1>2. SeenArgs(f) = args
  BY DEF PlainField
<1>3. PICK S : f.attrs \in AttributesOver(S)
  OBVIOUS
<1>4. args \in Seq(S)
  BY <1>3, ArgsAre
<1>5. Checks(f) = {LastWith(args, key) : key \in {k \in ConstraintKeys \ {"custom"} : HasKey(args, k)}}
  BY <1>2 DEF Checks
<1> HIDE DEF args
<1>6. PICK a \in ToSet(args) : a.key \in ConstraintKeys /\ d = ConstraintOf(a)
  BY <1>1 DEF Constraints
<1>7. d.key = a.key
  BY <1>6 DEF ConstraintOf
<1> DEFINE c == LastWith(args, a.key)
<1>8. HasKey(args, a.key)
  BY KeyFound
<1>9. c \in Checks(f)
  BY <1>5, <1>6, <1>7, <1>8
<1>10. c.key = a.key
  BY <1>4, <1>8, LastWithIs
<1> HIDE DEF c
<1>11. ConstraintOf(c) \in IrField(f).constraints
  BY <1>3, <1>9, ChecksAreDeclared
<1>12. ConstraintOf(c).key = d.key
  BY <1>7, <1>10 DEF ConstraintOf
<1>13. ConstraintOf(c) = d
  BY <1>11, <1>12 DEF PlainField
<1> QED BY <1>9, <1>13

\* index.ts:262-277, validate.rs:166-314: where the server sees every attribute of
\* a field and no constraint is given twice with different bounds, the client's
\* schema refuses a value just when the server does; of an f32, a number it has.
THEOREM PlainFieldsAgree ==
    ASSUME NEW f, NEW x, Judged(f, x), Based(f, x), AsSent(f, x), PlainField(f)
    PROVE  ClientAccepts(f, x) <=> ServerAccepts(f, JsonLeaf(x))
<1>1. ASSUME ServerAccepts(f, JsonLeaf(x)) PROVE ClientAccepts(f, x)
  <2> SUFFICES ASSUME NEW d \in SchemaChecks(f.ty, IrField(f).constraints)
               PROVE  ClientCheck(d, x)
    BY DEF ClientAccepts
  <2>1. d \in IrField(f).constraints /\ d.key # "custom"
    BY DEF SchemaChecks
  <2>2. PICK c \in Checks(f) : d = ConstraintOf(c)
    BY <2>1, PlainIsChecked DEF Judged
  <2>3. FieldCheck(f, c, JsonLeaf(x))
    BY <1>1 DEF ServerAccepts
  <2>4. /\ c.key \in {"min", "max", "length"}
        /\ x.j \in {"num", "str"} /\ JsonLeaf(x) = x
        /\ c.key = "length" => x.j = "str"
        /\ c.key \in {"min", "max"} => x.j = "num"
    BY CheckedValue
  <2>5. x.j = "str" => Strings[x.s].units = Strings[x.s].chars
    BY DEF Judged
  <2>6. ServerCheck(c, x)
    BY <2>3, <2>4 DEF FieldCheck, AsSent
  <2> QED BY <2>2, <2>4, <2>5, <2>6, ChecksMatch
<1>2. ASSUME ClientAccepts(f, x) PROVE ServerAccepts(f, JsonLeaf(x))
  <2> SUFFICES ASSUME NEW c \in Checks(f) PROVE FieldCheck(f, c, JsonLeaf(x))
    BY DEF ServerAccepts
  <2>1. JsonLeaf(x) = x /\ ServerCheck(c, x)
    BY <1>2, ClientChecksToo, CheckedValue
  <2> QED BY <2>1 DEF FieldCheck, AsSent
<1> QED BY <1>1, <1>2

\* index.ts:200-261, validate.rs:322-363: of an object whose fields are such, an f32
\* among them with a number it has, the
\* server reports the fields that the client's schema would have refused, each
\* under the name it has in Rust, and no others.
THEOREM PathsAgree ==
    ASSUME NEW fields, NEW o,
           \A i \in DOMAIN fields :
              /\ PlainField(fields[i])
              /\ fields[i].wire \in DOMAIN o =>
                    /\ Judged(fields[i], o[fields[i].wire])
                    /\ Based(fields[i], o[fields[i].wire])
                    /\ AsSent(fields[i], o[fields[i].wire])
    PROVE  PathsOf(FieldErrors(fields, [m \in DOMAIN o |-> JsonLeaf(o[m])]))
           = {<<fields[i].ident>> : i \in {i \in DOMAIN fields :
                 /\ fields[i].wire \in DOMAIN o
                 /\ ~ClientAccepts(fields[i], o[fields[i].wire])}}
<1> DEFINE sent == [m \in DOMAIN o |-> JsonLeaf(o[m])]
           Refused(i) == {c \in Checks(fields[i]) : ~FieldCheck(fields[i], c, sent[fields[i].wire])}
           present == {i \in DOMAIN fields : fields[i].wire \in DOMAIN o}
<1>1. ASSUME NEW i \in present
      PROVE  Refused(i) # {} <=> ~ClientAccepts(fields[i], o[fields[i].wire])
  <2>1. sent[fields[i].wire] = JsonLeaf(o[fields[i].wire])
    OBVIOUS
  <2>2. ClientAccepts(fields[i], o[fields[i].wire])
        <=> ServerAccepts(fields[i], JsonLeaf(o[fields[i].wire]))
    BY PlainFieldsAgree
  <2>3. Refused(i) # {} <=> ~ServerAccepts(fields[i], JsonLeaf(o[fields[i].wire]))
    BY <2>1 DEF ServerAccepts
  <2> QED BY <2>2, <2>3
<1>2. FieldErrors(fields, sent)
      = UNION {{<<<<fields[i].ident>>, c.key>> : c \in Refused(i)} : i \in present}
  BY DEF FieldErrors
<1> HIDE DEF Refused, present
<1>3. PathsOf(FieldErrors(fields, sent)) = {<<fields[i].ident>> : i \in {i \in present : Refused(i) # {}}}
  <2>1. ASSUME NEW i \in present, NEW c \in Refused(i)
        PROVE  <<fields[i].ident>> \in PathsOf(FieldErrors(fields, sent))
    <3>1. <<<<fields[i].ident>>, c.key>> \in FieldErrors(fields, sent)
      BY <1>2
    <3> QED BY <3>1 DEF PathsOf
  <2>2. ASSUME NEW e \in FieldErrors(fields, sent)
        PROVE  \E i \in present : Refused(i) # {} /\ e[1] = <<fields[i].ident>>
    BY <1>2
  <2> QED BY <2>1, <2>2 DEF PathsOf
<1> QED BY <1>1, <1>3 DEF present

-----------------------------------------------------------------------------
(* The readings of a primitive.                                            *)

Bigints == {"native", "asString"}

\* What each reading makes of each primitive.
LEMMA PrimitiveReadings ==
    ASSUME NEW p \in Primitives, NEW bigint
    PROVE  /\ p = "bool" => /\ TsPrimitive(p, bigint) = "boolean"
                            /\ SchemaPrimitive(p, bigint) = "boolean"
                            /\ McpPrimitive(p, bigint) = "boolean"
                            /\ SerdePrimitive(p) = "boolean"
           /\ p = "unit" => /\ TsPrimitive(p, bigint) = "void"
                            /\ SchemaPrimitive(p, bigint) = "null"
                            /\ McpPrimitive(p, bigint) = "null"
                            /\ SerdePrimitive(p) = "null"
           /\ p \in Floats => /\ TsPrimitive(p, bigint) = "number"
                               /\ SchemaPrimitive(p, bigint) = "finite"
                               /\ McpPrimitive(p, bigint) = "finite"
                               /\ SerdePrimitive(p) = "float"
           /\ p \in Text => /\ TsPrimitive(p, bigint) = "string"
                            /\ SchemaPrimitive(p, bigint) = "string"
                            /\ McpPrimitive(p, bigint) = p
                            /\ SerdePrimitive(p) = p
           /\ p \in Wide /\ bigint = "native" =>
                            /\ TsPrimitive(p, bigint) = "bigint"
                            /\ SchemaPrimitive(p, bigint) = "toBigint"
                            /\ McpPrimitive(p, bigint) = "integer"
           /\ p \in Wide /\ bigint = "asString" =>
                            /\ TsPrimitive(p, bigint) = "string"
                            /\ SchemaPrimitive(p, bigint) = "string"
                            /\ McpPrimitive(p, bigint) = "digits"
           /\ p \in DOMAIN IntRange => SerdePrimitive(p) = p
           /\ p \in DOMAIN IntRange \ Wide =>
                            /\ TsPrimitive(p, bigint) = "number"
                            /\ SchemaPrimitive(p, bigint) = "finite"
                            /\ McpPrimitive(p, bigint) = p
BY LeavesAssumption DEF TsPrimitive, SchemaPrimitive, McpPrimitive, SerdePrimitive, Floats

\* The values of the integers have names of their own.
LEMMA IntegerFits ==
    ASSUME NEW p \in DOMAIN IntRange, NEW x
    PROVE  FitsLeaf(p, x) <=> IsInt(x) /\ x.n \in IntRange[p]
<1>1. p \notin {"boolean", "number", "finite", "bigint", "toBigint", "integer", "digits",
               "string", "uuid", "null", "void", "float", "never"}
  BY LeavesAssumption
<1> QED BY <1>1, Zenon DEF FitsLeaf

\* An ordinary number is exact as a double.
LEMMA OrdinaryIsExact ==
    ASSUME NEW x, OrdinaryLeaf(x), x.j \in {"num", "big"}
    PROVE  x.n \in Int /\ Round(x.n) = x.n
<1>1. \A p \in DOMAIN IntRange : x.n \in IntRange[p]
  BY DEF OrdinaryLeaf
<1>2. PICK p \in DOMAIN IntRange : \A n \in IntRange[p] : n \in Int /\ n <= MaxSafe
  BY LeavesAssumption
<1> QED BY <1>1, <1>2 DEF Round

\* type_map.rs:75-109, codegen.rs:772-822: whatever the schema of a primitive lets
\* through has, once parsed, the primitive's TypeScript type.
THEOREM SchemaKeepsType ==
    ASSUME NEW p \in Primitives, NEW bigint \in Bigints, NEW x,
           FitsLeaf(SchemaPrimitive(p, bigint), x)
    PROVE  FitsLeaf(TsPrimitive(p, bigint), ThroughLeaf(SchemaPrimitive(p, bigint), x))
<1> DEFINE schema == SchemaPrimitive(p, bigint)
           ts == TsPrimitive(p, bigint)
<1>1. \/ schema = "boolean" /\ ts = "boolean"
      \/ schema = "null" /\ ts = "void"
      \/ schema = "finite" /\ ts = "number"
      \/ schema = "string" /\ ts = "string"
      \/ schema = "toBigint" /\ ts = "bigint"
  BY PrimitiveReadings DEF Primitives, Bigints
<1> HIDE DEF schema, ts
<1>2. CASE schema = "toBigint" /\ ts = "bigint"
  <2>1. ThroughLeaf(schema, x).j = "big"
    BY <1>2 DEF ThroughLeaf, Big
  <2> QED BY <1>2, <2>1 DEF FitsLeaf, schema, ts
<1>3. CASE schema # "toBigint"
  <2>1. ThroughLeaf(schema, x) = x
    BY <1>3 DEF ThroughLeaf
  <2>2. FitsLeaf(schema, x)
    BY DEF schema
  <2>3. FitsLeaf(ts, x)
    BY <1>1, <1>3, <2>2 DEF FitsLeaf
  <2> QED BY <2>1, <2>3 DEF schema, ts
<1> QED BY <1>1, <1>2, <1>3

\* The plain primitives, as the call sees them.
LEMMA PlainReadings ==
    ASSUME NEW p, NEW bigint \in Bigints, PlainPrimitive(p, bigint)
    PROVE  LET ts == TsPrimitive(p, bigint)
               schema == SchemaPrimitive(p, bigint)
               mcp == McpPrimitive(p, bigint)
               serde == SerdePrimitive(p)
           IN  \/ ts = "boolean" /\ schema = "boolean" /\ mcp = "boolean" /\ serde = "boolean"
               \/ ts = "void" /\ schema = "null" /\ mcp = "null" /\ serde = "null"
               \/ ts = "number" /\ schema = "finite" /\ mcp = "finite" /\ serde = "float"
               \/ ts = "string" /\ schema = "string" /\ mcp = "string" /\ serde = "string"
               \/ /\ p \in DOMAIN IntRange /\ serde = p
                  /\ \/ ts = "bigint" /\ schema = "toBigint" /\ mcp = "integer"
                     \/ ts = "number" /\ schema = "finite" /\ mcp = p
<1>1. p \in Primitives \ {"uuid"} /\ (p \in Wide => bigint = "native")
  BY DEF PlainPrimitive
<1>2. p \in {"bool", "unit", "string"} \cup Floats \cup DOMAIN IntRange
  BY <1>1, LeavesAssumption DEF Primitives
<1> QED BY <1>1, <1>2, PrimitiveReadings, LeavesAssumption

\* The form of a value tells which it is.
LEMMA LeafForms ==
    ASSUME NEW x \in LeafValues
    PROVE  /\ x.j = "undef" => x = Undef
           /\ x.j = "null" => x = Null
           /\ x.j = "num" => /\ x = [j |-> "num", n |-> x.n, frac |-> x.frac]
                             /\ x.n \in Int /\ x.frac \in BOOLEAN
<1> DEFINE nums == [j : {"num"}, n : Int, frac : BOOLEAN]
           bigs == [j : {"big"}, n : Int]
           strs == [j : {"str"}, s : DOMAIN Strings]
<1>1. \/ x \in {Null, Undef, NaN, [j |-> "bool"]}
      \/ x \in nums
      \/ x \in bigs
      \/ x \in strs
  BY DEF LeafValues
<1>2. CASE x \in {Null, Undef, NaN, [j |-> "bool"]}
  BY <1>2 DEF Null, Undef, NaN
<1>3. CASE x \in nums
  BY <1>3
<1>4. CASE x \in bigs
  BY <1>4
<1>5. CASE x \in strs
  BY <1>5
<1> QED BY <1>1, <1>2, <1>3, <1>4, <1>5

\* http.ts:61-87, index.ts:262-277: a value of the TypeScript type of a plain
\* primitive passes the client's schema and reaches the procedure, with a
\* validator or without, as JSON that serde decodes to the same value.
THEOREM PrimitiveInputsArrive ==
    ASSUME NEW p, NEW bigint \in Bigints, PlainPrimitive(p, bigint),
           NEW x \in LeafValues, FitsLeaf(TsPrimitive(p, bigint), x), OrdinaryLeaf(x)
    PROVE  LET schema == SchemaPrimitive(p, bigint) IN
           /\ FitsLeaf(schema, Passed(x))
           /\ FitsLeaf(SerdePrimitive(p), JsonLeaf(Passed(x)))
           /\ JsonLeaf(ThroughLeaf(schema, Passed(x))) = JsonLeaf(Passed(x))
<1> DEFINE ts == TsPrimitive(p, bigint)
           schema == SchemaPrimitive(p, bigint)
           serde == SerdePrimitive(p)
           y == Passed(x)
           Arrives == /\ FitsLeaf(schema, y)
                      /\ FitsLeaf(serde, JsonLeaf(y))
                      /\ JsonLeaf(ThroughLeaf(schema, y)) = JsonLeaf(y)
<1> SUFFICES Arrives
  OBVIOUS
<1>1. \/ ts = "boolean" /\ schema = "boolean" /\ serde = "boolean"
      \/ ts = "void" /\ schema = "null" /\ serde = "null"
      \/ ts = "number" /\ schema = "finite" /\ serde = "float"
      \/ ts = "string" /\ schema = "string" /\ serde = "string"
      \/ p \in DOMAIN IntRange /\ serde = p /\ ts = "bigint" /\ schema = "toBigint"
      \/ p \in DOMAIN IntRange /\ serde = p /\ ts = "number" /\ schema = "finite"
  BY PlainReadings
<1>2. FitsLeaf(ts, x) /\ (x.j # "undef" => y = x)
  BY DEF ts, Passed, Undef
<1>3. schema # "toBigint" => ThroughLeaf(schema, y) = y
  BY DEF ThroughLeaf
<1> HIDE DEF ts, schema, serde
<1>4. CASE ts = "boolean" /\ schema = "boolean" /\ serde = "boolean"
  <2>1. x.j = "bool"
    BY <1>2, <1>4 DEF FitsLeaf
  <2>2. y = x /\ JsonLeaf(x) = x
    BY <1>2, <2>1 DEF JsonLeaf
  <2>3. FitsLeaf(schema, x) /\ FitsLeaf(serde, x)
    BY <1>4, <2>1 DEF FitsLeaf
  <2> QED BY <1>3, <1>4, <2>2, <2>3
<1>5. CASE ts = "void" /\ schema = "null" /\ serde = "null"
  <2>1. x.j \in {"undef", "null"}
    BY <1>2, <1>5 DEF FitsLeaf
  <2>2. x \in {Undef, Null}
    BY <2>1, LeafForms
  <2>3. y = Null
    BY <2>2 DEF Passed
  <2>4. JsonLeaf(Null) = Null
    BY DEF JsonLeaf, Null
  <2>5. FitsLeaf(schema, Null) /\ FitsLeaf(serde, Null)
    BY <1>5 DEF FitsLeaf, Null
  <2> QED BY <1>3, <1>5, <2>3, <2>4, <2>5
<1>6. CASE ts = "number" /\ schema = "finite" /\ serde = "float"
  <2>1. x.j = "num"
    BY <1>2, <1>6 DEF FitsLeaf, OrdinaryLeaf
  <2>2. y = x /\ JsonLeaf(x) = x
    BY <1>2, <2>1 DEF JsonLeaf
  <2>3. FitsLeaf(schema, x) /\ FitsLeaf(serde, x)
    BY <1>6, <2>1 DEF FitsLeaf
  <2> QED BY <1>3, <1>6, <2>2, <2>3
<1>7. CASE ts = "string" /\ schema = "string" /\ serde = "string"
  <2>1. x.j = "str"
    BY <1>2, <1>7 DEF FitsLeaf
  <2>2. y = x /\ JsonLeaf(x) = x
    BY <1>2, <2>1 DEF JsonLeaf
  <2>3. FitsLeaf(schema, x) /\ FitsLeaf(serde, x)
    BY <1>7, <2>1 DEF FitsLeaf
  <2> QED BY <1>3, <1>7, <2>2, <2>3
<1>8. CASE p \in DOMAIN IntRange /\ serde = p /\ ts = "bigint" /\ schema = "toBigint"
  <2>1. x.j = "big"
    BY <1>2, <1>8 DEF FitsLeaf
  <2>2. Round(x.n) = x.n /\ x.n \in IntRange[p]
    BY <1>8, <2>1, OrdinaryIsExact DEF OrdinaryLeaf
  <2>3. y = x /\ JsonLeaf(x) = Num(x.n) /\ ThroughLeaf(schema, x) = Big(x.n)
    BY <1>2, <1>8, <2>1, <2>2 DEF JsonLeaf, ThroughLeaf
  <2>4. JsonLeaf(Big(x.n)) = Num(x.n)
    BY <2>2 DEF JsonLeaf, Big
  <2>5. FitsLeaf(schema, x)
    BY <1>8, <2>1 DEF FitsLeaf
  <2>6. FitsLeaf(serde, Num(x.n))
    BY <1>8, <2>2, IntegerFits DEF IsInt, Num
  <2> QED BY <2>3, <2>4, <2>5, <2>6
<1>9. CASE p \in DOMAIN IntRange /\ serde = p /\ ts = "number" /\ schema = "finite"
  <2>1. x.j = "num"
    BY <1>2, <1>9 DEF FitsLeaf, OrdinaryLeaf
  <2>2. y = x /\ JsonLeaf(x) = x
    BY <1>2, <2>1 DEF JsonLeaf
  <2>3. FitsLeaf(schema, x)
    BY <1>9, <2>1 DEF FitsLeaf
  <2>4. IsInt(x) /\ x.n \in IntRange[p]
    BY <1>9, <2>1 DEF IsInt, OrdinaryLeaf
  <2>5. FitsLeaf(serde, x)
    BY <1>9, <2>4, IntegerFits
  <2> QED BY <1>3, <1>9, <2>2, <2>3, <2>5
<1> QED BY <1>1, <1>4, <1>5, <1>6, <1>7, <1>8, <1>9

\* procedure.rs:78-96, index.ts:396-409: what a procedure returns for a plain
\* primitive passes the client's schema, and the caller gets from it, with the
\* primitive's TypeScript type, the value that was returned.
THEOREM PrimitiveOutputsArrive ==
    ASSUME NEW p, NEW bigint \in Bigints, PlainPrimitive(p, bigint),
           NEW y \in LeafValues, FitsLeaf(SerdePrimitive(p), y), OrdinaryLeaf(y)
    PROVE  LET schema == SchemaPrimitive(p, bigint)
               got == ThroughLeaf(schema, ParsedLeaf(y))
           IN  /\ FitsLeaf(schema, ParsedLeaf(y))
               /\ FitsLeaf(TsPrimitive(p, bigint), got)
               /\ JsonLeaf(got) = y
<1> DEFINE schema == SchemaPrimitive(p, bigint)
           serde == SerdePrimitive(p)
           Arrives == /\ FitsLeaf(schema, ParsedLeaf(y))
                      /\ FitsLeaf(TsPrimitive(p, bigint), ThroughLeaf(schema, ParsedLeaf(y)))
                      /\ JsonLeaf(ThroughLeaf(schema, ParsedLeaf(y))) = y
<1> SUFFICES Arrives
  OBVIOUS
<1>1. \/ schema \in {"boolean", "null", "string"} /\ serde = schema
      \/ schema = "finite" /\ serde = "float"
      \/ p \in DOMAIN IntRange /\ serde = p /\ schema \in {"toBigint", "finite"}
  BY PlainReadings
<1>2. FitsLeaf(serde, y)
  OBVIOUS
<1>3. p \in Primitives
  BY DEF PlainPrimitive
<1> HIDE DEF schema, serde
\* A number is read as it was written.
<1>4. ASSUME y.j = "num" PROVE ParsedLeaf(y) = y
  <2>1. Round(y.n) = y.n
    BY <1>4, OrdinaryIsExact
  <2>2. ParsedLeaf(y) = [y EXCEPT !.n = Round(@)]
    BY <1>4 DEF ParsedLeaf
  <2>3. y = [j |-> "num", n |-> y.n, frac |-> y.frac]
    BY <1>4, LeafForms
  <2> QED BY <2>1, <2>2, <2>3
\* Other than a wide integer, nothing is changed on the way.
<1>5. ASSUME FitsLeaf(schema, y), schema # "toBigint", ParsedLeaf(y) = y, JsonLeaf(y) = y
      PROVE  Arrives
  <2>1. ThroughLeaf(schema, y) = y
    BY <1>5 DEF ThroughLeaf
  <2>2. FitsLeaf(TsPrimitive(p, bigint), ThroughLeaf(schema, y))
    BY <1>3, <1>5, SchemaKeepsType DEF schema
  <2> QED BY <1>5, <2>1, <2>2
<1>6. CASE schema \in {"boolean", "null", "string"} /\ serde = schema
  <2>1. y.j \in {"bool", "null", "str"}
    BY <1>2, <1>6 DEF FitsLeaf
  <2>2. ParsedLeaf(y) = y /\ JsonLeaf(y) = y
    BY <2>1 DEF ParsedLeaf, JsonLeaf
  <2> QED BY <1>2, <1>5, <1>6, <2>2
<1>7. CASE schema = "finite" /\ serde = "float"
  <2>1. y.j = "num"
    BY <1>2, <1>7 DEF FitsLeaf, OrdinaryLeaf
  <2>2. FitsLeaf(schema, y) /\ JsonLeaf(y) = y
    BY <1>7, <2>1 DEF FitsLeaf, JsonLeaf
  <2> QED BY <1>4, <1>5, <1>7, <2>1, <2>2
<1>8. CASE p \in DOMAIN IntRange /\ serde = p /\ schema = "finite"
  <2>1. y.j = "num"
    BY <1>2, <1>8, IntegerFits DEF IsInt
  <2>2. FitsLeaf(schema, y) /\ JsonLeaf(y) = y
    BY <1>8, <2>1 DEF FitsLeaf, JsonLeaf
  <2> QED BY <1>4, <1>5, <1>8, <2>1, <2>2
<1>9. CASE p \in DOMAIN IntRange /\ serde = p /\ schema = "toBigint"
  <2>1. IsInt(y)
    BY <1>2, <1>9, IntegerFits
  <2>2. y.j = "num" /\ ~y.frac
    BY <2>1 DEF IsInt
  <2>3. y = Num(y.n)
    BY <2>2, LeafForms DEF Num
  <2>4. ParsedLeaf(y) = y /\ Round(y.n) = y.n
    BY <1>4, <2>2, OrdinaryIsExact
  <2>5. FitsLeaf(schema, y)
    BY <1>9, <2>1 DEF FitsLeaf
  <2>6. ThroughLeaf(schema, y) = Big(y.n)
    BY <1>9, <2>2 DEF ThroughLeaf
  <2>7. JsonLeaf(Big(y.n)) = y
    BY <2>3, <2>4 DEF JsonLeaf, Big
  <2>8. FitsLeaf(TsPrimitive(p, bigint), ThroughLeaf(schema, y))
    BY <1>3, <2>5, SchemaKeepsType DEF schema
  <2> QED BY <2>4, <2>5, <2>6, <2>7, <2>8
<1> QED BY <1>1, <1>6, <1>7, <1>8, <1>9

\* mcp.rs:265-299: what an agent gives for a plain primitive, as the manifest's
\* schema describes it, serde decodes.
THEOREM AgentPrimitivesArrive ==
    ASSUME NEW p, NEW bigint \in Bigints, PlainPrimitive(p, bigint),
           NEW x, FitsLeaf(McpPrimitive(p, bigint), x), OrdinaryLeaf(x)
    PROVE  FitsLeaf(SerdePrimitive(p), x)
<1> DEFINE mcp == McpPrimitive(p, bigint)
           serde == SerdePrimitive(p)
<1>1. \/ mcp \in {"boolean", "null", "string"} /\ serde = mcp
      \/ mcp = "finite" /\ serde = "float"
      \/ p \in DOMAIN IntRange /\ mcp = "integer" /\ serde = p
      \/ p \in DOMAIN IntRange /\ mcp = p /\ serde = p
  BY PlainReadings
<1>2. FitsLeaf(mcp, x)
  OBVIOUS
<1> SUFFICES FitsLeaf(serde, x)
  OBVIOUS
<1> HIDE DEF mcp, serde
<1>3. CASE mcp = "finite" /\ serde = "float"
  BY <1>2, <1>3 DEF FitsLeaf
<1>4. CASE p \in DOMAIN IntRange /\ mcp = "integer" /\ serde = p
  <2>1. IsInt(x)
    BY <1>2, <1>4 DEF FitsLeaf
  <2>2. x.n \in IntRange[p]
    BY <1>4, <2>1 DEF IsInt, OrdinaryLeaf
  <2> QED BY <1>4, <2>1, <2>2, IntegerFits
<1> QED BY <1>1, <1>2, <1>3, <1>4
=============================================================================
