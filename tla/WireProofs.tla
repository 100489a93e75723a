----------------------------- MODULE WireProofs -----------------------------
(***************************************************************************)
(* The readings of a type agree, for every type and every value: a call    *)
(* carries its values through, and the client's checks are the server's.   *)
(***************************************************************************)
EXTENDS WireInv, LeavesProofs

-----------------------------------------------------------------------------
(* The equations of the views and of the values.                           *)

LEMMA FitsViews ==
    ASSUME Unfolds
    PROVE  /\ \A name, x : Fits(Leaf(name), x) <=> x \in LeafValues /\ FitsLeaf(name, x)
           /\ \A name, x : Fits(Literal(name), x) <=> x = Str(name)
           /\ \A w, x : Fits(OrUndefined(w), x) <=> x = Undef \/ Fits(w, x)
           /\ \A w, x : Fits(Nullable(w), x) <=> x = Null \/ Fits(w, x)
           /\ \A w, x : Fits(ArrayOf(w), x) <=>
                            IsArr(x) /\ \A i \in DOMAIN x.a : Fits(w, x.a[i])
           /\ \A ws, x : Fits(Fixed(ws), x) <=> /\ IsArr(x) /\ Len(x.a) = Len(ws)
                                               /\ \A i \in DOMAIN x.a : Fits(ws[i], x.a[i])
           /\ \A w, x : Fits(RecordOf(w), x) <=>
                            IsObj(x) /\ \A m \in DOMAIN x.o : Fits(w, x.o[m])
           /\ \A ws, keys, x : Fits(Object(ws, keys), x) <=>
                 /\ IsObj(x)
                 /\ \A i \in DOMAIN ws :
                       IF ws[i].name \in DOMAIN x.o THEN Fits(ws[i].view, x.o[ws[i].name])
                       ELSE ~ws[i].required
                 /\ keys = "any" \/ DOMAIN x.o \subseteq Names(ws)
           /\ \A ws, x : Fits(Union(ws), x) <=> \E i \in DOMAIN ws : Fits(ws[i], x)
           /\ \A ws, x : Fits(OneOf(ws), x) <=> \E i \in DOMAIN ws : \A k \in DOMAIN ws :
                                                   Fits(ws[k], x) <=> k = i
           /\ \A w, cs, x : Fits(Checked(w, cs), x) <=>
                               Fits(w, x) /\ \A c \in cs : ClientCheck(c, x)
<1>1. \A u, x : Fits(u, x) <=> FitsOf(u, x)
  BY DEF Unfolds
<1>2. \A name, x : Fits(Leaf(name), x) <=> x \in LeafValues /\ FitsLeaf(name, x)
  BY <1>1 DEF FitsOf, Leaf
<1>3. \A name, x : Fits(Literal(name), x) <=> x = Str(name)
  BY <1>1 DEF FitsOf, Literal
<1>4. \A w, x : Fits(OrUndefined(w), x) <=> x = Undef \/ Fits(w, x)
  BY <1>1 DEF FitsOf, OrUndefined
<1>5. \A w, x : Fits(Nullable(w), x) <=> x = Null \/ Fits(w, x)
  BY <1>1 DEF FitsOf, Nullable
<1>6. \A w, x : Fits(ArrayOf(w), x) <=> IsArr(x) /\ \A i \in DOMAIN x.a : Fits(w, x.a[i])
  BY <1>1 DEF FitsOf, ArrayOf
<1>7. \A ws, x : Fits(Fixed(ws), x) <=> /\ IsArr(x) /\ Len(x.a) = Len(ws)
                                       /\ \A i \in DOMAIN x.a : Fits(ws[i], x.a[i])
  BY <1>1 DEF FitsOf, Fixed
<1>8. \A w, x : Fits(RecordOf(w), x) <=> IsObj(x) /\ \A m \in DOMAIN x.o : Fits(w, x.o[m])
  BY <1>1 DEF FitsOf, RecordOf
<1>9. \A ws, keys, x : Fits(Object(ws, keys), x) <=>
                 /\ IsObj(x)
                 /\ \A i \in DOMAIN ws :
                       IF ws[i].name \in DOMAIN x.o THEN Fits(ws[i].view, x.o[ws[i].name])
                       ELSE ~ws[i].required
                 /\ keys = "any" \/ DOMAIN x.o \subseteq Names(ws)
  BY <1>1 DEF FitsOf, Object
<1>10. \A ws, x : Fits(Union(ws), x) <=> \E i \in DOMAIN ws : Fits(ws[i], x)
  BY <1>1 DEF FitsOf, Union
<1>11. \A ws, x : Fits(OneOf(ws), x) <=>
          \E i \in DOMAIN ws : \A k \in DOMAIN ws : Fits(ws[k], x) <=> k = i
  BY <1>1 DEF FitsOf, OneOf
<1>12. \A w, cs, x : Fits(Checked(w, cs), x) <=> Fits(w, x) /\ \A c \in cs : ClientCheck(c, x)
  BY <1>1 DEF FitsOf, Checked
<1> QED BY <1>2, <1>3, <1>4, <1>5, <1>6, <1>7, <1>8, <1>9, <1>10, <1>11, <1>12

LEMMA ThroughViews ==
    ASSUME Unfolds, NEW x
    PROVE  /\ \A name : Through(Leaf(name), x) = ThroughLeaf(name, x)
           /\ \A name : Through(Literal(name), x) = x
           /\ \A w : Through(Nullable(w), x) = IF x = Null THEN x ELSE Through(w, x)
           /\ \A w : Through(ArrayOf(w), x) = Arr([i \in DOMAIN x.a |-> Through(w, x.a[i])])
           /\ \A ws : Through(Fixed(ws), x) =
                             Arr([i \in DOMAIN x.a |-> Through(ws[i], x.a[i])])
           /\ \A w : Through(RecordOf(w), x) = Obj([m \in DOMAIN x.o |-> Through(w, x.o[m])])
           /\ \A ws : Through(Union(ws), x) = Through(Member(ws, x), x)
           /\ \A w, cs : Through(Checked(w, cs), x) = Through(w, x)
<1>1. \A u : Through(u, x) = ThroughOf(u, x)
  BY DEF Unfolds
<1>2. ASSUME NEW u
      PROVE  /\ u.v = "leaf" => ThroughOf(u, x) = ThroughLeaf(u.leaf, x)
             /\ u.v = "literal" => ThroughOf(u, x) = x
             /\ u.v = "nullable" => ThroughOf(u, x) = IF x = Null THEN x ELSE Through(u.of, x)
             /\ u.v = "checked" => ThroughOf(u, x) = Through(u.of, x)
             /\ u.v = "array" =>
                  ThroughOf(u, x) = Arr([i \in DOMAIN x.a |-> Through(u.of, x.a[i])])
             /\ u.v = "tuple" =>
                  ThroughOf(u, x) = Arr([i \in DOMAIN x.a |-> Through(u.items[i], x.a[i])])
             /\ u.v = "record" =>
                  ThroughOf(u, x) = Obj([m \in DOMAIN x.o |-> Through(u.of, x.o[m])])
             /\ u.v = "union" => ThroughOf(u, x) = Through(Member(u.items, x), x)
  BY Zenon DEF ThroughOf
<1>3. ASSUME NEW name
      PROVE  /\ Through(Leaf(name), x) = ThroughLeaf(name, x)
             /\ Through(Literal(name), x) = x
  BY <1>1, <1>2 DEF Leaf, Literal
<1>4. ASSUME NEW w, NEW cs
      PROVE  /\ Through(Nullable(w), x) = IF x = Null THEN x ELSE Through(w, x)
             /\ Through(Checked(w, cs), x) = Through(w, x)
  BY <1>1, <1>2 DEF Nullable, Checked
<1>5. ASSUME NEW w
      PROVE  Through(ArrayOf(w), x) = Arr([i \in DOMAIN x.a |-> Through(w, x.a[i])])
  BY <1>1, <1>2 DEF ArrayOf
<1>6. ASSUME NEW ws
      PROVE  Through(Fixed(ws), x) = Arr([i \in DOMAIN x.a |-> Through(ws[i], x.a[i])])
  BY <1>1, <1>2 DEF Fixed
<1>7. ASSUME NEW w
      PROVE  Through(RecordOf(w), x) = Obj([m \in DOMAIN x.o |-> Through(w, x.o[m])])
  BY <1>1, <1>2 DEF RecordOf
<1>8. ASSUME NEW ws
      PROVE  Through(Union(ws), x) = Through(Member(ws, x), x)
  BY <1>1, <1>2 DEF Union
<1> QED BY <1>3, <1>4, <1>5, <1>6, <1>7, <1>8, Zenon

LEMMA ThroughObject ==
    ASSUME Unfolds, NEW x, NEW ws, NEW keys
    PROVE  Through(Object(ws, keys), x) =
             Obj([m \in DOMAIN x.o \cap Names(ws) |-> Through(PartOf(ws, m).view, x.o[m])])
<1>1. \A u : Through(u, x) = ThroughOf(u, x)
  BY DEF Unfolds
<1>2. ASSUME NEW u, u.v = "object"
      PROVE  ThroughOf(u, x) = Obj([m \in DOMAIN x.o \cap Names(u.parts) |->
                                       Through(PartOf(u.parts, m).view, x.o[m])])
  BY <1>2, Zenon DEF ThroughOf
<1> QED BY <1>1, <1>2 DEF Object

\* Values.
LEMMA Values ==
    ASSUME Unfolds, NEW x
    PROVE  /\ IsArr(x) => /\ Json(x) = Arr([i \in DOMAIN x.a |-> Json(x.a[i])])
                          /\ Parsed(x) = Arr([i \in DOMAIN x.a |-> Parsed(x.a[i])])
                          /\ Ordinary(x) <=> \A i \in DOMAIN x.a : Ordinary(x.a[i])
           /\ IsObj(x) => /\ Json(x) = Obj([m \in {m \in DOMAIN x.o : x.o[m].j # "undef"} |->
                                               Json(x.o[m])])
                          /\ Parsed(x) = Obj([m \in DOMAIN x.o |-> Parsed(x.o[m])])
                          /\ Ordinary(x) <=> \A m \in DOMAIN x.o : Ordinary(x.o[m])
           /\ x \in LeafValues => /\ Json(x) = JsonLeaf(x) /\ Parsed(x) = ParsedLeaf(x)
                                  /\ Ordinary(x) <=> OrdinaryLeaf(x)
<1>1. Json(x) = JsonOf(x) /\ Parsed(x) = ParsedOf(x) /\ (Ordinary(x) <=> OrdinaryOf(x))
  BY DEF Unfolds
<1>2. ASSUME IsArr(x)
      PROVE  /\ Json(x) = Arr([i \in DOMAIN x.a |-> Json(x.a[i])])
             /\ Parsed(x) = Arr([i \in DOMAIN x.a |-> Parsed(x.a[i])])
             /\ Ordinary(x) <=> \A i \in DOMAIN x.a : Ordinary(x.a[i])
  BY <1>1, <1>2 DEF IsArr, JsonOf, ParsedOf, OrdinaryOf
<1>3. ASSUME IsObj(x)
      PROVE  /\ Json(x) = Obj([m \in {m \in DOMAIN x.o : x.o[m].j # "undef"} |-> Json(x.o[m])])
             /\ Parsed(x) = Obj([m \in DOMAIN x.o |-> Parsed(x.o[m])])
             /\ Ordinary(x) <=> \A m \in DOMAIN x.o : Ordinary(x.o[m])
  BY <1>1, <1>3 DEF IsObj, JsonOf, ParsedOf, OrdinaryOf
<1>4. ASSUME x \in LeafValues
      PROVE  /\ Json(x) = JsonLeaf(x) /\ Parsed(x) = ParsedLeaf(x)
             /\ Ordinary(x) <=> OrdinaryLeaf(x)
  <2>1. x.j # "arr" /\ x.j # "obj"
    BY <1>4 DEF LeafValues, Null, Undef, NaN
  <2> QED BY <1>1, <2>1 DEF JsonOf, ParsedOf, OrdinaryOf
<1> QED BY <1>2, <1>3, <1>4

\* f is a function on D.
On(f, D) == f = [m \in D |-> f[m]]

LEMMA ObjIs ==
    ASSUME NEW D, NEW f, On(f, D)
    PROVE  IsObj(Obj(f)) /\ Obj(f).o = f /\ Obj(f).j = "obj" /\ DOMAIN f = D
BY DEF IsObj, Obj, On

-----------------------------------------------------------------------------
(* What is claimed of the views of one type.                               *)

\* What schema b returns is of type a.
Sound(a, b) == \A x : Fits(b, x) => Fits(a, Through(b, x))

\* The view has a value.
Defined(a) == \A x : Fits(a, x) => x.j # "undef"

\* What b returns of ordinary values of type a is ordinary.
Tame(a, b) == \A x : Fits(a, x) /\ Fits(b, x) /\ Ordinary(x) => Ordinary(Through(b, x))

\* serde takes the JSON of the values of type a.
Enters(a, c) == \A x : Fits(a, x) /\ Ordinary(x) => Fits(c, Json(x))

\* a admits no more than b.
Within(a, b) == \A x : Fits(a, x) /\ Ordinary(x) => Fits(b, x)

\* What serde writes is what the client parses, and would write.
Returns(w) == \A x : Fits(w, x) /\ Ordinary(x) => Parsed(x) = x /\ Json(x) = x

\* So is what schema b returns of it.
Restores(w, b) ==
    \A x : Fits(w, x) /\ Fits(b, x) /\ Ordinary(x) =>
              Json(Through(b, x)) = x /\ Through(b, x).j # "undef"

-----------------------------------------------------------------------------
(* The claims, for each view of the claims for its parts.                  *)

LEMMA NullIs ==
    ASSUME Unfolds
    PROVE  /\ Ordinary(Null) /\ Json(Null) = Null /\ Parsed(Null) = Null
           /\ Null.j # "undef" /\ Null \in LeafValues
<1>1. Null \in LeafValues /\ Null.j = "null"
  BY DEF LeafValues, Null
<1> QED BY <1>1, Values DEF OrdinaryLeaf, JsonLeaf, ParsedLeaf

LEMMA NullableClaims ==
    ASSUME Unfolds, NEW a, NEW b
    PROVE  /\ Sound(a, b) => Sound(Nullable(a), Nullable(b))
           /\ Defined(a) => Defined(Nullable(a))
           /\ Tame(a, b) => Tame(Nullable(a), Nullable(b))
           /\ Enters(a, b) /\ Defined(a) => Enters(Nullable(a), Nullable(b))
           /\ Within(a, b) => Within(Nullable(a), Nullable(b))
           /\ Returns(a) => Returns(Nullable(a))
           /\ Restores(a, b) => Restores(Nullable(a), Nullable(b))
<1>1. \A x : /\ Fits(Nullable(a), x) <=> x = Null \/ Fits(a, x)
             /\ Fits(Nullable(b), x) <=> x = Null \/ Fits(b, x)
             /\ Through(Nullable(b), x) = IF x = Null THEN x ELSE Through(b, x)
  BY FitsViews, ThroughViews
<1>2. Sound(a, b) => Sound(Nullable(a), Nullable(b))
  BY <1>1 DEF Sound
<1>3. Defined(a) => Defined(Nullable(a))
  BY <1>1, NullIs DEF Defined
<1>4. Tame(a, b) => Tame(Nullable(a), Nullable(b))
  BY <1>1, NullIs DEF Tame
<1>5. Enters(a, b) => Enters(Nullable(a), Nullable(b))
  BY <1>1, NullIs DEF Enters
<1>6. Within(a, b) => Within(Nullable(a), Nullable(b))
  BY <1>1 DEF Within
<1>7. Returns(a) => Returns(Nullable(a))
  BY <1>1, NullIs DEF Returns
<1>8. Restores(a, b) => Restores(Nullable(a), Nullable(b))
  BY <1>1, NullIs DEF Restores
<1> QED BY <1>2, <1>3, <1>4, <1>5, <1>6, <1>7, <1>8

\* Arrays, by their elements.
LEMMA ArrIs ==
    ASSUME NEW n \in Nat, NEW f, On(f, 1..n)
    PROVE  /\ IsArr(Arr(f)) /\ Arr(f).a = f /\ Arr(f).j = "arr"
           /\ Len(f) = n /\ DOMAIN f = 1..n
<1>1. f \in Seq(ToSet(f)) /\ Len(f) = n /\ DOMAIN f = 1..n
  <2>1. \A i \in 1..n : f[i] \in ToSet(f)
    BY DEF ToSet, On
  <2> QED BY <2>1 DEF On
<1> QED BY <1>1 DEF Arr, IsArr

LEMMA ArrValues ==
    ASSUME Unfolds, NEW n \in Nat, NEW f, On(f, 1..n)
    PROVE  /\ Ordinary(Arr(f)) <=> \A i \in 1..n : Ordinary(f[i])
           /\ Json(Arr(f)) = Arr([i \in 1..n |-> Json(f[i])])
           /\ Parsed(Arr(f)) = Arr([i \in 1..n |-> Parsed(f[i])])
<1> DEFINE x == Arr(f)
<1>1. IsArr(x) /\ x.a = f /\ DOMAIN f = 1..n
  BY ArrIs
<1> HIDE DEF x
<1>2. Ordinary(x) <=> \A i \in 1..n : Ordinary(f[i])
  BY <1>1, Values
<1>3. Json(x) = Arr([i \in 1..n |-> Json(f[i])])
  BY <1>1, Values
<1>4. Parsed(x) = Arr([i \in 1..n |-> Parsed(f[i])])
  <2>1. Parsed(x) = Arr([i \in DOMAIN x.a |-> Parsed(x.a[i])])
    BY <1>1, Values
  <2> QED BY <1>1, <2>1
<1> QED BY <1>2, <1>3, <1>4 DEF x

LEMMA ArrFits ==
    ASSUME Unfolds, NEW n \in Nat, NEW f, On(f, 1..n), NEW w
    PROVE  /\ Fits(ArrayOf(w), Arr(f)) <=> \A i \in 1..n : Fits(w, f[i])
           /\ Fits(Fixed(w), Arr(f)) <=> n = Len(w) /\ \A i \in 1..n : Fits(w[i], f[i])
BY ArrIs, FitsViews

LEMMA ArrThrough ==
    ASSUME Unfolds, NEW n \in Nat, NEW f, On(f, 1..n), NEW w
    PROVE  /\ Through(ArrayOf(w), Arr(f)) = Arr([i \in 1..n |-> Through(w, f[i])])
           /\ Through(Fixed(w), Arr(f)) = Arr([i \in 1..n |-> Through(w[i], f[i])])
<1> DEFINE x == Arr(f)
<1>1. x.a = f /\ DOMAIN f = 1..n
  BY ArrIs
<1> HIDE DEF x
<1>2. Through(ArrayOf(w), x) = Arr([i \in DOMAIN x.a |-> Through(w, x.a[i])])
  BY ThroughViews
<1>3. Through(Fixed(w), x) = Arr([i \in DOMAIN x.a |-> Through(w[i], x.a[i])])
  BY ThroughViews
<1> QED BY <1>1, <1>2, <1>3 DEF x

LEMMA ArrAt ==
    ASSUME Unfolds, NEW x, NEW w, Fits(ArrayOf(w), x) \/ Fits(Fixed(w), x)
    PROVE  \E n \in Nat : \E f : x = Arr(f) /\ On(f, 1..n)
<1>1. IsArr(x)
  BY FitsViews
<1>2. x.a \in Seq(ToSet(x.a)) /\ x = Arr(x.a)
  BY <1>1 DEF IsArr
<1>3. Len(x.a) \in Nat /\ x.a = [i \in 1..Len(x.a) |-> x.a[i]]
  BY <1>2
<1> QED BY <1>2, <1>3 DEF On

LEMMA FixedClaims ==
    ASSUME Unfolds, NEW a, NEW b, Len(a) = Len(b)
    PROVE  /\ (\A i \in 1..Len(a) : Sound(a[i], b[i])) => Sound(Fixed(a), Fixed(b))
           /\ Defined(Fixed(a))
           /\ (\A i \in 1..Len(a) : Tame(a[i], b[i])) => Tame(Fixed(a), Fixed(b))
           /\ (\A i \in 1..Len(a) : Enters(a[i], b[i])) => Enters(Fixed(a), Fixed(b))
           /\ (\A i \in 1..Len(a) : Within(a[i], b[i])) => Within(Fixed(a), Fixed(b))
           /\ (\A i \in 1..Len(a) : Returns(a[i])) => Returns(Fixed(a))
           /\ (\A i \in 1..Len(a) : Restores(a[i], b[i])) => Restores(Fixed(a), Fixed(b))
<1>1. ASSUME \A i \in 1..Len(a) : Sound(a[i], b[i])
      PROVE  Sound(Fixed(a), Fixed(b))
  <2> SUFFICES ASSUME NEW n \in Nat, NEW f, On(f, 1..n),
                      Fits(Fixed(b), Arr(f))
               PROVE  Fits(Fixed(a), Through(Fixed(b), Arr(f)))
    BY ArrAt DEF Sound
  <2> DEFINE g == [i \in 1..n |-> Through(b[i], f[i])]
  <2>1. n = Len(a) /\ \A i \in 1..n : Fits(b[i], f[i])
    BY ArrFits, ArrValues
  <2>2. Through(Fixed(b), Arr(f)) = Arr(g)
    BY ArrThrough
  <2>3. \A i \in 1..n : Fits(a[i], g[i])
    BY <1>1, <2>1 DEF Sound
  <2>4. On(g, 1..n)
    BY DEF On
  <2> HIDE DEF g
  <2> QED BY <2>1, <2>2, <2>3, <2>4, ArrFits
<1>2. Defined(Fixed(a))
  <2> SUFFICES ASSUME NEW n \in Nat, NEW f, On(f, 1..n),
                      Fits(Fixed(a), Arr(f))
               PROVE  Arr(f).j # "undef"
    BY ArrAt DEF Defined
  <2> QED BY ArrIs
<1>3. ASSUME \A i \in 1..Len(a) : Tame(a[i], b[i])
      PROVE  Tame(Fixed(a), Fixed(b))
  <2> SUFFICES ASSUME NEW n \in Nat, NEW f, On(f, 1..n),
                      Fits(Fixed(a), Arr(f)), Fits(Fixed(b), Arr(f)), Ordinary(Arr(f))
               PROVE  Ordinary(Through(Fixed(b), Arr(f)))
    BY ArrAt DEF Tame
  <2> DEFINE g == [i \in 1..n |-> Through(b[i], f[i])]
  <2>1. n = Len(a) /\ \A i \in 1..n : Fits(a[i], f[i]) /\ Fits(b[i], f[i]) /\ Ordinary(f[i])
    BY ArrFits, ArrValues
  <2>2. Through(Fixed(b), Arr(f)) = Arr(g)
    BY ArrThrough
  <2>3. \A i \in 1..n : Ordinary(g[i])
    BY <1>3, <2>1 DEF Tame
  <2>4. On(g, 1..n)
    BY DEF On
  <2> HIDE DEF g
  <2>5. Ordinary(Arr(g))
    BY <2>3, <2>4, ArrValues
  <2> QED BY <2>2, <2>5
<1>4. ASSUME \A i \in 1..Len(a) : Enters(a[i], b[i])
      PROVE  Enters(Fixed(a), Fixed(b))
  <2> SUFFICES ASSUME NEW n \in Nat, NEW f, On(f, 1..n),
                      Fits(Fixed(a), Arr(f)), Ordinary(Arr(f))
               PROVE  Fits(Fixed(b), Json(Arr(f)))
    BY ArrAt DEF Enters
  <2> DEFINE g == [i \in 1..n |-> Json(f[i])]
  <2>1. n = Len(a) /\ \A i \in 1..n : Fits(a[i], f[i]) /\ Ordinary(f[i])
    BY ArrFits, ArrValues
  <2>2. Json(Arr(f)) = Arr(g)
    BY ArrValues
  <2>3. \A i \in 1..n : Fits(b[i], g[i])
    BY <1>4, <2>1 DEF Enters
  <2>4. On(g, 1..n)
    BY DEF On
  <2> HIDE DEF g
  <2>5. Fits(Fixed(b), Arr(g))
    BY <2>2, <2>3, <2>4, ArrFits
  <2> QED BY <2>2, <2>5
<1>5. ASSUME \A i \in 1..Len(a) : Within(a[i], b[i])
      PROVE  Within(Fixed(a), Fixed(b))
  <2> SUFFICES ASSUME NEW n \in Nat, NEW f, On(f, 1..n),
                      Fits(Fixed(a), Arr(f)), Ordinary(Arr(f))
               PROVE  Fits(Fixed(b), Arr(f))
    BY ArrAt DEF Within
  <2>1. n = Len(a) /\ \A i \in 1..n : Fits(b[i], f[i])
    BY <1>5, ArrFits, ArrValues DEF Within
  <2> QED BY <2>1, ArrFits
<1>6. ASSUME \A i \in 1..Len(a) : Returns(a[i])
      PROVE  Returns(Fixed(a))
  <2> SUFFICES ASSUME NEW n \in Nat, NEW f, On(f, 1..n),
                      Fits(Fixed(a), Arr(f)), Ordinary(Arr(f))
               PROVE  Parsed(Arr(f)) = Arr(f) /\ Json(Arr(f)) = Arr(f)
    BY ArrAt DEF Returns
  <2>1. n = Len(a) /\ \A i \in 1..n : Fits(a[i], f[i]) /\ Ordinary(f[i])
    BY ArrFits, ArrValues
  <2>2. \A i \in 1..n : Parsed(f[i]) = f[i] /\ Json(f[i]) = f[i]
    BY <1>6, <2>1 DEF Returns
  <2>3. [i \in 1..n |-> Parsed(f[i])] = f /\ [i \in 1..n |-> Json(f[i])] = f
    BY <2>2 DEF On
  <2> QED BY <2>3, ArrValues
<1>7. ASSUME \A i \in 1..Len(a) : Restores(a[i], b[i])
      PROVE  Restores(Fixed(a), Fixed(b))
  <2> SUFFICES ASSUME NEW n \in Nat, NEW f, On(f, 1..n),
                      Fits(Fixed(a), Arr(f)), Fits(Fixed(b), Arr(f)), Ordinary(Arr(f))
               PROVE  /\ Json(Through(Fixed(b), Arr(f))) = Arr(f)
                      /\ Through(Fixed(b), Arr(f)).j # "undef"
    BY ArrAt DEF Restores
  <2> DEFINE g == [i \in 1..n |-> Through(b[i], f[i])]
  <2>1. n = Len(a) /\ \A i \in 1..n : Fits(a[i], f[i]) /\ Fits(b[i], f[i]) /\ Ordinary(f[i])
    BY ArrFits, ArrValues
  <2>2. Through(Fixed(b), Arr(f)) = Arr(g)
    BY ArrThrough
  <2>3. \A i \in 1..n : Json(g[i]) = f[i]
    BY <1>7, <2>1 DEF Restores
  <2>4. On(g, 1..n)
    BY DEF On
  <2> HIDE DEF g
  <2>5. [i \in 1..n |-> Json(g[i])] = f
    BY <2>3 DEF On
  <2>6. Json(Arr(g)) = Arr(f) /\ Arr(g).j # "undef"
    BY <2>4, <2>5, ArrValues, ArrIs
  <2> QED BY <2>2, <2>6
<1> QED BY <1>1, <1>2, <1>3, <1>4, <1>5, <1>6, <1>7

LEMMA ArrayClaims ==
    ASSUME Unfolds, NEW a, NEW b
    PROVE  /\ Sound(a, b) => Sound(ArrayOf(a), ArrayOf(b))
           /\ Defined(ArrayOf(a))
           /\ Tame(a, b) => Tame(ArrayOf(a), ArrayOf(b))
           /\ Enters(a, b) => Enters(ArrayOf(a), ArrayOf(b))
           /\ Within(a, b) => Within(ArrayOf(a), ArrayOf(b))
           /\ Returns(a) => Returns(ArrayOf(a))
           /\ Restores(a, b) => Restores(ArrayOf(a), ArrayOf(b))
<1>1. ASSUME Sound(a, b)
      PROVE  Sound(ArrayOf(a), ArrayOf(b))
  <2> SUFFICES ASSUME NEW n \in Nat, NEW f, On(f, 1..n),
                      Fits(ArrayOf(b), Arr(f))
               PROVE  Fits(ArrayOf(a), Through(ArrayOf(b), Arr(f)))
    BY ArrAt DEF Sound
  <2> DEFINE g == [i \in 1..n |-> Through(b, f[i])]
  <2>1. \A i \in 1..n : Fits(b, f[i])
    BY ArrFits, ArrValues
  <2>2. Through(ArrayOf(b), Arr(f)) = Arr(g)
    BY ArrThrough
  <2>3. \A i \in 1..n : Fits(a, g[i])
    BY <1>1, <2>1 DEF Sound
  <2>4. On(g, 1..n)
    BY DEF On
  <2> HIDE DEF g
  <2> QED BY <2>1, <2>2, <2>3, <2>4, ArrFits
<1>2. Defined(ArrayOf(a))
  <2> SUFFICES ASSUME NEW n \in Nat, NEW f, On(f, 1..n),
                      Fits(ArrayOf(a), Arr(f))
               PROVE  Arr(f).j # "undef"
    BY ArrAt DEF Defined
  <2> QED BY ArrIs
<1>3. ASSUME Tame(a, b)
      PROVE  Tame(ArrayOf(a), ArrayOf(b))
  <2> SUFFICES ASSUME NEW n \in Nat, NEW f, On(f, 1..n),
                      Fits(ArrayOf(a), Arr(f)), Fits(ArrayOf(b), Arr(f)), Ordinary(Arr(f))
               PROVE  Ordinary(Through(ArrayOf(b), Arr(f)))
    BY ArrAt DEF Tame
  <2> DEFINE g == [i \in 1..n |-> Through(b, f[i])]
  <2>1. \A i \in 1..n : Fits(a, f[i]) /\ Fits(b, f[i]) /\ Ordinary(f[i])
    BY ArrFits, ArrValues
  <2>2. Through(ArrayOf(b), Arr(f)) = Arr(g)
    BY ArrThrough
  <2>3. \A i \in 1..n : Ordinary(g[i])
    BY <1>3, <2>1 DEF Tame
  <2>4. On(g, 1..n)
    BY DEF On
  <2> HIDE DEF g
  <2> QED BY <2>2, <2>3, <2>4, ArrValues
<1>4. ASSUME Enters(a, b)
      PROVE  Enters(ArrayOf(a), ArrayOf(b))
  <2> SUFFICES ASSUME NEW n \in Nat, NEW f, On(f, 1..n),
                      Fits(ArrayOf(a), Arr(f)), Ordinary(Arr(f))
               PROVE  Fits(ArrayOf(b), Json(Arr(f)))
    BY ArrAt DEF Enters
  <2> DEFINE g == [i \in 1..n |-> Json(f[i])]
  <2>1. \A i \in 1..n : Fits(a, f[i]) /\ Ordinary(f[i])
    BY ArrFits, ArrValues
  <2>2. Json(Arr(f)) = Arr(g)
    BY ArrValues
  <2>3. \A i \in 1..n : Fits(b, g[i])
    BY <1>4, <2>1 DEF Enters
  <2>4. On(g, 1..n)
    BY DEF On
  <2> HIDE DEF g
  <2>5. Fits(ArrayOf(b), Arr(g))
    BY <2>3, <2>4, ArrFits
  <2> QED BY <2>2, <2>5
<1>5. ASSUME Within(a, b)
      PROVE  Within(ArrayOf(a), ArrayOf(b))
  <2> SUFFICES ASSUME NEW n \in Nat, NEW f, On(f, 1..n),
                      Fits(ArrayOf(a), Arr(f)), Ordinary(Arr(f))
               PROVE  Fits(ArrayOf(b), Arr(f))
    BY ArrAt DEF Within
  <2>1. \A i \in 1..n : Fits(b, f[i])
    BY <1>5, ArrFits, ArrValues DEF Within
  <2> QED BY <2>1, ArrFits
<1>6. ASSUME Returns(a)
      PROVE  Returns(ArrayOf(a))
  <2> SUFFICES ASSUME NEW n \in Nat, NEW f, On(f, 1..n),
                      Fits(ArrayOf(a), Arr(f)), Ordinary(Arr(f))
               PROVE  Parsed(Arr(f)) = Arr(f) /\ Json(Arr(f)) = Arr(f)
    BY ArrAt DEF Returns
  <2>1. \A i \in 1..n : Fits(a, f[i]) /\ Ordinary(f[i])
    BY ArrFits, ArrValues
  <2>2. \A i \in 1..n : Parsed(f[i]) = f[i] /\ Json(f[i]) = f[i]
    BY <1>6, <2>1 DEF Returns
  <2>3. [i \in 1..n |-> Parsed(f[i])] = f /\ [i \in 1..n |-> Json(f[i])] = f
    BY <2>2 DEF On
  <2> QED BY <2>3, ArrValues
<1>7. ASSUME Restores(a, b)
      PROVE  Restores(ArrayOf(a), ArrayOf(b))
  <2> SUFFICES ASSUME NEW n \in Nat, NEW f, On(f, 1..n),
                      Fits(ArrayOf(a), Arr(f)), Fits(ArrayOf(b), Arr(f)), Ordinary(Arr(f))
               PROVE  /\ Json(Through(ArrayOf(b), Arr(f))) = Arr(f)
                      /\ Through(ArrayOf(b), Arr(f)).j # "undef"
    BY ArrAt DEF Restores
  <2> DEFINE g == [i \in 1..n |-> Through(b, f[i])]
  <2>1. \A i \in 1..n : Fits(a, f[i]) /\ Fits(b, f[i]) /\ Ordinary(f[i])
    BY ArrFits, ArrValues
  <2>2. Through(ArrayOf(b), Arr(f)) = Arr(g)
    BY ArrThrough
  <2>3. \A i \in 1..n : Json(g[i]) = f[i]
    BY <1>7, <2>1 DEF Restores
  <2>4. On(g, 1..n)
    BY DEF On
  <2> HIDE DEF g
  <2>5. [i \in 1..n |-> Json(g[i])] = f
    BY <2>3 DEF On
  <2>6. Json(Arr(g)) = Arr(f) /\ Arr(g).j # "undef"
    BY <2>4, <2>5, ArrValues, ArrIs
  <2> QED BY <2>2, <2>6
<1> QED BY <1>1, <1>2, <1>3, <1>4, <1>5, <1>6, <1>7

-----------------------------------------------------------------------------
(* Objects, by their keys.                                                 *)

LEMMA ObjAt ==
    ASSUME NEW x, IsObj(x)
    PROVE  \E D, f : x = Obj(f) /\ On(f, D)
<1> DEFINE f == [m \in DOMAIN x.o |-> x.o[m]]
<1>1. x = Obj(f) /\ On(f, DOMAIN x.o)
  BY DEF IsObj, On
<1> QED BY <1>1

LEMMA RecordAt ==
    ASSUME Unfolds, NEW x, NEW w, Fits(RecordOf(w), x)
    PROVE  \E D, f : x = Obj(f) /\ On(f, D)
BY ObjAt, FitsViews

LEMMA ObjectAt ==
    ASSUME Unfolds, NEW x, NEW w, NEW keys, Fits(Object(w, keys), x)
    PROVE  \E D, f : x = Obj(f) /\ On(f, D)
<1>1. IsObj(x)
  BY FitsViews
<1> QED BY <1>1, ObjAt

LEMMA ObjValues ==
    ASSUME Unfolds, NEW D, NEW f, On(f, D)
    PROVE  /\ Ordinary(Obj(f)) <=> \A m \in D : Ordinary(f[m])
           /\ Json(Obj(f)) = Obj([m \in {m \in D : f[m].j # "undef"} |-> Json(f[m])])
           /\ Parsed(Obj(f)) = Obj([m \in D |-> Parsed(f[m])])
<1> DEFINE x == Obj(f)
<1>1. IsObj(x) /\ x.o = f /\ DOMAIN f = D
  BY ObjIs
<1> HIDE DEF x
<1>2. Ordinary(x) <=> \A m \in D : Ordinary(f[m])
  BY <1>1, Values
<1>3. Json(x) = Obj([m \in {m \in D : f[m].j # "undef"} |-> Json(f[m])])
  <2>1. Json(x) = Obj([m \in {m \in DOMAIN x.o : x.o[m].j # "undef"} |-> Json(x.o[m])])
    BY <1>1, Values
  <2> QED BY <1>1, <2>1
<1>4. Parsed(x) = Obj([m \in D |-> Parsed(f[m])])
  <2>1. Parsed(x) = Obj([m \in DOMAIN x.o |-> Parsed(x.o[m])])
    BY <1>1, Values
  <2> QED BY <1>1, <2>1
<1> QED BY <1>2, <1>3, <1>4 DEF x

LEMMA ObjFits ==
    ASSUME Unfolds, NEW D, NEW f, On(f, D), NEW w
    PROVE  /\ Fits(RecordOf(w), Obj(f)) <=> \A m \in D : Fits(w, f[m])
           /\ \A keys : Fits(Object(w, keys), Obj(f)) <=>
                /\ \A i \in DOMAIN w : IF w[i].name \in D THEN Fits(w[i].view, f[w[i].name])
                                       ELSE ~w[i].required
                /\ keys = "any" \/ D \subseteq Names(w)
BY ObjIs, FitsViews

LEMMA ObjThrough ==
    ASSUME Unfolds, NEW D, NEW f, On(f, D), NEW w
    PROVE  Through(RecordOf(w), Obj(f)) = Obj([m \in D |-> Through(w, f[m])])
<1> DEFINE x == Obj(f)
<1>1. x.o = f /\ DOMAIN f = D
  BY ObjIs
<1> HIDE DEF x
<1>2. Through(RecordOf(w), x) = Obj([m \in DOMAIN x.o |-> Through(w, x.o[m])])
  BY ThroughViews
<1> QED BY <1>1, <1>2 DEF x

LEMMA ObjectThrough ==
    ASSUME Unfolds, NEW D, NEW f, On(f, D), NEW w, NEW keys
    PROVE  Through(Object(w, keys), Obj(f)) =
             Obj([m \in D \cap Names(w) |-> Through(PartOf(w, m).view, f[m])])
<1> DEFINE x == Obj(f)
<1>1. x.o = f /\ DOMAIN f = D
  BY ObjIs
<1> HIDE DEF x
<1>2. Through(Object(w, keys), x) =
        Obj([m \in DOMAIN x.o \cap Names(w) |-> Through(PartOf(w, m).view, x.o[m])])
  BY ThroughObject
<1> QED BY <1>1, <1>2 DEF x

LEMMA RecordClaims ==
    ASSUME Unfolds, NEW a, NEW b
    PROVE  /\ Sound(a, b) => Sound(RecordOf(a), RecordOf(b))
           /\ Defined(RecordOf(a))
           /\ Tame(a, b) => Tame(RecordOf(a), RecordOf(b))
           /\ Enters(a, b) => Enters(RecordOf(a), RecordOf(b))
           /\ Within(a, b) => Within(RecordOf(a), RecordOf(b))
           /\ Returns(a) /\ Defined(a) => Returns(RecordOf(a))
           /\ Restores(a, b) => Restores(RecordOf(a), RecordOf(b))
<1>1. ASSUME Sound(a, b)
      PROVE  Sound(RecordOf(a), RecordOf(b))
  <2> SUFFICES ASSUME NEW D, NEW f, On(f, D), Fits(RecordOf(b), Obj(f))
               PROVE  Fits(RecordOf(a), Through(RecordOf(b), Obj(f)))
    BY RecordAt DEF Sound
  <2> DEFINE g == [m \in D |-> Through(b, f[m])]
  <2>1. \A m \in D : Fits(b, f[m])
    BY ObjFits
  <2>2. Through(RecordOf(b), Obj(f)) = Obj(g)
    BY ObjThrough
  <2>3. \A m \in D : Fits(a, g[m])
    BY <1>1, <2>1 DEF Sound
  <2>4. On(g, D)
    BY DEF On
  <2> HIDE DEF g
  <2> QED BY <2>2, <2>3, <2>4, ObjFits
<1>2. Defined(RecordOf(a))
  <2> SUFFICES ASSUME NEW D, NEW f, On(f, D), Fits(RecordOf(a), Obj(f))
               PROVE  Obj(f).j # "undef"
    BY RecordAt DEF Defined
  <2> QED BY ObjIs
<1>3. ASSUME Tame(a, b)
      PROVE  Tame(RecordOf(a), RecordOf(b))
  <2> SUFFICES ASSUME NEW D, NEW f, On(f, D),
                      Fits(RecordOf(a), Obj(f)), Fits(RecordOf(b), Obj(f)), Ordinary(Obj(f))
               PROVE  Ordinary(Through(RecordOf(b), Obj(f)))
    BY RecordAt DEF Tame
  <2> DEFINE g == [m \in D |-> Through(b, f[m])]
  <2>1. \A m \in D : Fits(a, f[m]) /\ Fits(b, f[m]) /\ Ordinary(f[m])
    BY ObjFits, ObjValues
  <2>2. Through(RecordOf(b), Obj(f)) = Obj(g)
    BY ObjThrough
  <2>3. \A m \in D : Ordinary(g[m])
    BY <1>3, <2>1 DEF Tame
  <2>4. On(g, D)
    BY DEF On
  <2> HIDE DEF g
  <2>5. Ordinary(Obj(g))
    BY <2>3, <2>4, ObjValues
  <2> QED BY <2>2, <2>5
<1>4. ASSUME Enters(a, b)
      PROVE  Enters(RecordOf(a), RecordOf(b))
  <2> SUFFICES ASSUME NEW D, NEW f, On(f, D),
                      Fits(RecordOf(a), Obj(f)), Ordinary(Obj(f))
               PROVE  Fits(RecordOf(b), Json(Obj(f)))
    BY RecordAt DEF Enters
  <2> DEFINE E == {m \in D : f[m].j # "undef"}
             g == [m \in E |-> Json(f[m])]
  <2>1. \A m \in D : Fits(a, f[m]) /\ Ordinary(f[m])
    BY ObjFits, ObjValues
  <2>2. Json(Obj(f)) = Obj(g)
    BY ObjValues
  <2>3. \A m \in E : Fits(b, g[m])
    BY <1>4, <2>1 DEF Enters
  <2>4. On(g, E)
    BY DEF On
  <2> HIDE DEF g, E
  <2>5. Fits(RecordOf(b), Obj(g))
    BY <2>3, <2>4, ObjFits
  <2> QED BY <2>2, <2>5
<1>5. ASSUME Within(a, b)
      PROVE  Within(RecordOf(a), RecordOf(b))
  <2> SUFFICES ASSUME NEW D, NEW f, On(f, D),
                      Fits(RecordOf(a), Obj(f)), Ordinary(Obj(f))
               PROVE  Fits(RecordOf(b), Obj(f))
    BY RecordAt DEF Within
  <2>1. \A m \in D : Fits(a, f[m]) /\ Ordinary(f[m])
    BY ObjFits, ObjValues
  <2>2. \A m \in D : Fits(b, f[m])
    BY <1>5, <2>1 DEF Within
  <2> QED BY <2>2, ObjFits
<1>6. ASSUME Returns(a), Defined(a)
      PROVE  Returns(RecordOf(a))
  <2> SUFFICES ASSUME NEW D, NEW f, On(f, D),
                      Fits(RecordOf(a), Obj(f)), Ordinary(Obj(f))
               PROVE  Parsed(Obj(f)) = Obj(f) /\ Json(Obj(f)) = Obj(f)
    BY RecordAt DEF Returns
  <2>1. \A m \in D : Fits(a, f[m]) /\ Ordinary(f[m])
    BY ObjFits, ObjValues
  <2>2. \A m \in D : Parsed(f[m]) = f[m] /\ Json(f[m]) = f[m] /\ f[m].j # "undef"
    BY <1>6, <2>1 DEF Returns, Defined
  <2>3. /\ [m \in D |-> Parsed(f[m])] = f
        /\ [m \in {m \in D : f[m].j # "undef"} |-> Json(f[m])] = f
    BY <2>2 DEF On
  <2> QED BY <2>3, ObjValues
<1>7. ASSUME Restores(a, b)
      PROVE  Restores(RecordOf(a), RecordOf(b))
  <2> SUFFICES ASSUME NEW D, NEW f, On(f, D),
                      Fits(RecordOf(a), Obj(f)), Fits(RecordOf(b), Obj(f)), Ordinary(Obj(f))
               PROVE  /\ Json(Through(RecordOf(b), Obj(f))) = Obj(f)
                      /\ Through(RecordOf(b), Obj(f)).j # "undef"
    BY RecordAt DEF Restores
  <2> DEFINE g == [m \in D |-> Through(b, f[m])]
  <2>1. \A m \in D : Fits(a, f[m]) /\ Fits(b, f[m]) /\ Ordinary(f[m])
    BY ObjFits, ObjValues
  <2>2. Through(RecordOf(b), Obj(f)) = Obj(g)
    BY ObjThrough
  <2>3. \A m \in D : Json(g[m]) = f[m] /\ g[m].j # "undef"
    BY <1>7, <2>1 DEF Restores
  <2>4. On(g, D)
    BY DEF On
  <2> HIDE DEF g
  <2>5. [m \in {m \in D : g[m].j # "undef"} |-> Json(g[m])] = f
    BY <2>3 DEF On
  <2>6. Json(Obj(g)) = Obj([m \in {m \in D : g[m].j # "undef"} |-> Json(g[m])])
    BY <2>4, ObjValues
  <2>7. Obj(g).j # "undef"
    BY DEF Obj
  <2> QED BY <2>2, <2>5, <2>6, <2>7
<1> QED BY <1>1, <1>2, <1>3, <1>4, <1>5, <1>6, <1>7

\* Parts of the same names; parts of different names.
Aligned(a, b) == DOMAIN a = DOMAIN b /\ \A i \in DOMAIN a : a[i].name = b[i].name
Differ(a) == \A i, k \in DOMAIN a : a[i].name = a[k].name => i = k

\* serde takes the JSON of a part that may be absent.
PartEnters(p, q) ==
    \A x : Fits(p.view, x) /\ Ordinary(x) =>
              IF x.j = "undef" THEN ~q.required ELSE Fits(q.view, Json(x))

LEMMA PartIs ==
    ASSUME NEW a, Differ(a), NEW i \in DOMAIN a
    PROVE  PartOf(a, a[i].name) = a[i]
<1> DEFINE k == CHOOSE k \in DOMAIN a : a[k].name = a[i].name
<1>1. k \in DOMAIN a /\ a[k].name = a[i].name
  OBVIOUS
<1>2. k = i
  BY <1>1 DEF Differ
<1> QED BY <1>2 DEF PartOf

\* What an object's schema returns, part by part.
Kept(b, f, D) == [m \in D \cap Names(b) |-> Through(PartOf(b, m).view, f[m])]

LEMMA PartsThrough ==
    ASSUME Unfolds, NEW D, NEW f, On(f, D), NEW b, NEW keys, Differ(b)
    PROVE  /\ Through(Object(b, keys), Obj(f)) = Obj(Kept(b, f, D))
           /\ On(Kept(b, f, D), D \cap Names(b))
           /\ \A i \in DOMAIN b : b[i].name \in D =>
                 Kept(b, f, D)[b[i].name] = Through(b[i].view, f[b[i].name])
<1>1. Through(Object(b, keys), Obj(f)) = Obj(Kept(b, f, D))
  BY ObjectThrough DEF Kept
<1>2. ASSUME NEW i \in DOMAIN b, b[i].name \in D
      PROVE  Kept(b, f, D)[b[i].name] = Through(b[i].view, f[b[i].name])
  <2>1. b[i].name \in D \cap Names(b)
    BY <1>2 DEF Names
  <2> QED BY <2>1, PartIs DEF Kept
<1>3. On(Kept(b, f, D), D \cap Names(b))
  BY DEF Kept, On
<1> QED BY <1>1, <1>2, <1>3

LEMMA ObjectSound ==
    ASSUME Unfolds, NEW a, NEW b, Aligned(a, b), Differ(b),
           \A i \in DOMAIN a : b[i].required /\ Sound(a[i].view, b[i].view)
    PROVE  Sound(Object(a, "any"), Object(b, "any"))
<1> SUFFICES ASSUME NEW D, NEW f, On(f, D), Fits(Object(b, "any"), Obj(f))
             PROVE  Fits(Object(a, "any"), Through(Object(b, "any"), Obj(f)))
  BY ObjectAt DEF Sound
<1>1. \A i \in DOMAIN b : b[i].name \in D /\ Fits(b[i].view, f[b[i].name])
  <2>1. \A i \in DOMAIN b : IF b[i].name \in D THEN Fits(b[i].view, f[b[i].name])
                            ELSE ~b[i].required
    BY ObjFits
  <2> QED BY <2>1 DEF Aligned
<1> DEFINE g == Kept(b, f, D)
<1>2. /\ Through(Object(b, "any"), Obj(f)) = Obj(g)
      /\ On(g, D \cap Names(b))
      /\ \A i \in DOMAIN b : b[i].name \in D =>
            g[b[i].name] = Through(b[i].view, f[b[i].name])
  BY PartsThrough
<1> HIDE DEF g
<1>3. \A i \in DOMAIN a : a[i].name \in D \cap Names(b) /\ Fits(a[i].view, g[a[i].name])
  <2> SUFFICES ASSUME NEW i \in DOMAIN a
               PROVE  a[i].name \in D \cap Names(b) /\ Fits(a[i].view, g[a[i].name])
    OBVIOUS
  <2>1. i \in DOMAIN b /\ a[i].name = b[i].name
    BY DEF Aligned
  <2>2. Fits(b[i].view, f[b[i].name]) /\ g[b[i].name] = Through(b[i].view, f[b[i].name])
    BY <1>1, <1>2, <2>1
  <2> QED BY <1>1, <2>1, <2>2 DEF Names, Sound
<1>4. Fits(Object(a, "any"), Obj(g))
  BY <1>2, <1>3, ObjFits
<1> QED BY <1>2, <1>4

LEMMA ObjectDefined ==
    ASSUME Unfolds, NEW a, NEW keys
    PROVE  Defined(Object(a, keys))
<1> SUFFICES ASSUME NEW D, NEW f, On(f, D), Fits(Object(a, keys), Obj(f))
             PROVE  Obj(f).j # "undef"
  BY ObjectAt DEF Defined
<1> QED BY ObjIs

LEMMA ObjectTame ==
    ASSUME Unfolds, NEW a, NEW b, Aligned(a, b), Differ(b),
           \A i \in DOMAIN a : b[i].required /\ Tame(a[i].view, b[i].view)
    PROVE  Tame(Object(a, "any"), Object(b, "any"))
<1> SUFFICES ASSUME NEW D, NEW f, On(f, D), Fits(Object(a, "any"), Obj(f)),
                    Fits(Object(b, "any"), Obj(f)), Ordinary(Obj(f))
             PROVE  Ordinary(Through(Object(b, "any"), Obj(f)))
  BY ObjectAt DEF Tame
<1>1. \A i \in DOMAIN b : b[i].name \in D /\ Fits(b[i].view, f[b[i].name])
  <2>1. \A i \in DOMAIN b : IF b[i].name \in D THEN Fits(b[i].view, f[b[i].name])
                            ELSE ~b[i].required
    BY ObjFits
  <2> QED BY <2>1 DEF Aligned
<1>2. \A i \in DOMAIN b : Fits(a[i].view, f[b[i].name])
  <2>1. \A i \in DOMAIN a : IF a[i].name \in D THEN Fits(a[i].view, f[a[i].name])
                            ELSE ~a[i].required
    BY ObjFits
  <2> QED BY <1>1, <2>1 DEF Aligned
<1>3. \A m \in D : Ordinary(f[m])
  BY ObjValues
<1> DEFINE g == Kept(b, f, D)
<1>4. /\ Through(Object(b, "any"), Obj(f)) = Obj(g)
      /\ On(g, D \cap Names(b))
      /\ \A i \in DOMAIN b : b[i].name \in D =>
            g[b[i].name] = Through(b[i].view, f[b[i].name])
  BY PartsThrough
<1> HIDE DEF g
<1>5. \A i \in DOMAIN b : Ordinary(g[b[i].name])
  BY <1>1, <1>2, <1>3, <1>4 DEF Aligned, Tame
<1>6. Ordinary(Obj(g))
  <2>1. \A m \in D \cap Names(b) : Ordinary(g[m])
    BY <1>5 DEF Names
  <2> QED BY <1>4, <2>1, ObjValues
<1> QED BY <1>4, <1>6

LEMMA ObjectEnters ==
    ASSUME Unfolds, NEW a, NEW c, Aligned(a, c),
           \A i \in DOMAIN a : (c[i].required => a[i].required) /\ PartEnters(a[i], c[i])
    PROVE  Enters(Object(a, "any"), Object(c, "any"))
<1> SUFFICES ASSUME NEW D, NEW f, On(f, D), Fits(Object(a, "any"), Obj(f)),
                    Ordinary(Obj(f))
             PROVE  Fits(Object(c, "any"), Json(Obj(f)))
  BY ObjectAt DEF Enters
<1> DEFINE E == {m \in D : f[m].j # "undef"}
           g == [m \in E |-> Json(f[m])]
<1>1. \A i \in DOMAIN a : IF a[i].name \in D THEN Fits(a[i].view, f[a[i].name])
                          ELSE ~a[i].required
  BY ObjFits
<1>2. \A m \in D : Ordinary(f[m])
  BY ObjValues
<1>3. \A i \in DOMAIN c : IF c[i].name \in E THEN Fits(c[i].view, g[c[i].name])
                          ELSE ~c[i].required
  BY <1>1, <1>2 DEF Aligned, PartEnters
<1>4. Json(Obj(f)) = Obj(g)
  BY ObjValues
<1>5. On(g, E)
  BY DEF On
<1> HIDE DEF g, E
<1>6. Fits(Object(c, "any"), Obj(g))
  BY <1>3, <1>5, ObjFits
<1> QED BY <1>4, <1>6

LEMMA ObjectWithin ==
    ASSUME Unfolds, NEW a, NEW b, NEW keys, Aligned(a, b),
           \A i \in DOMAIN a : (b[i].required => a[i].required) /\ Within(a[i].view, b[i].view)
    PROVE  Within(Object(a, keys), Object(b, "any"))
<1> SUFFICES ASSUME NEW D, NEW f, On(f, D), Fits(Object(a, keys), Obj(f)),
                    Ordinary(Obj(f))
             PROVE  Fits(Object(b, "any"), Obj(f))
  BY ObjectAt DEF Within
<1>1. \A i \in DOMAIN a : IF a[i].name \in D THEN Fits(a[i].view, f[a[i].name])
                          ELSE ~a[i].required
  BY ObjFits
<1>2. \A m \in D : Ordinary(f[m])
  BY ObjValues
<1>3. \A i \in DOMAIN b : IF b[i].name \in D THEN Fits(b[i].view, f[b[i].name])
                          ELSE ~b[i].required
  BY <1>1, <1>2 DEF Aligned, Within
<1> QED BY <1>3, ObjFits

LEMMA ObjectReturns ==
    ASSUME Unfolds, NEW a, \A i \in DOMAIN a : Returns(a[i].view) /\ Defined(a[i].view)
    PROVE  Returns(Object(a, "named"))
<1> SUFFICES ASSUME NEW D, NEW f, On(f, D), Fits(Object(a, "named"), Obj(f)),
                    Ordinary(Obj(f))
             PROVE  Parsed(Obj(f)) = Obj(f) /\ Json(Obj(f)) = Obj(f)
  BY ObjectAt DEF Returns
<1>1. /\ \A i \in DOMAIN a : a[i].name \in D => Fits(a[i].view, f[a[i].name])
      /\ D \subseteq Names(a)
  BY ObjFits
<1>2. \A m \in D : Ordinary(f[m])
  BY ObjValues
<1>3. \A m \in D : Parsed(f[m]) = f[m] /\ Json(f[m]) = f[m] /\ f[m].j # "undef"
  BY <1>1, <1>2 DEF Names, Returns, Defined
<1>4. /\ [m \in D |-> Parsed(f[m])] = f
      /\ [m \in {m \in D : f[m].j # "undef"} |-> Json(f[m])] = f
  BY <1>3 DEF On
<1> QED BY <1>4, ObjValues

LEMMA ObjectRestores ==
    ASSUME Unfolds, NEW a, NEW b, Aligned(a, b), Differ(b),
           \A i \in DOMAIN a : b[i].required /\ Restores(a[i].view, b[i].view)
    PROVE  Restores(Object(a, "named"), Object(b, "any"))
<1> SUFFICES ASSUME NEW D, NEW f, On(f, D), Fits(Object(a, "named"), Obj(f)),
                    Fits(Object(b, "any"), Obj(f)), Ordinary(Obj(f))
             PROVE  /\ Json(Through(Object(b, "any"), Obj(f))) = Obj(f)
                    /\ Through(Object(b, "any"), Obj(f)).j # "undef"
  BY ObjectAt DEF Restores
<1>1. \A i \in DOMAIN b : b[i].name \in D /\ Fits(b[i].view, f[b[i].name])
  <2>1. \A i \in DOMAIN b : IF b[i].name \in D THEN Fits(b[i].view, f[b[i].name])
                            ELSE ~b[i].required
    BY ObjFits
  <2> QED BY <2>1 DEF Aligned
<1>2. /\ \A i \in DOMAIN b : Fits(a[i].view, f[b[i].name])
      /\ D \subseteq Names(a)
  <2>1. /\ \A i \in DOMAIN a : IF a[i].name \in D THEN Fits(a[i].view, f[a[i].name])
                               ELSE ~a[i].required
        /\ D \subseteq Names(a)
    BY ObjFits
  <2> QED BY <1>1, <2>1 DEF Aligned
<1>3. \A m \in D : Ordinary(f[m])
  BY ObjValues
<1> DEFINE g == Kept(b, f, D)
<1>4. /\ Through(Object(b, "any"), Obj(f)) = Obj(g)
      /\ On(g, D \cap Names(b))
      /\ \A i \in DOMAIN b : b[i].name \in D =>
            g[b[i].name] = Through(b[i].view, f[b[i].name])
  BY PartsThrough
<1> HIDE DEF g
<1>5. D \cap Names(b) = D
  BY <1>2 DEF Aligned, Names
<1>6. \A m \in D : Json(g[m]) = f[m] /\ g[m].j # "undef"
  <2> SUFFICES ASSUME NEW m \in D
               PROVE  Json(g[m]) = f[m] /\ g[m].j # "undef"
    OBVIOUS
  <2>1. PICK i \in DOMAIN b : b[i].name = m
    BY <1>5 DEF Names
  <2>2. g[m] = Through(b[i].view, f[m])
    BY <1>4, <2>1
  <2>3. Fits(a[i].view, f[m]) /\ Fits(b[i].view, f[m]) /\ Ordinary(f[m])
    BY <1>1, <1>2, <1>3, <2>1
  <2> QED BY <2>1, <2>2, <2>3 DEF Aligned, Restores
<1>7. [m \in {m \in D : g[m].j # "undef"} |-> Json(g[m])] = f
  BY <1>6 DEF On
<1>8. Json(Obj(g)) = Obj([m \in {m \in D : g[m].j # "undef"} |-> Json(g[m])])
  <2>1. On(g, D)
    BY <1>4, <1>5
  <2> QED BY <2>1, ObjValues
<1>9. Obj(g).j # "undef"
  BY DEF Obj
<1> QED BY <1>4, <1>7, <1>8, <1>9

-----------------------------------------------------------------------------
(* Tags and unions.                                                        *)

LEMMA LiteralClaims ==
    ASSUME Unfolds, NEW name
    PROVE  LET w == Literal(name) IN
           /\ Sound(w, w) /\ Defined(w) /\ Tame(w, w) /\ Enters(w, w)
           /\ Within(w, w) /\ Returns(w) /\ Restores(w, w)
<1> DEFINE w == Literal(name)
<1>1. \A x : Fits(w, x) <=> x = Str(name)
  BY FitsViews
<1>2. \A x : Through(w, x) = x
  BY ThroughViews
<1>3. Json(Str(name)) = Str(name) /\ Parsed(Str(name)) = Str(name) /\ Str(name).j = "str"
  <2>1. Json(Str(name)) = JsonOf(Str(name)) /\ Parsed(Str(name)) = ParsedOf(Str(name))
    BY DEF Unfolds
  <2>2. Str(name).j = "str"
    BY DEF Str
  <2> QED BY <2>1, <2>2 DEF JsonOf, ParsedOf, JsonLeaf, ParsedLeaf
<1> HIDE DEF w
<1>4. Sound(w, w) /\ Defined(w) /\ Tame(w, w)
  BY <1>1, <1>2, <1>3 DEF Sound, Defined, Tame
<1>5. Enters(w, w) /\ Within(w, w)
  BY <1>1, <1>3 DEF Enters, Within
<1>6. Returns(w) /\ Restores(w, w)
  BY <1>1, <1>2, <1>3 DEF Returns, Restores
<1> QED BY <1>4, <1>5, <1>6 DEF w

\* No value is of one member of a and of another of b.
Alone(a, b) ==
    \A i \in DOMAIN a, k \in DOMAIN b : \A x : Fits(a[i], x) /\ Fits(b[k], x) => i = k

LEMMA MemberIs ==
    ASSUME Unfolds, NEW b, NEW x, Fits(Union(b), x)
    PROVE  \E k \in DOMAIN b : /\ Fits(b[k], x) /\ Member(b, x) = b[k]
                               /\ Through(Union(b), x) = Through(b[k], x)
<1>1. \E k \in DOMAIN b : Fits(b[k], x)
  BY FitsViews
<1> DEFINE k == CHOOSE k \in DOMAIN b : Fits(b[k], x)
<1>2. k \in DOMAIN b /\ Fits(b[k], x)
  BY <1>1
<1>3. Member(b, x) = b[k]
  BY DEF Member
<1>4. Through(Union(b), x) = Through(Member(b, x), x)
  BY ThroughViews
<1> HIDE DEF k
<1> QED BY <1>2, <1>3, <1>4

LEMMA UnionClaims ==
    ASSUME Unfolds, NEW a, NEW b, DOMAIN a = DOMAIN b
    PROVE  /\ (\A i \in DOMAIN a : Sound(a[i], b[i])) => Sound(Union(a), Union(b))
           /\ (\A i \in DOMAIN a : Defined(a[i])) => Defined(Union(a))
           /\ Alone(a, b) /\ (\A i \in DOMAIN a : Tame(a[i], b[i])) => Tame(Union(a), Union(b))
           /\ (\A i \in DOMAIN a : Enters(a[i], b[i])) => Enters(Union(a), Union(b))
           /\ (\A i \in DOMAIN a : Within(a[i], b[i])) => Within(Union(a), Union(b))
           /\ (\A i \in DOMAIN a : Returns(a[i])) => Returns(Union(a))
           /\ Alone(a, b) /\ (\A i \in DOMAIN a : Restores(a[i], b[i])) =>
                 Restores(Union(a), Union(b))
<1>1. \A x : /\ Fits(Union(a), x) <=> \E i \in DOMAIN a : Fits(a[i], x)
             /\ Fits(Union(b), x) <=> \E i \in DOMAIN b : Fits(b[i], x)
  BY FitsViews
<1>2. ASSUME NEW x, Fits(Union(b), x)
      PROVE  \E k \in DOMAIN b : /\ Fits(b[k], x)
                                 /\ Through(Union(b), x) = Through(b[k], x)
  BY <1>2, MemberIs
<1>3. ASSUME \A i \in DOMAIN a : Sound(a[i], b[i])
      PROVE  Sound(Union(a), Union(b))
  <2> SUFFICES ASSUME NEW x, Fits(Union(b), x)
               PROVE  Fits(Union(a), Through(Union(b), x))
    BY DEF Sound
  <2>1. PICK k \in DOMAIN b : Fits(b[k], x) /\ Through(Union(b), x) = Through(b[k], x)
    BY <1>2
  <2>2. Fits(a[k], Through(b[k], x))
    BY <1>3, <2>1 DEF Sound
  <2> QED BY <1>1, <2>1, <2>2
<1>4. ASSUME \A i \in DOMAIN a : Defined(a[i])
      PROVE  Defined(Union(a))
  BY <1>1, <1>4 DEF Defined
<1>5. ASSUME Alone(a, b), \A i \in DOMAIN a : Tame(a[i], b[i])
      PROVE  Tame(Union(a), Union(b))
  <2> SUFFICES ASSUME NEW x, Fits(Union(a), x), Fits(Union(b), x), Ordinary(x)
               PROVE  Ordinary(Through(Union(b), x))
    BY DEF Tame
  <2>1. PICK k \in DOMAIN b : Fits(b[k], x) /\ Through(Union(b), x) = Through(b[k], x)
    BY <1>2
  <2>2. Fits(a[k], x)
    BY <1>1, <1>5, <2>1 DEF Alone
  <2> QED BY <1>5, <2>1, <2>2 DEF Tame
<1>6. ASSUME \A i \in DOMAIN a : Enters(a[i], b[i])
      PROVE  Enters(Union(a), Union(b))
  BY <1>1, <1>6 DEF Enters
<1>7. ASSUME \A i \in DOMAIN a : Within(a[i], b[i])
      PROVE  Within(Union(a), Union(b))
  BY <1>1, <1>7 DEF Within
<1>8. ASSUME \A i \in DOMAIN a : Returns(a[i])
      PROVE  Returns(Union(a))
  BY <1>1, <1>8 DEF Returns
<1>9. ASSUME Alone(a, b), \A i \in DOMAIN a : Restores(a[i], b[i])
      PROVE  Restores(Union(a), Union(b))
  <2> SUFFICES ASSUME NEW x, Fits(Union(a), x), Fits(Union(b), x), Ordinary(x)
               PROVE  Json(Through(Union(b), x)) = x /\ Through(Union(b), x).j # "undef"
    BY DEF Restores
  <2>1. PICK k \in DOMAIN b : Fits(b[k], x) /\ Through(Union(b), x) = Through(b[k], x)
    BY <1>2
  <2>2. Fits(a[k], x)
    BY <1>1, <1>9, <2>1 DEF Alone
  <2> QED BY <1>9, <2>1, <2>2 DEF Restores
<1> QED BY <1>3, <1>4, <1>5, <1>6, <1>7, <1>8, <1>9

\* An object with a tag has it.
LEMMA TagOf ==
    ASSUME Unfolds, NEW tag, NEW name, NEW parts, 0 \notin DOMAIN parts, NEW keys, NEW x,
           Fits(Object(Tagged(tag, name, parts), keys), x)
    PROVE  x.o[tag] = Str(name)
<1> DEFINE w == Tagged(tag, name, parts)
<1>0. 0 \in DOMAIN w /\ w[0] = Part(tag, Literal(name), TRUE)
  BY DEF Tagged
<1> HIDE DEF w
<1>1. 0 \in DOMAIN w /\ w[0].name = tag /\ w[0].view = Literal(name) /\ w[0].required
  BY <1>0 DEF Part
<1>2. Fits(Object(w, keys), x)
  BY Zenon DEF w
<1>3. \A i \in DOMAIN w : IF w[i].name \in DOMAIN x.o THEN Fits(w[i].view, x.o[w[i].name])
                          ELSE ~w[i].required
  BY <1>2, FitsViews
<1>4. Fits(Literal(name), x.o[tag])
  BY <1>1, <1>3
<1> QED BY <1>4, FitsViews

-----------------------------------------------------------------------------
(* Primitives.                                                             *)

\* The forms of the primitives in which no reading differs and that are no unit.
LEMMA PrimitiveForms ==
    ASSUME NEW p, NEW bigint \in Bigints, PlainPrimitive(p, bigint), p # "unit"
    PROVE  LET ts == TsPrimitive(p, bigint)
               schema == SchemaPrimitive(p, bigint)
               serde == SerdePrimitive(p)
           IN  \/ ts = "boolean" /\ schema = "boolean" /\ serde = "boolean"
               \/ ts = "number" /\ schema = "finite" /\ serde = "float"
               \/ ts = "string" /\ schema = "string" /\ serde = "string"
               \/ /\ p \in DOMAIN IntRange /\ serde = p
                  /\ \/ p \in Wide /\ ts = "bigint" /\ schema = "toBigint"
                     \/ ts = "number" /\ schema = "finite"
<1>1. p \in Primitives \ {"uuid"} /\ (p \in Wide => bigint = "native")
  BY DEF PlainPrimitive
<1>2. p \in {"bool", "string"} \cup Floats \cup DOMAIN IntRange
  BY <1>1, LeavesAssumption DEF Primitives
<1> QED BY <1>1, <1>2, PrimitiveReadings, LeavesAssumption

\* What the way makes of a value that has no others is one.
LEMMA LeavesStay ==
    ASSUME NEW x \in LeafValues
    PROVE  /\ JsonLeaf(x) \in LeafValues
           /\ \A leaf : FitsLeaf(leaf, x) => ThroughLeaf(leaf, x) \in LeafValues
<1> DEFINE nums == [j : {"num"}, n : Int, frac : BOOLEAN]
           bigs == [j : {"big"}, n : Int]
           strs == [j : {"str"}, s : DOMAIN Strings]
<1>1. \A n \in Int : Num(n) \in LeafValues /\ Big(n) \in LeafValues /\ (Round(n) \in Int)
  BY LeavesAssumption DEF LeafValues, Num, Big, Round
<1>2. Null \in LeafValues
  BY DEF LeafValues
<1>3. \/ x \in {Null, Undef, NaN, [j |-> "bool"]}
      \/ x \in nums
      \/ x \in bigs
      \/ x \in strs
  BY DEF LeafValues
<1>4. /\ x.j = "big" => x.n \in Int
      /\ x.j = "num" => x.n \in Int
      /\ x.j = "str" => x.s \in DOMAIN Strings
  BY <1>3 DEF Null, Undef, NaN
<1>5. JsonLeaf(x) \in LeafValues
  BY <1>1, <1>2, <1>4 DEF JsonLeaf
<1>6. ASSUME NEW leaf, FitsLeaf(leaf, x)
      PROVE  ThroughLeaf(leaf, x) \in LeafValues
  <2>1. CASE leaf = "toBigint"
    <3>1. x.j \in {"big", "num", "str"}
      BY <1>6, <2>1 DEF FitsLeaf, IsInt
    <3>2. ThroughLeaf(leaf, x) = IF x.j = "str" THEN Big(Strings[x.s].num) ELSE Big(x.n)
      BY <2>1 DEF ThroughLeaf
    <3> QED BY <1>1, <1>4, <3>1, <3>2, LeavesAssumption
  <2>2. CASE leaf # "toBigint"
    BY <2>2 DEF ThroughLeaf
  <2> QED BY <2>1, <2>2
<1> QED BY <1>5, <1>6

LEMMA LeafSound ==
    ASSUME Unfolds, NEW p \in Primitives, NEW bigint \in Bigints
    PROVE  Sound(Leaf(TsPrimitive(p, bigint)), Leaf(SchemaPrimitive(p, bigint)))
<1> DEFINE ts == TsPrimitive(p, bigint)
           schema == SchemaPrimitive(p, bigint)
<1> SUFFICES ASSUME NEW x, x \in LeafValues /\ FitsLeaf(schema, x)
             PROVE  ThroughLeaf(schema, x) \in LeafValues /\ FitsLeaf(ts, ThroughLeaf(schema, x))
  BY FitsViews, ThroughViews DEF Sound
<1> QED BY LeavesStay, SchemaKeepsType

LEMMA LeafInput ==
    ASSUME Unfolds, NEW p, NEW bigint \in Bigints, PlainPrimitive(p, bigint), p # "unit"
    PROVE  /\ Defined(Leaf(TsPrimitive(p, bigint)))
           /\ Defined(Leaf(SchemaPrimitive(p, bigint)))
           /\ Tame(Leaf(TsPrimitive(p, bigint)), Leaf(SchemaPrimitive(p, bigint)))
           /\ Enters(Leaf(TsPrimitive(p, bigint)), Leaf(SerdePrimitive(p)))
           /\ Within(Leaf(McpPrimitive(p, bigint)), Leaf(SerdePrimitive(p)))
<1> DEFINE ts == TsPrimitive(p, bigint)
           schema == SchemaPrimitive(p, bigint)
           mcp == McpPrimitive(p, bigint)
           serde == SerdePrimitive(p)
<1>1. \/ ts = "boolean" /\ schema = "boolean" /\ serde = "boolean"
      \/ ts = "number" /\ schema = "finite" /\ serde = "float"
      \/ ts = "string" /\ schema = "string" /\ serde = "string"
      \/ /\ p \in DOMAIN IntRange /\ serde = p
         /\ \/ p \in Wide /\ ts = "bigint" /\ schema = "toBigint"
            \/ ts = "number" /\ schema = "finite"
  BY PrimitiveForms
<1>2. ASSUME NEW x \in LeafValues, FitsLeaf(ts, x), OrdinaryLeaf(x)
      PROVE  FitsLeaf(serde, JsonLeaf(Passed(x)))
  BY <1>2, PrimitiveInputsArrive
<1>3. ASSUME NEW x, FitsLeaf(mcp, x), OrdinaryLeaf(x)
      PROVE  FitsLeaf(serde, x)
  BY <1>3, AgentPrimitivesArrive
<1> HIDE DEF ts, schema, mcp, serde
<1>4. ASSUME NEW x, FitsLeaf(ts, x) \/ FitsLeaf(schema, x)
      PROVE  x.j # "undef"
  <2>1. {ts, schema} \subseteq
           {"boolean", "number", "string", "bigint", "finite", "toBigint"}
    BY <1>1
  <2> QED BY <1>4, <2>1 DEF FitsLeaf, IsInt
<1>5. ASSUME NEW x \in LeafValues, FitsLeaf(ts, x), OrdinaryLeaf(x)
      PROVE  OrdinaryLeaf(ThroughLeaf(schema, x))
  <2>1. CASE ts = "bigint" /\ schema = "toBigint"
    <3>1. x.j = "big"
      BY <1>5, <2>1 DEF FitsLeaf
    <3>2. ThroughLeaf(schema, x) = Big(x.n)
      BY <2>1, <3>1 DEF ThroughLeaf
    <3>3. OrdinaryLeaf(Big(x.n))
      BY <1>5, <3>1 DEF OrdinaryLeaf, Big
    <3> QED BY <3>2, <3>3
  <2>2. CASE schema # "toBigint"
    BY <1>5, <2>2 DEF ThroughLeaf
  <2> QED BY <1>1, <2>1, <2>2
<1>6. \A leaf, x : Fits(Leaf(leaf), x) <=> x \in LeafValues /\ FitsLeaf(leaf, x)
  BY FitsViews
<1>7. \A x \in LeafValues : Json(x) = JsonLeaf(x) /\ (Ordinary(x) <=> OrdinaryLeaf(x))
  BY Values
<1>8. Defined(Leaf(ts)) /\ Defined(Leaf(schema))
  BY <1>4, <1>6 DEF Defined
<1>9. Tame(Leaf(ts), Leaf(schema))
  <2> SUFFICES ASSUME NEW x \in LeafValues, FitsLeaf(ts, x), FitsLeaf(schema, x), OrdinaryLeaf(x)
               PROVE  Ordinary(Through(Leaf(schema), x))
    BY <1>6, <1>7 DEF Tame
  <2>1. ThroughLeaf(schema, x) \in LeafValues /\ OrdinaryLeaf(ThroughLeaf(schema, x))
    BY <1>5, LeavesStay
  <2>2. Through(Leaf(schema), x) = ThroughLeaf(schema, x)
    BY ThroughViews
  <2> QED BY <1>7, <2>1, <2>2
<1>10. Enters(Leaf(ts), Leaf(serde))
  <2> SUFFICES ASSUME NEW x \in LeafValues, FitsLeaf(ts, x), OrdinaryLeaf(x)
               PROVE  Fits(Leaf(serde), Json(x))
    BY <1>6, <1>7 DEF Enters
  <2>1. Passed(x) = x
    BY <1>4 DEF Passed, Undef
  <2>2. FitsLeaf(serde, JsonLeaf(x)) /\ JsonLeaf(x) \in LeafValues
    BY <1>2, <2>1, LeavesStay
  <2> QED BY <1>6, <1>7, <2>2
<1>11. Within(Leaf(mcp), Leaf(serde))
  BY <1>3, <1>6, <1>7 DEF Within
<1> QED BY <1>8, <1>9, <1>10, <1>11 DEF ts, schema, mcp, serde

LEMMA LeafOutput ==
    ASSUME Unfolds, NEW p, NEW bigint \in Bigints, PlainPrimitive(p, bigint), p # "unit"
    PROVE  /\ Defined(Leaf(SerdePrimitive(p)))
           /\ Returns(Leaf(SerdePrimitive(p)))
           /\ Restores(Leaf(SerdePrimitive(p)), Leaf(SchemaPrimitive(p, bigint)))
           /\ Within(Leaf(SerdePrimitive(p)), Leaf(SchemaPrimitive(p, bigint)))
           /\ p \notin Wide => Within(Leaf(SerdePrimitive(p)), Leaf(TsPrimitive(p, bigint)))
<1> DEFINE ts == TsPrimitive(p, bigint)
           schema == SchemaPrimitive(p, bigint)
           serde == SerdePrimitive(p)
<1>1. \/ ts = "boolean" /\ schema = "boolean" /\ serde = "boolean"
      \/ ts = "number" /\ schema = "finite" /\ serde = "float"
      \/ ts = "string" /\ schema = "string" /\ serde = "string"
      \/ /\ p \in DOMAIN IntRange /\ serde = p
         /\ \/ p \in Wide /\ ts = "bigint" /\ schema = "toBigint"
            \/ ts = "number" /\ schema = "finite"
  BY PrimitiveForms
<1>2. ASSUME NEW y \in LeafValues, FitsLeaf(serde, y), OrdinaryLeaf(y)
      PROVE  /\ FitsLeaf(schema, ParsedLeaf(y))
             /\ FitsLeaf(ts, ThroughLeaf(schema, ParsedLeaf(y)))
             /\ JsonLeaf(ThroughLeaf(schema, ParsedLeaf(y))) = y
  BY <1>2, PrimitiveOutputsArrive
<1> HIDE DEF ts, schema, serde
<1>3. ASSUME NEW y, FitsLeaf(serde, y), OrdinaryLeaf(y)
      PROVE  y.j \in {"bool", "num", "str"}
  <2>1. CASE serde \in {"boolean", "float", "string"}
    BY <1>3, <2>1 DEF FitsLeaf, OrdinaryLeaf
  <2>2. CASE p \in DOMAIN IntRange /\ serde = p
    BY <1>3, <2>2, IntegerFits DEF IsInt
  <2> QED BY <1>1, <2>1, <2>2
<1>4. ASSUME NEW y \in LeafValues, FitsLeaf(serde, y), OrdinaryLeaf(y)
      PROVE  ParsedLeaf(y) = y /\ JsonLeaf(y) = y
  <2>1. y.j = "num" => Round(y.n) = y.n /\ y = [j |-> "num", n |-> y.n, frac |-> y.frac]
    BY <1>4, OrdinaryIsExact, LeafForms
  <2>2. y.j = "num" => [y EXCEPT !.n = Round(@)] = y
    BY <2>1
  <2> QED BY <1>3, <1>4, <2>2 DEF ParsedLeaf, JsonLeaf
<1>5. ASSUME NEW y \in LeafValues, FitsLeaf(serde, y), OrdinaryLeaf(y)
      PROVE  ThroughLeaf(schema, y).j # "undef"
  BY <1>3, <1>5 DEF ThroughLeaf, Big
<1>6. \A leaf, x : Fits(Leaf(leaf), x) <=> x \in LeafValues /\ FitsLeaf(leaf, x)
  BY FitsViews
<1>7. \A x \in LeafValues : /\ Json(x) = JsonLeaf(x) /\ Parsed(x) = ParsedLeaf(x)
                            /\ Ordinary(x) <=> OrdinaryLeaf(x)
  BY Values
<1>8. Defined(Leaf(serde))
  <2> SUFFICES ASSUME NEW y \in LeafValues, FitsLeaf(serde, y)
               PROVE  y.j # "undef"
    BY <1>6 DEF Defined
  <2>1. CASE serde \in {"boolean", "float", "string"}
    BY <2>1 DEF FitsLeaf
  <2>2. CASE p \in DOMAIN IntRange /\ serde = p
    BY <2>2, IntegerFits DEF IsInt
  <2> QED BY <1>1, <2>1, <2>2
<1>9. Returns(Leaf(serde))
  BY <1>4, <1>6, <1>7 DEF Returns
<1>10. Restores(Leaf(serde), Leaf(schema))
  <2> SUFFICES ASSUME NEW y \in LeafValues, FitsLeaf(serde, y), FitsLeaf(schema, y),
                      OrdinaryLeaf(y)
               PROVE  /\ Json(Through(Leaf(schema), y)) = y
                      /\ Through(Leaf(schema), y).j # "undef"
    BY <1>6, <1>7 DEF Restores
  <2>1. Through(Leaf(schema), y) = ThroughLeaf(schema, y)
    BY ThroughViews
  <2>2. ThroughLeaf(schema, y) \in LeafValues
    BY LeavesStay
  <2>3. JsonLeaf(ThroughLeaf(schema, y)) = y
    BY <1>2, <1>4
  <2> QED BY <1>5, <1>7, <2>1, <2>2, <2>3
<1>11. Within(Leaf(serde), Leaf(schema))
  BY <1>2, <1>4, <1>6, <1>7 DEF Within
<1>12. ASSUME p \notin Wide
       PROVE  Within(Leaf(serde), Leaf(ts))
  <2> SUFFICES ASSUME NEW y \in LeafValues, FitsLeaf(serde, y), OrdinaryLeaf(y)
               PROVE  FitsLeaf(ts, y)
    BY <1>6, <1>7 DEF Within
  <2>1. schema # "toBigint"
    BY <1>1, <1>12
  <2>2. ThroughLeaf(schema, ParsedLeaf(y)) = y
    BY <1>4, <2>1 DEF ThroughLeaf
  <2> QED BY <1>2, <2>2
<1> QED BY <1>8, <1>9, <1>10, <1>11, <1>12 DEF ts, schema, serde

-----------------------------------------------------------------------------
(* The equations of the types.                                             *)

LEMMA TsReads ==
    ASSUME Unfolds, NEW t, NEW o
    PROVE  /\ t.k = "prim" => TsType(t, o) = Leaf(TsPrimitive(t.p, o.bigint))
           /\ t.k = "option" => TsType(t, o) = Nullable(TsType(t.of, o))
           /\ t.k = "vec" => TsType(t, o) = ArrayOf(TsType(t.of, o))
           /\ t.k = "map" => TsType(t, o) =
                 IF IsStringKey(t.key) THEN RecordOf(TsType(t.of, o))
                 ELSE ArrayOf(Fixed(<<TsType(t.key, o), TsType(t.of, o)>>))
           /\ t.k = "tuple" => TsType(t, o) = TsTuple(t.elems, o)
           /\ t.k = "array" => TsType(t, o) =
                 IF t.len <= TupleCap THEN Fixed(Copies(t.len, TsType(t.of, o)))
                 ELSE ArrayOf(TsType(t.of, o))
           /\ t.k = "struct" => TsType(t, o) = TsStruct(t.fields, o)
           /\ t.k = "tupleStruct" => TsType(t, o) = TsTupleStruct(t.elems, o)
           /\ t.k = "enum" => TsType(t, o) = TsEnum(t, o)
           /\ t.k = "unitStruct" => TsType(t, o) = Leaf("void")
<1>1. TsType(t, o) = TsTypeOf(t, o)
  BY DEF Unfolds
<1>2. /\ t.k = "prim" => TsTypeOf(t, o) = Leaf(TsPrimitive(t.p, o.bigint))
      /\ t.k = "option" => TsTypeOf(t, o) = Nullable(TsType(t.of, o))
      /\ t.k = "vec" => TsTypeOf(t, o) = ArrayOf(TsType(t.of, o))
      /\ t.k = "map" => TsTypeOf(t, o) =
            IF IsStringKey(t.key) THEN RecordOf(TsType(t.of, o))
            ELSE ArrayOf(Fixed(<<TsType(t.key, o), TsType(t.of, o)>>))
      /\ t.k = "tuple" => TsTypeOf(t, o) = TsTuple(t.elems, o)
      /\ t.k = "array" => TsTypeOf(t, o) =
            IF t.len <= TupleCap THEN Fixed(Copies(t.len, TsType(t.of, o)))
            ELSE ArrayOf(TsType(t.of, o))
      /\ t.k = "struct" => TsTypeOf(t, o) = TsStruct(t.fields, o)
      /\ t.k = "tupleStruct" => TsTypeOf(t, o) = TsTupleStruct(t.elems, o)
      /\ t.k = "enum" => TsTypeOf(t, o) = TsEnum(t, o)
      /\ t.k = "unitStruct" => TsTypeOf(t, o) = Leaf("void")
  BY Zenon DEF TsTypeOf
<1> QED BY <1>1, <1>2, Zenon

LEMMA SchemaReads ==
    ASSUME Unfolds, NEW t, NEW o
    PROVE  /\ t.k = "prim" => Schema(t, o) = Leaf(SchemaPrimitive(t.p, o.bigint))
           /\ t.k = "option" => Schema(t, o) = Nullable(Schema(t.of, o))
           /\ t.k = "vec" => Schema(t, o) = ArrayOf(Schema(t.of, o))
           /\ t.k = "map" => Schema(t, o) =
                 IF IsStringKey(t.key) THEN RecordOf(Schema(t.of, o))
                 ELSE ArrayOf(Fixed(<<Schema(t.key, o), Schema(t.of, o)>>))
           /\ t.k = "tuple" => Schema(t, o) = SchemaTuple(t.elems, o)
           /\ t.k = "array" => Schema(t, o) = Fixed(Copies(t.len, Schema(t.of, o)))
           /\ t.k = "struct" => Schema(t, o) = SchemaStruct(t.fields, o)
           /\ t.k = "tupleStruct" => Schema(t, o) =
                 IF Len(t.elems) = 1 THEN Schema(t.elems[1], o) ELSE SchemaTuple(t.elems, o)
           /\ t.k = "enum" => Schema(t, o) = SchemaEnum(t, o)
           /\ t.k = "unitStruct" => Schema(t, o) = Leaf("null")
<1>1. Schema(t, o) = SchemaOf(t, o)
  BY DEF Unfolds
<1>2. /\ t.k = "prim" => SchemaOf(t, o) = Leaf(SchemaPrimitive(t.p, o.bigint))
      /\ t.k = "option" => SchemaOf(t, o) = Nullable(Schema(t.of, o))
      /\ t.k = "vec" => SchemaOf(t, o) = ArrayOf(Schema(t.of, o))
      /\ t.k = "map" => SchemaOf(t, o) =
            IF IsStringKey(t.key) THEN RecordOf(Schema(t.of, o))
            ELSE ArrayOf(Fixed(<<Schema(t.key, o), Schema(t.of, o)>>))
      /\ t.k = "tuple" => SchemaOf(t, o) = SchemaTuple(t.elems, o)
      /\ t.k = "array" => SchemaOf(t, o) = Fixed(Copies(t.len, Schema(t.of, o)))
      /\ t.k = "struct" => SchemaOf(t, o) = SchemaStruct(t.fields, o)
      /\ t.k = "tupleStruct" => SchemaOf(t, o) =
            IF Len(t.elems) = 1 THEN Schema(t.elems[1], o) ELSE SchemaTuple(t.elems, o)
      /\ t.k = "enum" => SchemaOf(t, o) = SchemaEnum(t, o)
      /\ t.k = "unitStruct" => SchemaOf(t, o) = Leaf("null")
  BY Zenon DEF SchemaOf
<1> QED BY <1>1, <1>2, Zenon

LEMMA McpReads ==
    ASSUME Unfolds, NEW t, NEW o
    PROVE  /\ t.k = "prim" => Mcp(t, o) = Leaf(McpPrimitive(t.p, o.bigint))
           /\ t.k = "option" => Mcp(t, o) = McpOption(t.of, o)
           /\ t.k = "vec" => Mcp(t, o) = ArrayOf(Mcp(t.of, o))
           /\ t.k = "map" => Mcp(t, o) = RecordOf(Mcp(t.of, o))
           /\ t.k = "tuple" => Mcp(t, o) = McpTuple(t.elems, o)
           /\ t.k = "array" => Mcp(t, o) = Fixed(Copies(t.len, Mcp(t.of, o)))
           /\ t.k = "struct" => Mcp(t, o) = Object(McpFields(IrFields(t.fields), o), "named")
           /\ t.k = "tupleStruct" /\ Len(t.elems) = 1 => Mcp(t, o) = Mcp(t.elems[1], o)
           /\ t.k = "tupleStruct" /\ Len(t.elems) \notin {0, 1} =>
                 Mcp(t, o) = McpTuple(t.elems, o)
           /\ t.k = "enum" => Mcp(t, o) =
                 Union([i \in DOMAIN t.variants |->
                           McpVariant(IrTag(t), IrVariant(t.variants[i]), o)])
           /\ t.k = "unitStruct" => Mcp(t, o) = Leaf("null")
<1>1. Mcp(t, o) = McpOf(t, o)
  BY DEF Unfolds
<1>2. /\ t.k = "prim" => McpOf(t, o) = Leaf(McpPrimitive(t.p, o.bigint))
      /\ t.k = "option" => McpOf(t, o) = McpOption(t.of, o)
      /\ t.k = "vec" => McpOf(t, o) = ArrayOf(Mcp(t.of, o))
      /\ t.k = "map" => McpOf(t, o) = RecordOf(Mcp(t.of, o))
      /\ t.k = "tuple" => McpOf(t, o) = McpTuple(t.elems, o)
      /\ t.k = "array" => McpOf(t, o) = Fixed(Copies(t.len, Mcp(t.of, o)))
      /\ t.k = "struct" => McpOf(t, o) = Object(McpFields(IrFields(t.fields), o), "named")
      /\ t.k = "tupleStruct" => McpOf(t, o) =
            CASE Len(t.elems) = 0 -> Leaf("null")
              [] Len(t.elems) = 1 -> Mcp(t.elems[1], o)
              [] OTHER -> McpTuple(t.elems, o)
      /\ t.k = "enum" => McpOf(t, o) =
            Union([i \in DOMAIN t.variants |-> McpVariant(IrTag(t), IrVariant(t.variants[i]), o)])
      /\ t.k = "unitStruct" => McpOf(t, o) = Leaf("null")
  BY Zenon DEF McpOf
<1>3. ASSUME t.k = "tupleStruct"
      PROVE  /\ Len(t.elems) = 1 => Mcp(t, o) = Mcp(t.elems[1], o)
             /\ Len(t.elems) \notin {0, 1} => Mcp(t, o) = McpTuple(t.elems, o)
  BY <1>1, <1>2, <1>3
<1> QED BY <1>1, <1>2, <1>3, Zenon

LEMMA SerdeReads ==
    ASSUME Unfolds, NEW t, NEW way
    PROVE  /\ t.k = "prim" => Serde(t, way) = Leaf(SerdePrimitive(t.p))
           /\ t.k = "option" => Serde(t, way) = Nullable(Serde(t.of, way))
           /\ t.k = "vec" => Serde(t, way) = ArrayOf(Serde(t.of, way))
           /\ t.k = "map" => Serde(t, way) = RecordOf(Serde(t.of, way))
           /\ t.k = "tuple" => Serde(t, way) = SerdeTuple(t.elems, way)
           /\ t.k = "array" => Serde(t, way) = Fixed(Copies(t.len, Serde(t.of, way)))
           /\ t.k = "struct" => Serde(t, way) = Object(SerdeFields(t.fields, way), KeysTo(way))
           /\ t.k = "tupleStruct" => Serde(t, way) = SerdeItems(t.elems, way)
           /\ t.k = "enum" => Serde(t, way) =
                 Union([i \in DOMAIN t.variants |-> SerdeVariant(t, t.variants[i], way)])
           /\ t.k = "unitStruct" => Serde(t, way) = Leaf("null")
<1>1. Serde(t, way) = SerdeOf(t, way)
  BY DEF Unfolds
<1>2. /\ t.k = "prim" => SerdeOf(t, way) = Leaf(SerdePrimitive(t.p))
      /\ t.k = "option" => SerdeOf(t, way) = Nullable(Serde(t.of, way))
      /\ t.k = "vec" => SerdeOf(t, way) = ArrayOf(Serde(t.of, way))
      /\ t.k = "map" => SerdeOf(t, way) = RecordOf(Serde(t.of, way))
      /\ t.k = "tuple" => SerdeOf(t, way) = SerdeTuple(t.elems, way)
      /\ t.k = "array" => SerdeOf(t, way) = Fixed(Copies(t.len, Serde(t.of, way)))
      /\ t.k = "struct" => SerdeOf(t, way) = Object(SerdeFields(t.fields, way), KeysTo(way))
      /\ t.k = "tupleStruct" => SerdeOf(t, way) = SerdeItems(t.elems, way)
      /\ t.k = "enum" => SerdeOf(t, way) =
            Union([i \in DOMAIN t.variants |-> SerdeVariant(t, t.variants[i], way)])
      /\ t.k = "unitStruct" => SerdeOf(t, way) = Leaf("null")
  BY Zenon DEF SerdeOf
<1> QED BY <1>1, <1>2, Zenon

-----------------------------------------------------------------------------
(* Fields.                                                                 *)

\* The schema of a field: that of its type, with the checks inside an option.
LEMMA SchemaFieldIs ==
    ASSUME Unfolds, NEW f, NEW o
    PROVE  /\ SchemaField(f, o).name = f.name /\ SchemaField(f, o).required
           /\ \A x : Fits(SchemaField(f, o).view, x) => Fits(Schema(f.ty, o), x)
           /\ \A x : Through(SchemaField(f, o).view, x) = Through(Schema(f.ty, o), x)
           /\ f.constraints = {} =>
                 \A x : Fits(Schema(f.ty, o), x) => Fits(SchemaField(f, o).view, x)
           /\ f.ty.k # "option" => \A x : Fits(SchemaField(f, o).view, x) <=>
                 /\ Fits(Schema(f.ty, o), x)
                 /\ \A c \in SchemaChecks(f.ty, f.constraints) : ClientCheck(c, x)
<1> DEFINE inner == IF f.ty.k = "option" THEN f.ty.of ELSE f.ty
           cs == SchemaChecks(inner, f.constraints)
           base == Checked(Schema(inner, o), cs)
           w == IF f.ty.k = "option" THEN Nullable(base) ELSE base
<1>1. SchemaField(f, o) = Part(f.name, w, TRUE)
  BY DEF SchemaField
<1>2. /\ SchemaField(f, o).view = w
      /\ SchemaField(f, o).name = f.name /\ SchemaField(f, o).required
  BY <1>1 DEF Part
<1> HIDE DEF cs
<1>3. \A x : Fits(base, x) <=> Fits(Schema(inner, o), x) /\ \A c \in cs : ClientCheck(c, x)
  BY FitsViews
<1>4. \A x : Through(base, x) = Through(Schema(inner, o), x)
  BY ThroughViews
<1> HIDE DEF base
<1>5. f.constraints = {} => cs = {}
  BY DEF SchemaChecks, cs
<1>6. CASE f.ty.k = "option"
  <2>1. w = Nullable(base) /\ Schema(f.ty, o) = Nullable(Schema(inner, o))
    BY <1>6, SchemaReads
  <2>2. \A x : /\ Fits(w, x) <=> x = Null \/ Fits(base, x)
               /\ Fits(Schema(f.ty, o), x) <=> x = Null \/ Fits(Schema(inner, o), x)
    BY <2>1, FitsViews
  <2>3. ASSUME NEW x
        PROVE  /\ Through(w, x) = IF x = Null THEN x ELSE Through(base, x)
               /\ Through(Schema(f.ty, o), x) = IF x = Null THEN x ELSE Through(Schema(inner, o), x)
    <3>1. \A u : Through(Nullable(u), x) = IF x = Null THEN x ELSE Through(u, x)
      BY ThroughViews
    <3> QED BY <2>1, <3>1
  <2> QED BY <1>2, <1>3, <1>4, <1>5, <1>6, <2>2, <2>3
<1>7. CASE f.ty.k # "option"
  <2>1. w = base /\ inner = f.ty /\ cs = SchemaChecks(f.ty, f.constraints)
    BY <1>7 DEF cs
  <2> QED BY <1>2, <1>3, <1>4, <1>5, <2>1
<1> QED BY <1>6, <1>7

\* The type of a field, with undefined where that is honoured.
LEMMA TsFieldIs ==
    ASSUME Unfolds, NEW f, NEW o
    PROVE  /\ TsField(f, o).name = f.name /\ (TsField(f, o).required <=> ~f.optional)
           /\ \A x : Fits(TsType(f.ty, o), x) => Fits(TsField(f, o).view, x)
           /\ \A x : Fits(TsField(f, o).view, x) =>
                        (f.undefined /\ x = Undef) \/ Fits(TsType(f.ty, o), x)
<1> DEFINE w == IF f.undefined /\ o.undefined THEN OrUndefined(TsType(f.ty, o))
                ELSE TsType(f.ty, o)
<1>1. TsField(f, o) = Part(f.name, w, ~f.optional)
  BY DEF TsField
<1>0. (w = OrUndefined(TsType(f.ty, o)) /\ f.undefined) \/ w = TsType(f.ty, o)
  OBVIOUS
<1> HIDE DEF w
<1>2. TsField(f, o).view = w /\ TsField(f, o).name = f.name
  BY <1>1 DEF Part
<1>4. TsField(f, o).required <=> ~f.optional
  <2>1. CASE f.optional
    <3>1. TsField(f, o) = Part(f.name, w, FALSE)
      BY <1>1, <2>1
    <3> QED BY <2>1, <3>1 DEF Part
  <2>2. CASE ~f.optional
    <3>1. TsField(f, o) = Part(f.name, w, TRUE)
      BY <1>1, <2>2
    <3> QED BY <2>2, <3>1 DEF Part
  <2> QED BY <2>1, <2>2
<1>3. \A x : Fits(OrUndefined(TsType(f.ty, o)), x) <=> x = Undef \/ Fits(TsType(f.ty, o), x)
  BY FitsViews
<1> QED BY <1>0, <1>2, <1>3, <1>4

\* The parts of a field: to TypeScript and the schema, to the manifest and to serde.
LEMMA FieldSound ==
    ASSUME Unfolds, NEW f, NEW o, Sound(TsType(f.ty, o), Schema(f.ty, o))
    PROVE  Sound(TsField(f, o).view, SchemaField(f, o).view)
BY SchemaFieldIs, TsFieldIs DEF Sound

LEMMA FieldTaken ==
    ASSUME Unfolds, NEW f, NEW o, f.undefined => f.ty.k = "option",
           Defined(TsType(f.ty, o)), Defined(Schema(f.ty, o)),
           Tame(TsType(f.ty, o), Schema(f.ty, o)),
           NEW q, Enters(TsType(f.ty, o), q.view), f.ty.k = "option" => ~q.required
    PROVE  /\ Tame(TsField(f, o).view, SchemaField(f, o).view)
           /\ PartEnters(TsField(f, o), q)
<1>1. Tame(TsField(f, o).view, SchemaField(f, o).view)
  <2> SUFFICES ASSUME NEW x, Fits(TsField(f, o).view, x), Fits(SchemaField(f, o).view, x),
                      Ordinary(x)
               PROVE  Ordinary(Through(SchemaField(f, o).view, x))
    BY DEF Tame
  <2>1. Fits(Schema(f.ty, o), x)
    BY SchemaFieldIs
  <2>2. x.j # "undef"
    BY <2>1 DEF Defined
  <2>3. Fits(TsType(f.ty, o), x)
    BY <2>2, TsFieldIs DEF Undef
  <2>4. Ordinary(Through(Schema(f.ty, o), x))
    BY <2>1, <2>3 DEF Tame
  <2> QED BY <2>4, SchemaFieldIs
<1>2. PartEnters(TsField(f, o), q)
  <2> SUFFICES ASSUME NEW x, Fits(TsField(f, o).view, x), Ordinary(x)
               PROVE  IF x.j = "undef" THEN ~q.required ELSE Fits(q.view, Json(x))
    BY DEF PartEnters
  <2>1. (f.undefined /\ x = Undef) \/ Fits(TsType(f.ty, o), x)
    BY TsFieldIs
  <2>2. CASE x.j = "undef"
    BY <2>1, <2>2 DEF Defined
  <2>3. CASE x.j # "undef"
    BY <2>1, <2>3 DEF Enters, Undef
  <2> QED BY <2>2, <2>3
<1> QED BY <1>1, <1>2

LEMMA FieldGiven ==
    ASSUME Unfolds, NEW f, NEW o, NEW w
    PROVE  /\ Restores(w, Schema(f.ty, o)) => Restores(w, SchemaField(f, o).view)
           /\ f.constraints = {} /\ Within(w, Schema(f.ty, o)) =>
                 Within(w, SchemaField(f, o).view)
           /\ Within(w, TsType(f.ty, o)) => Within(w, TsField(f, o).view)
<1>1. Restores(w, Schema(f.ty, o)) => Restores(w, SchemaField(f, o).view)
  BY SchemaFieldIs DEF Restores
<1>2. f.constraints = {} /\ Within(w, Schema(f.ty, o)) => Within(w, SchemaField(f, o).view)
  BY SchemaFieldIs DEF Within
<1>3. Within(w, TsType(f.ty, o)) => Within(w, TsField(f, o).view)
  BY TsFieldIs DEF Within
<1> QED BY <1>1, <1>2, <1>3

\* The claims for the parts of an object.
SoundParts(a, b) ==
    /\ Aligned(a, b)
    /\ \A i \in DOMAIN a : b[i].required /\ Sound(a[i].view, b[i].view)
TakenParts(a, b, c) ==
    /\ Aligned(a, b) /\ Aligned(a, c)
    /\ \A i \in DOMAIN a : /\ b[i].required /\ Tame(a[i].view, b[i].view)
                           /\ (c[i].required => a[i].required) /\ PartEnters(a[i], c[i])
GivenParts(c, b) ==
    /\ Aligned(c, b)
    /\ \A i \in DOMAIN c : /\ b[i].required /\ Restores(c[i].view, b[i].view)
                           /\ Defined(c[i].view) /\ Returns(c[i].view)
WithinParts(a, b) ==
    /\ Aligned(a, b)
    /\ \A i \in DOMAIN a : (b[i].required => a[i].required) /\ Within(a[i].view, b[i].view)

LEMMA ObjectClaims ==
    ASSUME Unfolds, NEW a, NEW b, Differ(a)
    PROVE  /\ SoundParts(a, b) => Sound(Object(a, "any"), Object(b, "any"))
           /\ \A c : TakenParts(a, b, c) => /\ Tame(Object(a, "any"), Object(b, "any"))
                                            /\ Enters(Object(a, "any"), Object(c, "any"))
<1>1. Aligned(a, b) => Differ(b)
  BY DEF Aligned, Differ
<1>2. SoundParts(a, b) => Sound(Object(a, "any"), Object(b, "any"))
  BY <1>1, ObjectSound DEF SoundParts
<1>3. ASSUME NEW c, TakenParts(a, b, c)
      PROVE  /\ Tame(Object(a, "any"), Object(b, "any"))
             /\ Enters(Object(a, "any"), Object(c, "any"))
  <2>1. Tame(Object(a, "any"), Object(b, "any"))
    BY <1>1, <1>3, ObjectTame DEF TakenParts
  <2>2. Enters(Object(a, "any"), Object(c, "any"))
    BY <1>3, ObjectEnters DEF TakenParts
  <2> QED BY <2>1, <2>2
<1> QED BY <1>2, <1>3

LEMMA GivenClaims ==
    ASSUME Unfolds, NEW a, NEW b, Aligned(a, b), Differ(a), NEW c, GivenParts(c, b)
    PROVE  Returns(Object(c, "named")) /\ Restores(Object(c, "named"), Object(b, "any"))
<1>1. Differ(b)
  BY DEF Aligned, Differ
<1>2. Returns(Object(c, "named"))
  BY ObjectReturns DEF GivenParts
<1>3. Restores(Object(c, "named"), Object(b, "any"))
  BY <1>1, ObjectRestores DEF GivenParts
<1> QED BY <1>2, <1>3

LEMMA WithinClaims ==
    ASSUME Unfolds, NEW a, NEW b, NEW keys, WithinParts(a, b)
    PROVE  Within(Object(a, keys), Object(b, "any"))
BY ObjectWithin DEF WithinParts

\* The parts of a list of fields, one for each field.
McpField(f, o) == Part(IrField(f).name, Mcp(f.ty, o), ~IrField(f).optional)
SerdePart(f, way) == Part(f.wire, Serde(f.ty, way), way = "out" \/ f.ty.k # "option")

LEMMA FieldPartsAre ==
    ASSUME NEW fields, NEW o
    PROVE  /\ DOMAIN TsFields(IrFields(fields), o) = DOMAIN fields
           /\ DOMAIN SchemaFields(IrFields(fields), o) = DOMAIN fields
           /\ DOMAIN McpFields(IrFields(fields), o) = DOMAIN fields
           /\ \A way : DOMAIN SerdeFields(fields, way) = DOMAIN fields
           /\ \A i \in DOMAIN fields :
                 /\ TsFields(IrFields(fields), o)[i] = TsField(IrField(fields[i]), o)
                 /\ SchemaFields(IrFields(fields), o)[i] = SchemaField(IrField(fields[i]), o)
                 /\ McpFields(IrFields(fields), o)[i] = McpField(fields[i], o)
                 /\ \A way : SerdeFields(fields, way)[i] = SerdePart(fields[i], way)
<1>1. DOMAIN IrFields(fields) = DOMAIN fields
  BY DEF IrFields
<1>2. \A i \in DOMAIN fields : IrFields(fields)[i] = IrField(fields[i])
  BY DEF IrFields
<1>3. \A f : IrField(f).ty = f.ty
  BY DEF IrField
<1>4. /\ DOMAIN TsFields(IrFields(fields), o) = DOMAIN fields
      /\ \A i \in DOMAIN fields :
            TsFields(IrFields(fields), o)[i] = TsField(IrField(fields[i]), o)
  BY <1>1, <1>2 DEF TsFields
<1>5. /\ DOMAIN SchemaFields(IrFields(fields), o) = DOMAIN fields
      /\ \A i \in DOMAIN fields :
            SchemaFields(IrFields(fields), o)[i] = SchemaField(IrField(fields[i]), o)
  BY <1>1, <1>2 DEF SchemaFields
<1>6. /\ DOMAIN McpFields(IrFields(fields), o) = DOMAIN fields
      /\ \A i \in DOMAIN fields : McpFields(IrFields(fields), o)[i] = McpField(fields[i], o)
  BY <1>1, <1>2, <1>3 DEF McpFields, McpField
<1>7. \A way : DOMAIN SerdeFields(fields, way) = DOMAIN fields
  BY DEF SerdeFields
<1>8. \A i \in DOMAIN fields : \A way : SerdeFields(fields, way)[i] = SerdePart(fields[i], way)
  BY DEF SerdeFields, SerdePart
<1> QED BY <1>4, <1>5, <1>6, <1>7, <1>8

LEMMA McpFieldIs ==
    ASSUME NEW f, NEW o
    PROVE  /\ McpField(f, o).name = IrField(f).name /\ McpField(f, o).view = Mcp(f.ty, o)
           /\ McpField(f, o).required <=> ~IrField(f).optional
<1>1. CASE IrField(f).optional
  <2>1. McpField(f, o) = Part(IrField(f).name, Mcp(f.ty, o), FALSE)
    BY <1>1 DEF McpField
  <2> QED BY <1>1, <2>1 DEF Part
<1>2. CASE ~IrField(f).optional
  <2>1. McpField(f, o) = Part(IrField(f).name, Mcp(f.ty, o), TRUE)
    BY <1>2 DEF McpField
  <2> QED BY <1>2, <2>1 DEF Part
<1> QED BY <1>1, <1>2

LEMMA SerdePartIs ==
    ASSUME NEW f, NEW way
    PROVE  /\ SerdePart(f, way).name = f.wire /\ SerdePart(f, way).view = Serde(f.ty, way)
           /\ SerdePart(f, way).required <=> (way = "out" \/ f.ty.k # "option")
<1>1. CASE way = "out" \/ f.ty.k # "option"
  <2>1. SerdePart(f, way) = Part(f.wire, Serde(f.ty, way), TRUE)
    BY <1>1 DEF SerdePart
  <2> QED BY <1>1, <2>1 DEF Part
<1>2. CASE ~(way = "out" \/ f.ty.k # "option")
  <2>1. SerdePart(f, way) = Part(f.wire, Serde(f.ty, way), FALSE)
    BY <1>2 DEF SerdePart
  <2> QED BY <1>2, <2>1 DEF Part
<1> QED BY <1>1, <1>2

LEMMA FieldsAligned ==
    ASSUME Unfolds, NEW fields, NEW o
    PROVE  Aligned(TsFields(IrFields(fields), o), SchemaFields(IrFields(fields), o))
<1>1. \A f : TsField(f, o).name = SchemaField(f, o).name
  BY SchemaFieldIs, TsFieldIs
<1> QED BY <1>1, FieldPartsAre DEF Aligned

LEMMA FieldsSound ==
    ASSUME Unfolds, NEW fields, NEW o,
           \A i \in DOMAIN fields : Sound(TsType(fields[i].ty, o), Schema(fields[i].ty, o))
    PROVE  SoundParts(TsFields(IrFields(fields), o), SchemaFields(IrFields(fields), o))
<1>1. \A f : IrField(f).ty = f.ty
  BY DEF IrField
<1>2. ASSUME NEW i \in DOMAIN fields
      PROVE  LET a == TsField(IrField(fields[i]), o)
                 b == SchemaField(IrField(fields[i]), o)
             IN  a.name = b.name /\ b.required /\ Sound(a.view, b.view)
  <2>1. Sound(TsType(IrField(fields[i]).ty, o), Schema(IrField(fields[i]).ty, o))
    BY <1>1
  <2> QED BY <2>1, FieldSound, SchemaFieldIs, TsFieldIs
<1> QED BY <1>2, FieldPartsAre DEF SoundParts, Aligned

\* A field's type, as the claims need it of an input and of an output.
TakenType(t, o) ==
    /\ Defined(TsType(t, o)) /\ Defined(Schema(t, o)) /\ Tame(TsType(t, o), Schema(t, o))
    /\ Enters(TsType(t, o), Serde(t, "in")) /\ Within(Mcp(t, o), Serde(t, "in"))
GivenType(t, o) ==
    /\ Defined(Serde(t, "out")) /\ Returns(Serde(t, "out"))
    /\ Restores(Serde(t, "out"), Schema(t, o))

LEMMA FieldsTaken ==
    ASSUME Unfolds, NEW fields, NEW o,
           \A i \in DOMAIN fields : SerdeField(fields[i]) /\ TakenType(fields[i].ty, o)
    PROVE  /\ TakenParts(TsFields(IrFields(fields), o), SchemaFields(IrFields(fields), o),
                         SerdeFields(fields, "in"))
           /\ WithinParts(McpFields(IrFields(fields), o), SerdeFields(fields, "in"))
<1>1. \A f : IrField(f).ty = f.ty
  BY DEF IrField
<1>2. ASSUME NEW i \in DOMAIN fields
      PROVE  LET f == fields[i]
                 a == TsField(IrField(f), o)
                 b == SchemaField(IrField(f), o)
                 m == McpField(f, o)
                 c == SerdePart(f, "in")
             IN  /\ a.name = b.name /\ a.name = c.name /\ m.name = c.name
                 /\ b.required /\ (c.required => a.required /\ m.required)
                 /\ Tame(a.view, b.view) /\ PartEnters(a, c) /\ Within(m.view, c.view)
  <2> DEFINE f == fields[i]
             q == SerdePart(f, "in")
  <2>1. SerdeField(f) /\ TakenType(IrField(f).ty, o)
    BY <1>1
  <2>2. /\ IrField(f).name = f.wire
        /\ IrField(f).optional \/ IrField(f).undefined => IrField(f).ty.k = "option"
    BY <1>1, <2>1 DEF SerdeField
  <2>3. /\ q.view = Serde(IrField(f).ty, "in") /\ q.name = f.wire
        /\ q.required <=> IrField(f).ty.k # "option"
    BY <1>1, SerdePartIs
  <2> HIDE DEF f, q
  <2>4. Tame(TsField(IrField(f), o).view, SchemaField(IrField(f), o).view)
    BY <2>1, <2>2, <2>3, FieldTaken DEF TakenType
  <2>5. PartEnters(TsField(IrField(f), o), q)
    BY <2>1, <2>2, <2>3, FieldTaken DEF TakenType
  <2>6. Within(McpField(f, o).view, q.view)
    BY <1>1, <2>1, <2>3, McpFieldIs DEF TakenType
  <2>7. /\ TsField(IrField(f), o).name = q.name /\ McpField(f, o).name = q.name
        /\ TsField(IrField(f), o).name = SchemaField(IrField(f), o).name
        /\ SchemaField(IrField(f), o).required
        /\ q.required => TsField(IrField(f), o).required /\ McpField(f, o).required
    BY <2>2, <2>3, SchemaFieldIs, TsFieldIs, McpFieldIs
  <2> QED BY <2>4, <2>5, <2>6, <2>7 DEF f, q
<1>3. TakenParts(TsFields(IrFields(fields), o), SchemaFields(IrFields(fields), o),
                 SerdeFields(fields, "in"))
  BY <1>2, FieldPartsAre DEF TakenParts, Aligned
<1>4. WithinParts(McpFields(IrFields(fields), o), SerdeFields(fields, "in"))
  BY <1>2, FieldPartsAre DEF WithinParts, Aligned
<1> QED BY <1>3, <1>4

LEMMA FieldsGiven ==
    ASSUME Unfolds, NEW fields, NEW o,
           \A i \in DOMAIN fields : SerdeField(fields[i]) /\ GivenType(fields[i].ty, o)
    PROVE  LET a == TsFields(IrFields(fields), o)
               b == SchemaFields(IrFields(fields), o)
               c == SerdeFields(fields, "out")
           IN  /\ GivenParts(c, b)
               /\ (\A i \in DOMAIN fields : /\ IrField(fields[i]).constraints = {}
                                            /\ Within(Serde(fields[i].ty, "out"),
                                                      Schema(fields[i].ty, o)))
                     => WithinParts(c, b)
               /\ (\A i \in DOMAIN fields : Within(Serde(fields[i].ty, "out"),
                                                   TsType(fields[i].ty, o)))
                     => WithinParts(c, a)
<1>1. \A f : IrField(f).ty = f.ty
  BY DEF IrField
<1>2. ASSUME NEW i \in DOMAIN fields
      PROVE  LET f == fields[i]
                 a == TsField(IrField(f), o)
                 b == SchemaField(IrField(f), o)
                 c == SerdePart(f, "out")
             IN  /\ c.name = a.name /\ c.name = b.name /\ b.required /\ c.required
                 /\ Defined(c.view) /\ Returns(c.view) /\ Restores(c.view, b.view)
                 /\ IrField(f).constraints = {} /\ Within(Serde(f.ty, "out"), Schema(f.ty, o))
                      => Within(c.view, b.view)
                 /\ Within(Serde(f.ty, "out"), TsType(f.ty, o)) => Within(c.view, a.view)
  <2> DEFINE f == fields[i]
             q == SerdePart(f, "out")
  <2>1. SerdeField(f) /\ GivenType(IrField(f).ty, o)
    BY <1>1
  <2>2. IrField(f).name = f.wire
    BY <2>1 DEF SerdeField
  <2>3. q.view = Serde(IrField(f).ty, "out") /\ q.name = f.wire /\ q.required
    BY <1>1, SerdePartIs
  <2>4. f.ty = IrField(f).ty
    BY <1>1
  <2> HIDE DEF f, q
  <2>5. /\ TsField(IrField(f), o).name = q.name
        /\ SchemaField(IrField(f), o).name = q.name
        /\ SchemaField(IrField(f), o).required
    BY <2>2, <2>3, SchemaFieldIs, TsFieldIs
  <2>6. Defined(q.view) /\ Returns(q.view)
    BY <2>1, <2>3 DEF GivenType
  <2>7. Restores(q.view, SchemaField(IrField(f), o).view)
    BY <2>1, <2>3, FieldGiven DEF GivenType
  <2>8. IrField(f).constraints = {} /\ Within(Serde(f.ty, "out"), Schema(f.ty, o))
           => Within(q.view, SchemaField(IrField(f), o).view)
    BY <2>3, <2>4, FieldGiven
  <2>9. Within(Serde(f.ty, "out"), TsType(f.ty, o)) => Within(q.view, TsField(IrField(f), o).view)
    BY <2>3, <2>4, FieldGiven
  <2> QED BY <2>3, <2>5, <2>6, <2>7, <2>8, <2>9 DEF f, q
<1>3. GivenParts(SerdeFields(fields, "out"), SchemaFields(IrFields(fields), o))
  <2> DEFINE b == SchemaFields(IrFields(fields), o)
             c == SerdeFields(fields, "out")
  <2>1. DOMAIN b = DOMAIN fields /\ DOMAIN c = DOMAIN fields
    BY FieldPartsAre
  <2>2. \A i \in DOMAIN fields : /\ b[i] = SchemaField(IrField(fields[i]), o)
                                 /\ c[i] = SerdePart(fields[i], "out")
    BY FieldPartsAre
  <2> HIDE DEF b, c
  <2>3. \A i \in DOMAIN fields : /\ c[i].name = b[i].name /\ b[i].required
                                 /\ Restores(c[i].view, b[i].view)
                                 /\ Defined(c[i].view) /\ Returns(c[i].view)
    BY <1>2, <2>2
  <2>4. GivenParts(c, b)
    BY <2>1, <2>3 DEF GivenParts, Aligned
  <2> QED BY <2>4 DEF b, c
<1>4. ASSUME \A i \in DOMAIN fields : /\ IrField(fields[i]).constraints = {}
                                      /\ Within(Serde(fields[i].ty, "out"),
                                                Schema(fields[i].ty, o))
      PROVE  WithinParts(SerdeFields(fields, "out"), SchemaFields(IrFields(fields), o))
  BY <1>2, <1>4, FieldPartsAre DEF WithinParts, Aligned
<1>5. ASSUME \A i \in DOMAIN fields : Within(Serde(fields[i].ty, "out"),
                                             TsType(fields[i].ty, o))
      PROVE  WithinParts(SerdeFields(fields, "out"), TsFields(IrFields(fields), o))
  BY <1>2, <1>5, FieldPartsAre DEF WithinParts, Aligned
<1> QED BY <1>3, <1>4, <1>5

-----------------------------------------------------------------------------
(* Tuples and variants.                                                    *)

TsFixed(elems, o)     == Fixed([i \in DOMAIN elems |-> TsType(elems[i], o)])
SchemaFixed(elems, o) == Fixed([i \in DOMAIN elems |-> Schema(elems[i], o)])

LEMMA TupleSound ==
    ASSUME Unfolds, NEW n \in Nat, NEW elems, DOMAIN elems = 1..n, NEW o,
           \A i \in 1..n : Sound(TsType(elems[i], o), Schema(elems[i], o))
    PROVE  Sound(TsFixed(elems, o), SchemaFixed(elems, o))
<1> DEFINE a == [i \in DOMAIN elems |-> TsType(elems[i], o)]
           b == [i \in DOMAIN elems |-> Schema(elems[i], o)]
<1>1. Len(a) = n /\ Len(b) = n
  OBVIOUS
<1>2. \A i \in 1..n : a[i] = TsType(elems[i], o) /\ b[i] = Schema(elems[i], o)
  OBVIOUS
<1> HIDE DEF a, b
<1>3. Sound(Fixed(a), Fixed(b))
  BY <1>1, <1>2, FixedClaims
<1> QED BY <1>3 DEF a, b, TsFixed, SchemaFixed

LEMMA TupleTaken ==
    ASSUME Unfolds, NEW n \in Nat, NEW elems, DOMAIN elems = 1..n, NEW o,
           \A i \in 1..n : TakenType(elems[i], o)
    PROVE  /\ Defined(TsFixed(elems, o)) /\ Defined(SchemaFixed(elems, o))
           /\ Tame(TsFixed(elems, o), SchemaFixed(elems, o))
           /\ Enters(TsFixed(elems, o), SerdeTuple(elems, "in"))
           /\ Within(McpTuple(elems, o), SerdeTuple(elems, "in"))
<1> DEFINE a == [i \in DOMAIN elems |-> TsType(elems[i], o)]
           b == [i \in DOMAIN elems |-> Schema(elems[i], o)]
           m == [i \in DOMAIN elems |-> Mcp(elems[i], o)]
           c == [i \in DOMAIN elems |-> Serde(elems[i], "in")]
<1>1. Len(a) = n /\ Len(b) = n /\ Len(m) = n /\ Len(c) = n
  OBVIOUS
<1>2. \A i \in 1..n : /\ a[i] = TsType(elems[i], o) /\ b[i] = Schema(elems[i], o)
                      /\ m[i] = Mcp(elems[i], o) /\ c[i] = Serde(elems[i], "in")
  OBVIOUS
<1> HIDE DEF a, b, m, c
<1>3. \A i \in 1..n : Tame(a[i], b[i]) /\ Enters(a[i], c[i]) /\ Within(m[i], c[i])
  BY <1>2 DEF TakenType
<1>4. Defined(Fixed(a)) /\ Defined(Fixed(b))
  BY FixedClaims
<1>5. Tame(Fixed(a), Fixed(b))
  BY <1>1, <1>3, FixedClaims
<1>6. Enters(Fixed(a), Fixed(c))
  BY <1>1, <1>3, FixedClaims
<1>7. Within(Fixed(m), Fixed(c))
  BY <1>1, <1>3, FixedClaims
<1> QED BY <1>4, <1>5, <1>6, <1>7 DEF a, b, m, c, TsFixed, SchemaFixed, McpTuple, SerdeTuple

LEMMA TupleGiven ==
    ASSUME Unfolds, NEW n \in Nat, NEW elems, DOMAIN elems = 1..n, NEW o,
           \A i \in 1..n : GivenType(elems[i], o)
    PROVE  /\ Defined(SerdeTuple(elems, "out")) /\ Returns(SerdeTuple(elems, "out"))
           /\ Restores(SerdeTuple(elems, "out"), SchemaFixed(elems, o))
           /\ (\A i \in 1..n : Within(Serde(elems[i], "out"), Schema(elems[i], o)))
                => Within(SerdeTuple(elems, "out"), SchemaFixed(elems, o))
           /\ (\A i \in 1..n : Within(Serde(elems[i], "out"), TsType(elems[i], o)))
                => Within(SerdeTuple(elems, "out"), TsFixed(elems, o))
<1> DEFINE a == [i \in DOMAIN elems |-> TsType(elems[i], o)]
           b == [i \in DOMAIN elems |-> Schema(elems[i], o)]
           c == [i \in DOMAIN elems |-> Serde(elems[i], "out")]
<1>1. Len(a) = n /\ Len(b) = n /\ Len(c) = n
  OBVIOUS
<1>2. \A i \in 1..n : /\ a[i] = TsType(elems[i], o) /\ b[i] = Schema(elems[i], o)
                      /\ c[i] = Serde(elems[i], "out")
  OBVIOUS
<1> HIDE DEF a, b, c
<1>3. \A i \in 1..n : Returns(c[i]) /\ Restores(c[i], b[i])
  BY <1>2 DEF GivenType
<1>4. Defined(Fixed(c))
  BY FixedClaims
<1>5. Returns(Fixed(c))
  BY <1>1, <1>3, FixedClaims
<1>6. Restores(Fixed(c), Fixed(b))
  BY <1>1, <1>3, FixedClaims
<1>7. ASSUME \A i \in 1..n : Within(Serde(elems[i], "out"), Schema(elems[i], o))
      PROVE  Within(Fixed(c), Fixed(b))
  <2>1. \A i \in 1..n : Within(c[i], b[i])
    BY <1>2, <1>7
  <2> QED BY <1>1, <2>1, FixedClaims
<1>8. ASSUME \A i \in 1..n : Within(Serde(elems[i], "out"), TsType(elems[i], o))
      PROVE  Within(Fixed(c), Fixed(a))
  <2>1. \A i \in 1..n : Within(c[i], a[i])
    BY <1>2, <1>8
  <2> QED BY <1>1, <2>1, FixedClaims
<1> QED BY <1>4, <1>5, <1>6, <1>7, <1>8 DEF a, b, c, TsFixed, SchemaFixed, SerdeTuple

\* A tag is a part of its own.
LEMMA TaggedParts ==
    ASSUME Unfolds, NEW tag, NEW name, NEW a, NEW b, 0 \notin DOMAIN a, 0 \notin DOMAIN b
    PROVE  /\ Aligned(a, b) => Aligned(Tagged(tag, name, a), Tagged(tag, name, b))
           /\ SoundParts(a, b) => SoundParts(Tagged(tag, name, a), Tagged(tag, name, b))
           /\ GivenParts(a, b) => GivenParts(Tagged(tag, name, a), Tagged(tag, name, b))
           /\ WithinParts(a, b) => WithinParts(Tagged(tag, name, a), Tagged(tag, name, b))
           /\ \A c : 0 \notin DOMAIN c /\ TakenParts(a, b, c) =>
                 TakenParts(Tagged(tag, name, a), Tagged(tag, name, b), Tagged(tag, name, c))
<1> DEFINE p == Part(tag, Literal(name), TRUE)
           w == Literal(name)
<1>1. p.name = tag /\ p.view = w /\ p.required
  BY DEF Part
<1>2. /\ Sound(w, w) /\ Defined(w) /\ Tame(w, w) /\ Enters(w, w)
      /\ Within(w, w) /\ Returns(w) /\ Restores(w, w)
  BY LiteralClaims
<1> HIDE DEF w
<1>3. PartEnters(p, p)
  BY <1>1, <1>2 DEF PartEnters, Enters, Defined
<1> HIDE DEF p
<1>4. ASSUME NEW d, 0 \notin DOMAIN d
      PROVE  /\ DOMAIN Tagged(tag, name, d) = {0} \cup DOMAIN d
             /\ Tagged(tag, name, d)[0] = p
             /\ \A i \in DOMAIN d : Tagged(tag, name, d)[i] = d[i]
  <2>1. p = Part(tag, Literal(name), TRUE)
    BY DEF p
  <2>2. /\ DOMAIN Tagged(tag, name, d) = {0} \cup DOMAIN d
        /\ Tagged(tag, name, d)[0] = Part(tag, Literal(name), TRUE)
        /\ \A i \in DOMAIN d : Tagged(tag, name, d)[i] = d[i]
    BY <1>4 DEF Tagged
  <2> QED BY <2>1, <2>2
<1> DEFINE x == Tagged(tag, name, a)
           y == Tagged(tag, name, b)
<1>5. /\ DOMAIN x = {0} \cup DOMAIN a /\ DOMAIN y = {0} \cup DOMAIN b
      /\ x[0] = p /\ y[0] = p
      /\ \A i \in DOMAIN a : x[i] = a[i]
      /\ \A i \in DOMAIN b : y[i] = b[i]
  BY <1>4
<1> HIDE DEF x, y
<1>10. Aligned(a, b) => Aligned(x, y)
  BY <1>5 DEF Aligned
<1>6. SoundParts(a, b) => SoundParts(x, y)
  BY <1>1, <1>2, <1>5 DEF SoundParts, Aligned
<1>7. GivenParts(a, b) => GivenParts(x, y)
  BY <1>1, <1>2, <1>5 DEF GivenParts, Aligned
<1>8. WithinParts(a, b) => WithinParts(x, y)
  BY <1>1, <1>2, <1>5 DEF WithinParts, Aligned
<1>9. ASSUME NEW c, 0 \notin DOMAIN c, TakenParts(a, b, c)
      PROVE  TakenParts(x, y, Tagged(tag, name, c))
  <2> DEFINE z == Tagged(tag, name, c)
  <2>1. DOMAIN z = {0} \cup DOMAIN c /\ z[0] = p /\ \A i \in DOMAIN c : z[i] = c[i]
    BY <1>4, <1>9
  <2> HIDE DEF z
  <2>2. Aligned(x, y) /\ Aligned(x, z)
    BY <1>5, <1>9, <2>1 DEF TakenParts, Aligned
  <2>3. ASSUME NEW i \in DOMAIN x
        PROVE  /\ y[i].required /\ Tame(x[i].view, y[i].view)
               /\ (z[i].required => x[i].required) /\ PartEnters(x[i], z[i])
    <3>1. CASE i = 0
      BY <1>1, <1>2, <1>3, <1>5, <2>1, <3>1
    <3>2. CASE i \in DOMAIN a
      BY <1>5, <1>9, <2>1, <3>2 DEF TakenParts, Aligned
    <3> QED BY <1>5, <3>1, <3>2
  <2>4. TakenParts(x, y, z)
    BY <2>2, <2>3 DEF TakenParts
  <2> QED BY <2>4 DEF z
<1> QED BY <1>6, <1>7, <1>8, <1>9, <1>10 DEF x, y

\* A sequence, whatever is in it.
ListOf(s) == s \in Seq(ToSet(s))

LEMMA ListIs ==
    ASSUME NEW s, ListOf(s)
    PROVE  /\ Len(s) \in Nat /\ DOMAIN s = 1..Len(s) /\ 0 \notin DOMAIN s
           /\ s # <<>> => Len(s) >= 1
           /\ \A i \in 1..Len(s) : s[i] \in ToSet(s)
BY DEF ListOf, ToSet

LEMMA ListsAre ==
    ASSUME NEW T, NEW s \in Seq(T)
    PROVE  ListOf(s) /\ ToSet(s) \subseteq T
<1>1. \A i \in 1..Len(s) : s[i] \in T /\ s[i] \in ToSet(s)
  BY DEF ToSet
<1>2. Len(s) \in Nat /\ DOMAIN s = 1..Len(s) /\ s = [i \in 1..Len(s) |-> s[i]]
  OBVIOUS
<1>3. ToSet(s) \subseteq T
  BY <1>1, <1>2 DEF ToSet
<1> QED BY <1>1, <1>2, <1>3 DEF ListOf

\* The one part of a tuple variant.
PayloadOf(w) == <<Part("payload", w, TRUE)>>

LEMMA PayloadIs ==
    ASSUME NEW w
    PROVE  /\ DOMAIN PayloadOf(w) = {1} /\ PayloadOf(w)[1].required
           /\ PayloadOf(w)[1].name = "payload" /\ PayloadOf(w)[1].view = w
BY DEF PayloadOf, Part

LEMMA PayloadClaims ==
    ASSUME Unfolds, NEW a, NEW b
    PROVE  /\ Sound(a, b) => SoundParts(PayloadOf(a), PayloadOf(b))
           /\ Restores(a, b) /\ Defined(a) /\ Returns(a) => GivenParts(PayloadOf(a), PayloadOf(b))
           /\ Within(a, b) => WithinParts(PayloadOf(a), PayloadOf(b))
           /\ \A c : Tame(a, b) /\ Defined(a) /\ Enters(a, c) =>
                        TakenParts(PayloadOf(a), PayloadOf(b), PayloadOf(c))
<1>1. \A w : /\ DOMAIN PayloadOf(w) = {1} /\ PayloadOf(w)[1].required
             /\ PayloadOf(w)[1].name = "payload" /\ PayloadOf(w)[1].view = w
  BY PayloadIs
<1>2. \A u, w : Aligned(PayloadOf(u), PayloadOf(w))
  BY <1>1 DEF Aligned
<1>3. Sound(a, b) => SoundParts(PayloadOf(a), PayloadOf(b))
  BY <1>1, <1>2 DEF SoundParts
<1>4. Restores(a, b) /\ Defined(a) /\ Returns(a) => GivenParts(PayloadOf(a), PayloadOf(b))
  BY <1>1, <1>2 DEF GivenParts
<1>5. Within(a, b) => WithinParts(PayloadOf(a), PayloadOf(b))
  BY <1>1, <1>2 DEF WithinParts
<1>6. ASSUME NEW c, Tame(a, b), Defined(a), Enters(a, c)
      PROVE  TakenParts(PayloadOf(a), PayloadOf(b), PayloadOf(c))
  <2>1. PartEnters(PayloadOf(a)[1], PayloadOf(c)[1])
    BY <1>1, <1>6 DEF PartEnters, Enters, Defined
  <2> QED BY <1>1, <1>2, <1>6, <2>1 DEF TakenParts
<1> QED BY <1>3, <1>4, <1>5, <1>6

LEMMA NoPartsClaims ==
    ASSUME Unfolds
    PROVE  /\ SoundParts(<<>>, <<>>) /\ GivenParts(<<>>, <<>>)
           /\ WithinParts(<<>>, <<>>) /\ TakenParts(<<>>, <<>>, <<>>)
BY DEF SoundParts, GivenParts, WithinParts, TakenParts, Aligned

\* The payloads of a variant, by its form.
VariantIs(v) ==
    v.payload \in {"unit", "tuple", "struct"} /\ ListOf(v.elems) /\ ListOf(v.fields)

LEMMA PayloadsAre ==
    ASSUME NEW v, VariantIs(v), NEW o
    PROVE  LET w == IrVariant(v) IN
           /\ v.payload = "struct" =>
                 /\ TsPayload(w, o) = TsFields(IrFields(v.fields), o)
                 /\ SchemaPayload(w, o) = SchemaFields(IrFields(v.fields), o)
                 /\ McpPayload(w, o) = McpFields(IrFields(v.fields), o)
           /\ v.payload = "tuple" /\ v.elems # <<>> =>
                 /\ TsPayload(w, o) = PayloadOf(TsFixed(v.elems, o))
                 /\ SchemaPayload(w, o) = PayloadOf(SchemaFixed(v.elems, o))
                 /\ McpPayload(w, o) = PayloadOf(McpTuple(v.elems, o))
           /\ v.payload = "unit" =>
                 TsPayload(w, o) = <<>> /\ SchemaPayload(w, o) = <<>> /\ McpPayload(w, o) = <<>>
           /\ v.payload = "tuple" /\ v.elems = <<>> =>
                 TsPayload(w, o) = <<>> /\ SchemaPayload(w, o) = <<>>
<1> DEFINE w == IrVariant(v)
<1>1. /\ w.name = v.ident /\ w.payload = v.payload
      /\ w.elems = v.elems /\ w.fields = IrFields(v.fields)
  BY DEF IrVariant
<1> HIDE DEF w
<1>2. v.payload = "struct" =>
         /\ TsPayload(w, o) = TsFields(IrFields(v.fields), o)
         /\ SchemaPayload(w, o) = SchemaFields(IrFields(v.fields), o)
         /\ McpPayload(w, o) = McpFields(IrFields(v.fields), o)
  BY <1>1 DEF TsPayload, SchemaPayload, McpPayload
<1>3. v.payload = "tuple" /\ v.elems # <<>> =>
         /\ TsPayload(w, o) = <<Part("payload", TsTuple(v.elems, o), TRUE)>>
         /\ SchemaPayload(w, o) = <<Part("payload", SchemaTuple(v.elems, o), TRUE)>>
         /\ McpPayload(w, o) = <<Part("payload", McpTuple(v.elems, o), TRUE)>>
  BY <1>1 DEF TsPayload, SchemaPayload, McpPayload
<1>4. v.elems # <<>> => /\ TsTuple(v.elems, o) = TsFixed(v.elems, o)
                        /\ SchemaTuple(v.elems, o) = SchemaFixed(v.elems, o)
  BY DEF TsTuple, SchemaTuple, TsFixed, SchemaFixed
<1>5. v.payload = "unit" =>
         TsPayload(w, o) = <<>> /\ SchemaPayload(w, o) = <<>> /\ McpPayload(w, o) = <<>>
  BY <1>1 DEF TsPayload, SchemaPayload, McpPayload
<1>6. v.payload = "tuple" /\ v.elems = <<>> =>
         TsPayload(w, o) = <<>> /\ SchemaPayload(w, o) = <<>>
  BY <1>1 DEF TsPayload, SchemaPayload
<1> QED BY <1>2, <1>3, <1>4, <1>5, <1>6 DEF PayloadOf, w

\* The types and the fields of a variant.
TypesIn(v) == ToSet(v.elems) \cup {f.ty : f \in ToSet(v.fields)}

LEMMA VariantParts ==
    ASSUME NEW v, VariantIs(v)
    PROVE  /\ \A i \in 1..Len(v.elems) : v.elems[i] \in TypesIn(v)
           /\ \A i \in DOMAIN v.fields :
                 v.fields[i] \in ToSet(v.fields) /\ v.fields[i].ty \in TypesIn(v)
<1>1. \A i \in 1..Len(v.elems) : v.elems[i] \in ToSet(v.elems)
  BY ListIs DEF VariantIs
<1>2. \A i \in DOMAIN v.fields : v.fields[i] \in ToSet(v.fields)
  BY ListIs DEF VariantIs
<1> QED BY <1>1, <1>2 DEF TypesIn

LEMMA NoTagIn ==
    ASSUME NEW v, VariantIs(v), NEW o
    PROVE  /\ 0 \notin DOMAIN TsPayload(IrVariant(v), o)
           /\ 0 \notin DOMAIN SchemaPayload(IrVariant(v), o)
           /\ v.payload # "tuple" \/ v.elems # <<>> => 0 \notin DOMAIN McpPayload(IrVariant(v), o)
<1>1. 0 \notin DOMAIN v.fields
  BY ListIs DEF VariantIs
<1>2. \A w : 0 \notin DOMAIN PayloadOf(w)
  BY PayloadIs
<1>3. 0 \notin DOMAIN <<>>
  OBVIOUS
<1>4. /\ DOMAIN TsFields(IrFields(v.fields), o) = DOMAIN v.fields
      /\ DOMAIN SchemaFields(IrFields(v.fields), o) = DOMAIN v.fields
      /\ DOMAIN McpFields(IrFields(v.fields), o) = DOMAIN v.fields
  BY FieldPartsAre
<1>5. CASE v.payload = "struct"
  BY <1>1, <1>4, <1>5, PayloadsAre
<1>6. CASE v.payload = "tuple" /\ v.elems # <<>>
  BY <1>2, <1>6, PayloadsAre
<1>7. CASE v.payload = "tuple" /\ v.elems = <<>>
  BY <1>3, <1>7, PayloadsAre
<1>8. CASE v.payload = "unit"
  BY <1>3, <1>8, PayloadsAre
<1> QED BY <1>5, <1>6, <1>7, <1>8 DEF VariantIs

LEMMA PayloadSound ==
    ASSUME Unfolds, NEW v, VariantIs(v), NEW o,
           \A t \in TypesIn(v) : Sound(TsType(t, o), Schema(t, o))
    PROVE  SoundParts(TsPayload(IrVariant(v), o), SchemaPayload(IrVariant(v), o))
<1>1. CASE v.payload = "struct"
  <2>1. SoundParts(TsFields(IrFields(v.fields), o), SchemaFields(IrFields(v.fields), o))
    BY VariantParts, FieldsSound
  <2> QED BY <1>1, <2>1, PayloadsAre
<1>2. CASE v.payload = "tuple" /\ v.elems # <<>>
  <2>1. Len(v.elems) \in Nat /\ DOMAIN v.elems = 1..Len(v.elems)
    BY ListIs DEF VariantIs
  <2>2. Sound(TsFixed(v.elems, o), SchemaFixed(v.elems, o))
    BY <2>1, VariantParts, TupleSound
  <2>3. SoundParts(PayloadOf(TsFixed(v.elems, o)), PayloadOf(SchemaFixed(v.elems, o)))
    BY <2>2, PayloadClaims
  <2> QED BY <1>2, <2>3, PayloadsAre
<1>3. CASE v.payload = "unit" \/ (v.payload = "tuple" /\ v.elems = <<>>)
  BY <1>3, NoPartsClaims, PayloadsAre
<1> QED BY <1>1, <1>2, <1>3 DEF VariantIs

LEMMA VariantSound ==
    ASSUME Unfolds, NEW v, VariantIs(v), NEW o, NEW tag,
           \A t \in TypesIn(v) : Sound(TsType(t, o), Schema(t, o)),
           Differ(Tagged(tag, v.ident, TsPayload(IrVariant(v), o)))
    PROVE  Sound(TsVariant(tag, IrVariant(v), o), SchemaVariant(tag, IrVariant(v), o))
<1> DEFINE a == TsPayload(IrVariant(v), o)
           b == SchemaPayload(IrVariant(v), o)
<1>1. SoundParts(a, b) /\ 0 \notin DOMAIN a /\ 0 \notin DOMAIN b
  BY PayloadSound, NoTagIn
<1>2. Differ(Tagged(tag, v.ident, a)) /\ IrVariant(v).name = v.ident
  BY DEF IrVariant
<1>3. /\ TsVariant(tag, IrVariant(v), o) = Object(Tagged(tag, v.ident, a), "any")
      /\ SchemaVariant(tag, IrVariant(v), o) = Object(Tagged(tag, v.ident, b), "any")
  BY <1>2 DEF TsVariant, SchemaVariant
<1> HIDE DEF a, b
<1>4. SoundParts(Tagged(tag, v.ident, a), Tagged(tag, v.ident, b))
  BY <1>1, TaggedParts
<1>5. Sound(Object(Tagged(tag, v.ident, a), "any"), Object(Tagged(tag, v.ident, b), "any"))
  BY <1>2, <1>4, ObjectClaims
<1> QED BY <1>3, <1>5

\* What serde makes of a plain variant.
SerdeBody(v, way) ==
    CASE v.payload = "struct" -> SerdeFields(v.fields, way)
      [] v.payload = "tuple" -> PayloadOf(SerdeTuple(v.elems, way))
      [] OTHER -> <<>>

LEMMA SerdeVariantIs ==
    ASSUME NEW t, NEW v, VariantIs(v), PlainVariant(t, v), NEW way
    PROVE  /\ SerdeVariant(t, v, way) =
                Object(Tagged(IrTag(t), v.ident, SerdeBody(v, way)), KeysTo(way))
           /\ 0 \notin DOMAIN SerdeBody(v, way)
           /\ v.payload = "tuple" => v.elems # <<>>
<1>1. /\ v.wire = v.ident /\ t.tag = IrTag(t) /\ t.tag # "none"
      /\ v.payload = "tuple" => t.content = "payload" /\ Len(v.elems) >= 2
      /\ v.payload = "struct" => t.content = "none"
  BY DEF PlainVariant
<1>2. v.payload = "tuple" => v.elems # <<>>
  BY <1>1
<1>3. CASE v.payload = "struct"
  <2>1. SerdeVariant(t, v, way) =
          Object(Tagged(t.tag, v.wire, SerdeFields(v.fields, way)), KeysTo(way))
    BY <1>1, <1>3 DEF SerdeVariant
  <2>2. SerdeBody(v, way) = SerdeFields(v.fields, way)
    BY <1>3 DEF SerdeBody
  <2>3. DOMAIN SerdeFields(v.fields, way) = DOMAIN v.fields /\ 0 \notin DOMAIN v.fields
    BY ListIs DEF VariantIs, SerdeFields
  <2> QED BY <1>1, <1>2, <2>1, <2>2, <2>3
<1>4. CASE v.payload = "tuple"
  <2>0. Len(v.elems) \in Nat
    BY ListIs DEF VariantIs
  <2>1. SerdePayload(v, way) = SerdeTuple(v.elems, way)
    <3>1. Len(v.elems) # 1
      <4>1. Len(v.elems) >= 2
        BY <1>1, <1>4
      <4>2. \A n \in Nat : n >= 2 => n # 1
        OBVIOUS
      <4> QED BY <2>0, <4>1, <4>2, Zenon
    <3>2. SerdePayload(v, way) = SerdeItems(v.elems, way)
      BY <1>4 DEF SerdePayload
    <3> QED BY <3>1, <3>2 DEF SerdeItems
  <2>2. SerdeVariant(t, v, way) =
          Object(Tagged(t.tag, v.wire, <<Part(t.content, SerdePayload(v, way), TRUE)>>),
                 KeysTo(way))
    BY <1>1, <1>4 DEF SerdeVariant
  <2>3. SerdeBody(v, way) = <<Part(t.content, SerdePayload(v, way), TRUE)>>
    BY <1>1, <1>4, <2>1 DEF SerdeBody, PayloadOf
  <2>4. 0 \notin DOMAIN SerdeBody(v, way)
    BY <1>4, PayloadIs DEF SerdeBody
  <2> QED BY <1>1, <1>2, <2>2, <2>3, <2>4
<1>5. CASE v.payload = "unit"
  <2>1. SerdeVariant(t, v, way) = Object(Tagged(t.tag, v.wire, <<>>), KeysTo(way))
    BY <1>1, <1>5 DEF SerdeVariant
  <2>2. SerdeBody(v, way) = <<>>
    BY <1>5 DEF SerdeBody
  <2> QED BY <1>1, <1>2, <2>1, <2>2
<1> QED BY <1>3, <1>4, <1>5 DEF VariantIs

LEMMA PayloadTaken ==
    ASSUME Unfolds, NEW t, NEW v, VariantIs(v), PlainVariant(t, v), NEW o,
           \A s \in TypesIn(v) : TakenType(s, o),
           \A f \in ToSet(v.fields) : SerdeField(f)
    PROVE  /\ TakenParts(TsPayload(IrVariant(v), o), SchemaPayload(IrVariant(v), o),
                         SerdeBody(v, "in"))
           /\ WithinParts(McpPayload(IrVariant(v), o), SerdeBody(v, "in"))
<1>1. CASE v.payload = "struct"
  <2>1. /\ TakenParts(TsFields(IrFields(v.fields), o), SchemaFields(IrFields(v.fields), o),
                      SerdeFields(v.fields, "in"))
        /\ WithinParts(McpFields(IrFields(v.fields), o), SerdeFields(v.fields, "in"))
    BY VariantParts, FieldsTaken
  <2>2. SerdeBody(v, "in") = SerdeFields(v.fields, "in")
    BY <1>1 DEF SerdeBody
  <2> QED BY <1>1, <2>1, <2>2, PayloadsAre
<1>2. CASE v.payload = "tuple"
  <2>1. Len(v.elems) \in Nat /\ DOMAIN v.elems = 1..Len(v.elems)
    BY ListIs DEF VariantIs
  <2>2. /\ Defined(TsFixed(v.elems, o))
        /\ Tame(TsFixed(v.elems, o), SchemaFixed(v.elems, o))
        /\ Enters(TsFixed(v.elems, o), SerdeTuple(v.elems, "in"))
        /\ Within(McpTuple(v.elems, o), SerdeTuple(v.elems, "in"))
    BY <2>1, VariantParts, TupleTaken
  <2>3. TakenParts(PayloadOf(TsFixed(v.elems, o)), PayloadOf(SchemaFixed(v.elems, o)),
                   PayloadOf(SerdeTuple(v.elems, "in")))
    BY <2>2, PayloadClaims
  <2>4. WithinParts(PayloadOf(McpTuple(v.elems, o)), PayloadOf(SerdeTuple(v.elems, "in")))
    BY <2>2, PayloadClaims
  <2>5. SerdeBody(v, "in") = PayloadOf(SerdeTuple(v.elems, "in")) /\ v.elems # <<>>
    BY <1>2, SerdeVariantIs DEF SerdeBody
  <2> QED BY <1>2, <2>3, <2>4, <2>5, PayloadsAre
<1>3. CASE v.payload = "unit"
  <2>1. SerdeBody(v, "in") = <<>>
    BY <1>3 DEF SerdeBody
  <2> QED BY <1>3, <2>1, NoPartsClaims, PayloadsAre
<1> QED BY <1>1, <1>2, <1>3 DEF VariantIs

LEMMA VariantTaken ==
    ASSUME Unfolds, NEW t, NEW v, VariantIs(v), PlainVariant(t, v), NEW o,
           \A s \in TypesIn(v) : TakenType(s, o),
           \A f \in ToSet(v.fields) : SerdeField(f),
           Differ(Tagged(IrTag(t), v.ident, TsPayload(IrVariant(v), o)))
    PROVE  /\ Tame(TsVariant(IrTag(t), IrVariant(v), o), SchemaVariant(IrTag(t), IrVariant(v), o))
           /\ Enters(TsVariant(IrTag(t), IrVariant(v), o), SerdeVariant(t, v, "in"))
           /\ Within(McpVariant(IrTag(t), IrVariant(v), o), SerdeVariant(t, v, "in"))
<1> DEFINE a == TsPayload(IrVariant(v), o)
           b == SchemaPayload(IrVariant(v), o)
           m == McpPayload(IrVariant(v), o)
           c == SerdeBody(v, "in")
           tag == IrTag(t)
           name == v.ident
<1>1. TakenParts(a, b, c) /\ WithinParts(m, c)
  BY PayloadTaken
<1>2. 0 \notin DOMAIN a /\ 0 \notin DOMAIN b /\ 0 \notin DOMAIN m /\ 0 \notin DOMAIN c
  BY NoTagIn, SerdeVariantIs
<1>3. IrVariant(v).name = name
  BY DEF IrVariant
<1>4. /\ TsVariant(tag, IrVariant(v), o) = Object(Tagged(tag, name, a), "any")
      /\ SchemaVariant(tag, IrVariant(v), o) = Object(Tagged(tag, name, b), "any")
      /\ McpVariant(tag, IrVariant(v), o) = Object(Tagged(tag, name, m), "named")
  BY <1>3 DEF TsVariant, SchemaVariant, McpVariant
<1>5. SerdeVariant(t, v, "in") = Object(Tagged(tag, name, c), "any")
  BY SerdeVariantIs DEF KeysTo
<1>6. Differ(Tagged(tag, name, a))
  OBVIOUS
<1> HIDE DEF a, b, m, c, tag, name
<1>7. /\ TakenParts(Tagged(tag, name, a), Tagged(tag, name, b), Tagged(tag, name, c))
      /\ WithinParts(Tagged(tag, name, m), Tagged(tag, name, c))
  BY <1>1, <1>2, TaggedParts
<1>8. /\ Tame(Object(Tagged(tag, name, a), "any"), Object(Tagged(tag, name, b), "any"))
      /\ Enters(Object(Tagged(tag, name, a), "any"), Object(Tagged(tag, name, c), "any"))
  BY <1>6, <1>7, ObjectClaims
<1>9. Within(Object(Tagged(tag, name, m), "named"), Object(Tagged(tag, name, c), "any"))
  BY <1>7, WithinClaims
<1> QED BY <1>4, <1>5, <1>8, <1>9 DEF tag

LEMMA PayloadAligned ==
    ASSUME Unfolds, NEW v, VariantIs(v), NEW o
    PROVE  Aligned(TsPayload(IrVariant(v), o), SchemaPayload(IrVariant(v), o))
<1>1. CASE v.payload = "struct"
  BY <1>1, FieldsAligned, PayloadsAre
<1>2. CASE v.payload = "tuple" /\ v.elems # <<>>
  <2>1. \A u, w : Aligned(PayloadOf(u), PayloadOf(w))
    BY PayloadIs DEF Aligned
  <2> QED BY <1>2, <2>1, PayloadsAre
<1>3. CASE v.payload = "unit" \/ (v.payload = "tuple" /\ v.elems = <<>>)
  <2>1. Aligned(<<>>, <<>>)
    BY DEF Aligned
  <2> QED BY <1>3, <2>1, PayloadsAre
<1> QED BY <1>1, <1>2, <1>3 DEF VariantIs

LEMMA PayloadGiven ==
    ASSUME Unfolds, NEW t, NEW v, VariantIs(v), PlainVariant(t, v), NEW o,
           \A s \in TypesIn(v) : GivenType(s, o),
           \A f \in ToSet(v.fields) : SerdeField(f)
    PROVE  LET a == TsPayload(IrVariant(v), o)
               b == SchemaPayload(IrVariant(v), o)
               c == SerdeBody(v, "out")
           IN  /\ GivenParts(c, b)
               /\ (\A s \in TypesIn(v) : Within(Serde(s, "out"), Schema(s, o)))
                   /\ (\A f \in ToSet(v.fields) : IrField(f).constraints = {})
                    => WithinParts(c, b)
               /\ (\A s \in TypesIn(v) : Within(Serde(s, "out"), TsType(s, o)))
                    => WithinParts(c, a)
<1> DEFINE a == TsPayload(IrVariant(v), o)
           b == SchemaPayload(IrVariant(v), o)
           c == SerdeBody(v, "out")
           Free == /\ \A s \in TypesIn(v) : Within(Serde(s, "out"), Schema(s, o))
                   /\ \A f \in ToSet(v.fields) : IrField(f).constraints = {}
           Narrow == \A s \in TypesIn(v) : Within(Serde(s, "out"), TsType(s, o))
<1> SUFFICES GivenParts(c, b) /\ (Free => WithinParts(c, b)) /\ (Narrow => WithinParts(c, a))
  OBVIOUS
<1>1. CASE v.payload = "struct"
  <2> DEFINE as == TsFields(IrFields(v.fields), o)
             bs == SchemaFields(IrFields(v.fields), o)
             cs == SerdeFields(v.fields, "out")
  <2>1. GivenParts(cs, bs)
    BY VariantParts, FieldsGiven
  <2>2. Free => WithinParts(cs, bs)
    BY VariantParts, FieldsGiven
  <2>3. Narrow => WithinParts(cs, as)
    BY VariantParts, FieldsGiven
  <2>4. c = cs
    BY <1>1 DEF SerdeBody
  <2>5. a = as /\ b = bs
    BY <1>1, PayloadsAre
  <2> HIDE DEF Free, Narrow, a, b, c, as, bs, cs
  <2> QED BY <2>1, <2>2, <2>3, <2>4, <2>5
<1>2. CASE v.payload = "tuple"
  <2> DEFINE as == TsFixed(v.elems, o)
             bs == SchemaFixed(v.elems, o)
             cs == SerdeTuple(v.elems, "out")
  <2>1. Len(v.elems) \in Nat /\ DOMAIN v.elems = 1..Len(v.elems)
    BY ListIs DEF VariantIs
  <2>2. Defined(cs) /\ Returns(cs) /\ Restores(cs, bs)
    BY <2>1, VariantParts, TupleGiven
  <2>3. Free => Within(cs, bs)
    BY <2>1, VariantParts, TupleGiven
  <2>4. Narrow => Within(cs, as)
    BY <2>1, VariantParts, TupleGiven
  <2>5. c = PayloadOf(cs) /\ v.elems # <<>>
    BY <1>2, SerdeVariantIs DEF SerdeBody
  <2>6. a = PayloadOf(as) /\ b = PayloadOf(bs)
    BY <1>2, <2>5, PayloadsAre
  <2> HIDE DEF Free, Narrow, a, b, c, as, bs, cs
  <2>7. GivenParts(PayloadOf(cs), PayloadOf(bs))
    BY <2>2, PayloadClaims
  <2>8. Free => WithinParts(PayloadOf(cs), PayloadOf(bs))
    BY <2>3, PayloadClaims
  <2>9. Narrow => WithinParts(PayloadOf(cs), PayloadOf(as))
    BY <2>4, PayloadClaims
  <2> QED BY <2>5, <2>6, <2>7, <2>8, <2>9
<1>3. CASE v.payload = "unit"
  <2>1. c = <<>>
    BY <1>3 DEF SerdeBody
  <2>2. a = <<>> /\ b = <<>>
    BY <1>3, PayloadsAre
  <2> HIDE DEF Free, Narrow, a, b, c
  <2> QED BY <2>1, <2>2, NoPartsClaims
<1> QED BY <1>1, <1>2, <1>3 DEF VariantIs

LEMMA VariantGiven ==
    ASSUME Unfolds, NEW t, NEW v, VariantIs(v), PlainVariant(t, v), NEW o,
           \A s \in TypesIn(v) : GivenType(s, o),
           \A f \in ToSet(v.fields) : SerdeField(f),
           Differ(Tagged(IrTag(t), v.ident, TsPayload(IrVariant(v), o)))
    PROVE  LET a == TsVariant(IrTag(t), IrVariant(v), o)
               b == SchemaVariant(IrTag(t), IrVariant(v), o)
               c == SerdeVariant(t, v, "out")
           IN  /\ Defined(c) /\ Returns(c) /\ Restores(c, b)
               /\ (\A s \in TypesIn(v) : Within(Serde(s, "out"), Schema(s, o)))
                   /\ (\A f \in ToSet(v.fields) : IrField(f).constraints = {})
                    => Within(c, b)
               /\ (\A s \in TypesIn(v) : Within(Serde(s, "out"), TsType(s, o))) => Within(c, a)
<1> DEFINE a == TsPayload(IrVariant(v), o)
           b == SchemaPayload(IrVariant(v), o)
           c == SerdeBody(v, "out")
           tag == IrTag(t)
           name == v.ident
           Free == /\ \A s \in TypesIn(v) : Within(Serde(s, "out"), Schema(s, o))
                   /\ \A f \in ToSet(v.fields) : IrField(f).constraints = {}
           Narrow == \A s \in TypesIn(v) : Within(Serde(s, "out"), TsType(s, o))
<1>1. GivenParts(c, b) /\ (Free => WithinParts(c, b)) /\ (Narrow => WithinParts(c, a))
  BY PayloadGiven
<1>2. 0 \notin DOMAIN a /\ 0 \notin DOMAIN b /\ 0 \notin DOMAIN c
  BY NoTagIn, SerdeVariantIs
<1>3. IrVariant(v).name = name
  BY DEF IrVariant
<1>4. /\ TsVariant(tag, IrVariant(v), o) = Object(Tagged(tag, name, a), "any")
      /\ SchemaVariant(tag, IrVariant(v), o) = Object(Tagged(tag, name, b), "any")
  BY <1>3 DEF TsVariant, SchemaVariant
<1>5. SerdeVariant(t, v, "out") = Object(Tagged(tag, name, c), "named")
  BY SerdeVariantIs DEF KeysTo
<1>6. Differ(Tagged(tag, name, a))
  OBVIOUS
<1>7. Aligned(a, b)
  BY PayloadAligned
<1> DEFINE x == Tagged(tag, name, a)
           y == Tagged(tag, name, b)
           z == Tagged(tag, name, c)
<1> HIDE DEF a, b, c, tag, name, Free, Narrow
<1>8. GivenParts(z, y) /\ (Free => WithinParts(z, y)) /\ (Narrow => WithinParts(z, x))
  BY <1>1, <1>2, TaggedParts
<1>9. Aligned(x, y)
  BY <1>2, <1>7, TaggedParts
<1> HIDE DEF x, y, z
<1>10. Returns(Object(z, "named")) /\ Restores(Object(z, "named"), Object(y, "any"))
  BY <1>6, <1>8, <1>9, GivenClaims DEF x
<1>11. Defined(Object(z, "named"))
  BY ObjectDefined
<1>12. Free => Within(Object(z, "named"), Object(y, "any"))
  BY <1>8, WithinClaims
<1>13. Narrow => Within(Object(z, "named"), Object(x, "any"))
  BY <1>8, WithinClaims
<1>14. /\ Returns(SerdeVariant(t, v, "out")) /\ Defined(SerdeVariant(t, v, "out"))
       /\ Restores(SerdeVariant(t, v, "out"), SchemaVariant(tag, IrVariant(v), o))
  BY <1>4, <1>5, <1>10, <1>11 DEF y, z
<1>15. Free => Within(SerdeVariant(t, v, "out"), SchemaVariant(tag, IrVariant(v), o))
  BY <1>4, <1>5, <1>12 DEF y, z
<1>16. Narrow => Within(SerdeVariant(t, v, "out"), TsVariant(tag, IrVariant(v), o))
  BY <1>4, <1>5, <1>13 DEF x, z
<1> QED BY <1>14, <1>15, <1>16 DEF tag, Free, Narrow

\* A tag tells the variants apart.
LEMMA TagsTell ==
    ASSUME Unfolds, NEW tag, NEW m, NEW n, NEW a, NEW b, 0 \notin DOMAIN a, 0 \notin DOMAIN b,
           NEW ka, NEW kb, NEW x,
           Fits(Object(Tagged(tag, m, a), ka), x), Fits(Object(Tagged(tag, n, b), kb), x)
    PROVE  m = n
<1>1. x.o[tag] = Str(m) /\ x.o[tag] = Str(n)
  BY TagOf
<1> QED BY <1>1 DEF Str

-----------------------------------------------------------------------------
(* Types, and induction over their nesting.                                *)

Typed(t) ==
    /\ t.k \in {"prim", "option", "vec", "map", "tuple", "array", "struct", "tupleStruct",
                "unitStruct", "enum"}
    /\ t.k = "prim" => t.p \in Primitives
    /\ t.k = "array" => t.len \in Nat
    /\ t.k = "tuple" => t.elems # <<>>
    /\ t.k \in {"tuple", "tupleStruct"} => ListOf(t.elems)
    /\ t.k = "struct" => ListOf(t.fields)
    /\ t.k = "enum" => ListOf(t.variants) /\ \A v \in ToSet(t.variants) : VariantIs(v)

LEMMA PartsAre ==
    ASSUME NEW t
    PROVE  /\ t.k \in {"option", "vec", "array"} => PartsOf(t) = {t.of}
           /\ t.k = "map" => PartsOf(t) = {t.key, t.of}
           /\ t.k \in {"tuple", "tupleStruct"} => PartsOf(t) = ToSet(t.elems)
           /\ t.k = "struct" => PartsOf(t) = {f.ty : f \in ToSet(t.fields)}
           /\ t.k = "enum" => PartsOf(t) = UNION {TypesIn(v) : v \in ToSet(t.variants)}
           /\ t.k \in {"prim", "unitStruct"} => PartsOf(t) = {}
BY Zenon DEF PartsOf, TypesIn

LEMMA FormsAre ==
    ASSUME NEW T, NEW t \in TypesOver(T)
    PROVE  /\ t.k \in {"prim", "option", "vec", "map", "tuple", "array", "struct", "tupleStruct",
                       "unitStruct", "enum"}
           /\ t.k = "prim" => t.p \in Primitives
           /\ t.k \in {"option", "vec", "array", "map"} => t.of \in T
           /\ t.k = "array" => t.len \in Nat
           /\ t.k = "map" => t.key \in T
           /\ t.k \in {"tuple", "tupleStruct"} => t.elems \in Seq(T)
           /\ t.k = "tuple" => t.elems # <<>>
           /\ t.k = "struct" => t.fields \in FieldsOver(T)
           /\ t.k = "enum" => t.variants \in VariantsOver(T)
<1>1. \/ t \in [k : {"prim"}, p : Primitives]
      \/ t \in [k : {"option", "vec"}, of : T]
      \/ t \in [k : {"map"}, key : T, of : T]
      \/ t \in [k : {"tuple"}, elems : Seq(T) \ {<<>>}]
      \/ t \in [k : {"array"}, of : T, len : Nat]
      \/ t \in [k : {"struct"}, fields : FieldsOver(T)]
      \/ t \in [k : {"tupleStruct"}, elems : Seq(T)]
      \/ t \in [k : {"unitStruct"}]
      \/ t \in [k : {"enum"}, tag : STRING, content : STRING, attrs : Attributes,
                variants : VariantsOver(T)]
  BY DEF TypesOver
<1>2. CASE t \in [k : {"prim"}, p : Primitives]
  BY <1>2
<1>3. CASE t \in [k : {"option", "vec"}, of : T]
  BY <1>3
<1>4. CASE t \in [k : {"map"}, key : T, of : T]
  BY <1>4
<1>5. CASE t \in [k : {"tuple"}, elems : Seq(T) \ {<<>>}]
  BY <1>5
<1>6. CASE t \in [k : {"array"}, of : T, len : Nat]
  BY <1>6
<1>7. CASE t \in [k : {"struct"}, fields : FieldsOver(T)]
  BY <1>7
<1>8. CASE t \in [k : {"tupleStruct"}, elems : Seq(T)]
  BY <1>8
<1>9. CASE t \in [k : {"unitStruct"}]
  BY <1>9
<1>10. CASE t \in [k : {"enum"}, tag : STRING, content : STRING, attrs : Attributes,
                   variants : VariantsOver(T)]
  BY <1>10
<1> QED BY <1>1, <1>2, <1>3, <1>4, <1>5, <1>6, <1>7, <1>8, <1>9, <1>10

LEMMA FieldTypes ==
    ASSUME NEW T, NEW fields \in FieldsOver(T)
    PROVE  ListOf(fields) /\ {f.ty : f \in ToSet(fields)} \subseteq T
<1>1. ListOf(fields)
      /\ ToSet(fields) \subseteq [ident : STRING, wire : STRING, attrs : Attributes, ty : T]
  BY ListsAre DEF FieldsOver
<1> QED BY <1>1

LEMMA VariantTypes ==
    ASSUME NEW T, NEW variants \in VariantsOver(T)
    PROVE  /\ ListOf(variants)
           /\ \A v \in ToSet(variants) : VariantIs(v) /\ TypesIn(v) \subseteq T
<1>1. ListOf(variants)
      /\ ToSet(variants) \subseteq
           [ident : STRING, wire : STRING, snake : STRING, attrs : Attributes,
            payload : {"unit", "tuple", "struct"}, elems : Seq(T), fields : FieldsOver(T)]
  BY ListsAre DEF VariantsOver
<1>2. ASSUME NEW v \in ToSet(variants)
      PROVE  VariantIs(v) /\ TypesIn(v) \subseteq T
  <2>1. v.payload \in {"unit", "tuple", "struct"} /\ v.elems \in Seq(T) /\ v.fields \in FieldsOver(T)
    BY <1>1
  <2>2. ListOf(v.elems) /\ ToSet(v.elems) \subseteq T
    BY <2>1, ListsAre
  <2>3. ListOf(v.fields) /\ {f.ty : f \in ToSet(v.fields)} \subseteq T
    BY <2>1, FieldTypes
  <2> QED BY <2>1, <2>2, <2>3 DEF VariantIs, TypesIn
<1> QED BY <1>1, <1>2

LEMMA TypesAreTyped ==
    ASSUME NEW T, NEW t \in TypesOver(T)
    PROVE  Typed(t) /\ PartsOf(t) \subseteq T
<1>1. CASE t.k \in {"prim", "unitStruct"}
  BY <1>1, FormsAre, PartsAre DEF Typed
<1>2. CASE t.k \in {"option", "vec", "array", "map"}
  BY <1>2, FormsAre, PartsAre DEF Typed
<1>3. CASE t.k \in {"tuple", "tupleStruct"}
  <2>1. ListOf(t.elems) /\ ToSet(t.elems) \subseteq T
    BY <1>3, FormsAre, ListsAre
  <2> QED BY <1>3, <2>1, FormsAre, PartsAre DEF Typed
<1>4. CASE t.k = "struct"
  <2>1. ListOf(t.fields) /\ {f.ty : f \in ToSet(t.fields)} \subseteq T
    BY <1>4, FormsAre, FieldTypes
  <2> QED BY <1>4, <2>1, PartsAre DEF Typed
<1>5. CASE t.k = "enum"
  <2>1. /\ ListOf(t.variants)
        /\ \A v \in ToSet(t.variants) : VariantIs(v) /\ TypesIn(v) \subseteq T
    BY <1>5, FormsAre, VariantTypes
  <2> QED BY <1>5, <2>1, PartsAre DEF Typed
<1> QED BY <1>1, <1>2, <1>3, <1>4, <1>5, FormsAre

\* The recursive function of the nested types satisfies its equation.
LEMMA TypesDefined ==
    /\ TypesTo[0] = {}
    /\ \A n \in 0..Depth : n # 0 => TypesTo[n] = TypesOver(TypesTo[n - 1])
<1> DEFINE Upto(k) ==
             \E g : g = [n \in 0..k |-> IF n = 0 THEN {} ELSE TypesOver(g[n - 1])]
           T == {k \in Nat : Upto(k)}
<1>1. Upto(0)
  <2> DEFINE g == [n \in 0..0 |-> {}]
  <2>1. g = [n \in 0..0 |-> IF n = 0 THEN {} ELSE TypesOver(g[n - 1])]
    OBVIOUS
  <2> QED BY <2>1
<1>2. ASSUME NEW k \in Nat, Upto(k) PROVE Upto(k + 1)
  <2>1. PICK g : g = [n \in 0..k |-> IF n = 0 THEN {} ELSE TypesOver(g[n - 1])]
    BY <1>2
  <2> DEFINE last == TypesOver(g[k])
             h == [n \in 0..(k + 1) |-> IF n <= k THEN g[n] ELSE last]
  <2>2. ASSUME NEW n \in 0..(k + 1)
        PROVE  h[n] = IF n = 0 THEN {} ELSE TypesOver(h[n - 1])
    <3>1. CASE n <= k
      <4>1. g[n] = IF n = 0 THEN {} ELSE TypesOver(g[n - 1])
        <5> DEFINE gg == [m \in 0..k |-> IF m = 0 THEN {} ELSE TypesOver(g[m - 1])]
        <5>1. n \in 0..k
          BY <3>1
        <5>2. gg[n] = IF n = 0 THEN {} ELSE TypesOver(g[n - 1])
          BY <5>1
        <5>3. g = gg
          BY <2>1, Zenon
        <5> QED BY <5>2, <5>3, Zenon
      <4>2. h[n] = g[n]
        BY <3>1
      <4>3. n # 0 => h[n - 1] = g[n - 1]
        BY <3>1
      <4> QED BY <4>1, <4>2, <4>3
    <3>2. CASE n = k + 1
      <4>1. h[n] = last /\ n # 0 /\ h[n - 1] = g[k]
        BY <3>2
      <4> QED BY <4>1
    <3> QED BY <3>1, <3>2
  <2>3. h = [n \in 0..(k + 1) |-> IF n = 0 THEN {} ELSE TypesOver(h[n - 1])]
    BY <2>2
  <2> QED BY <2>3
<1>3. Nat \subseteq T
  <2> HIDE DEF Upto
  <2>1. 0 \in T /\ \A k \in Nat : k \in T => k + 1 \in T
    BY <1>1, <1>2
  <2> HIDE DEF T
  <2> QED BY <2>1, SetInduction
<1>4. Upto(Depth)
  BY <1>3, ReadingsAssumption
<1> DEFINE F == CHOOSE g : g = [n \in 0..Depth |-> IF n = 0 THEN {} ELSE TypesOver(g[n - 1])]
<1>5. F = [n \in 0..Depth |-> IF n = 0 THEN {} ELSE TypesOver(F[n - 1])]
  BY <1>4, Zenon
<1>6. TypesTo = F
  BY Zenon DEF TypesTo
<1> HIDE DEF F
<1>7. TypesTo = [n \in 0..Depth |-> IF n = 0 THEN {} ELSE TypesOver(TypesTo[n - 1])]
  BY <1>5, <1>6, Zenon
<1> DEFINE H == [n \in 0..Depth |-> IF n = 0 THEN {} ELSE TypesOver(TypesTo[n - 1])]
<1>8. \A n \in 0..Depth : H[n] = IF n = 0 THEN {} ELSE TypesOver(TypesTo[n - 1])
  OBVIOUS
<1>9. TypesTo = H
  BY <1>7, Zenon
<1> HIDE DEF H
<1>10. \A n \in 0..Depth : TypesTo[n] = IF n = 0 THEN {} ELSE TypesOver(TypesTo[n - 1])
  BY <1>8, <1>9
<1> QED BY <1>10, ReadingsAssumption

AllTypes == UNION {TypesTo[n] : n \in 0..Depth}

\* A set that has every type whose parts it has, has every type.
LEMMA TypeInduction ==
    ASSUME NEW S, \A t \in AllTypes : Typed(t) /\ PartsOf(t) \subseteq S => t \in S
    PROVE  TypesTo[Depth] \subseteq S
<1> DEFINE N == {n \in Nat : n <= Depth => TypesTo[n] \subseteq S}
<1>1. 0 \in N
  BY TypesDefined
<1>2. ASSUME NEW n \in Nat, n \in N PROVE n + 1 \in N
  <2> SUFFICES ASSUME n + 1 <= Depth PROVE TypesTo[n + 1] \subseteq S
    OBVIOUS
  <2>1. TypesTo[n] \subseteq S
    BY <1>2, ReadingsAssumption
  <2>2. n + 1 \in 0..Depth /\ n + 1 # 0 /\ (n + 1) - 1 = n
    BY ReadingsAssumption
  <2>3. TypesTo[n + 1] = TypesOver(TypesTo[n])
    BY <2>2, TypesDefined
  <2>4. TypesTo[n + 1] \subseteq AllTypes
    BY <2>2 DEF AllTypes
  <2>5. ASSUME NEW t \in TypesOver(TypesTo[n]) PROVE t \in S
    <3>1. Typed(t) /\ PartsOf(t) \subseteq TypesTo[n]
      BY TypesAreTyped
    <3>2. t \in AllTypes
      BY <2>3, <2>4
    <3> QED BY <2>1, <3>1, <3>2
  <2> QED BY <2>3, <2>5
<1> HIDE DEF N
<1>3. Nat \subseteq N
  BY <1>1, <1>2, SetInduction
<1> QED BY <1>3, ReadingsAssumption DEF N

-----------------------------------------------------------------------------
(* The claims for every type.                                              *)

LEMMA SubTypesAre ==
    ASSUME Unfolds, NEW t
    PROVE  t \in SubTypes(t) /\ \A p \in PartsOf(t) : SubTypes(p) \subseteq SubTypes(t)
<1>1. SubTypes(t) = SubTypesOf(t)
  BY DEF Unfolds
<1> QED BY <1>1 DEF SubTypesOf

\* rustc and tsc take the type.
Apart(t, o) == \A s \in SubTypes(t) : NamesDiffer(s, o)

LEMMA NamesApart ==
    ASSUME NEW t, NEW o, NamesDiffer(t, o)
    PROVE  /\ t.k = "struct" => Differ(TsFields(IrFields(t.fields), o))
           /\ t.k = "enum" => \A i \in DOMAIN t.variants :
                 /\ Differ(Tagged(IrTag(t), t.variants[i].ident,
                                  TsPayload(IrVariant(t.variants[i]), o)))
                 /\ \A k \in DOMAIN t.variants : t.variants[i].ident = t.variants[k].ident => i = k
<1>1. ASSUME t.k = "struct" PROVE Differ(TsFields(IrFields(t.fields), o))
  <2> DEFINE a == TsFields(IrFields(t.fields), o)
  <2>1. \A i, k \in DOMAIN a : a[i].name = a[k].name => i = k
    BY <1>1 DEF NamesDiffer
  <2> HIDE DEF a
  <2>2. Differ(a)
    BY <2>1 DEF Differ
  <2> QED BY <2>2 DEF a
<1>2. ASSUME t.k = "enum", NEW i \in DOMAIN t.variants
      PROVE  Differ(Tagged(IrTag(t), t.variants[i].ident, TsPayload(IrVariant(t.variants[i]), o)))
  <2> DEFINE w == IrVariant(t.variants[i])
             a == Tagged(IrTag(t), w.name, TsPayload(w, o))
  <2>1. TsVariant(IrTag(t), w, o).parts = a
    BY DEF TsVariant, Object
  <2>2. \A j, k \in DOMAIN TsVariant(IrTag(t), w, o).parts :
           TsVariant(IrTag(t), w, o).parts[j].name = TsVariant(IrTag(t), w, o).parts[k].name => j = k
    BY <1>2 DEF NamesDiffer
  <2> HIDE DEF a
  <2>3. Differ(a)
    BY <2>1, <2>2 DEF Differ
  <2>4. w.name = t.variants[i].ident
    BY DEF IrVariant
  <2> QED BY <2>3, <2>4, Zenon DEF a
<1>3. ASSUME t.k = "enum", NEW i \in DOMAIN t.variants, NEW k \in DOMAIN t.variants,
             t.variants[i].ident = t.variants[k].ident
      PROVE  i = k
  BY <1>3 DEF NamesDiffer, IrVariant
<1> QED BY <1>1, <1>2, <1>3
LEMMA CopiesAre ==
    ASSUME NEW n \in Nat, NEW w
    PROVE  /\ Len(Copies(n, w)) = n /\ DOMAIN Copies(n, w) = 1..n
           /\ \A i \in 1..n : Copies(n, w)[i] = w
BY DEF Copies

\* An array has at least the checks of a vector.
LEMMA ArraySound ==
    ASSUME Unfolds, NEW a, NEW b, Sound(a, b), NEW n \in Nat
    PROVE  Sound(ArrayOf(a), Fixed(Copies(n, b)))
<1> SUFFICES ASSUME NEW x, Fits(Fixed(Copies(n, b)), x)
             PROVE  Fits(ArrayOf(a), Through(Fixed(Copies(n, b)), x))
  BY DEF Sound
<1> DEFINE c == Copies(n, b)
<1>1. \A i \in 1..n : c[i] = b
  BY CopiesAre
<1>2. Len(c) = n
  BY CopiesAre
<1> HIDE DEF c
<1>3. PICK m \in Nat : \E f : x = Arr(f) /\ On(f, 1..m)
  BY ArrAt DEF c
<1>4. PICK f : x = Arr(f) /\ On(f, 1..m)
  BY <1>3
<1>5. Fits(Fixed(c), Arr(f))
  BY <1>4 DEF c
<1>6. m = Len(c) /\ \A i \in 1..m : Fits(c[i], f[i])
  BY <1>4, <1>5, ArrFits
<1>7. Through(Fixed(c), Arr(f)) = Arr([i \in 1..m |-> Through(c[i], f[i])])
  BY <1>4, ArrThrough
<1> DEFINE g == [i \in 1..m |-> Through(c[i], f[i])]
<1>8. On(g, 1..m) /\ \A i \in 1..m : g[i] = Through(c[i], f[i])
  BY DEF On
<1> HIDE DEF g
<1>9. \A i \in 1..m : Fits(a, g[i])
  BY <1>1, <1>2, <1>6, <1>8 DEF Sound
<1>10. Fits(ArrayOf(a), Arr(g))
  BY <1>8, <1>9, ArrFits
<1>11. Through(Fixed(c), Arr(f)) = Arr(g)
  BY <1>7 DEF g
<1> QED BY <1>4, <1>10, <1>11 DEF c

LEMMA CopiesClaims ==
    ASSUME Unfolds, NEW a, NEW b, NEW n \in Nat
    PROVE  /\ Sound(a, b) => Sound(Fixed(Copies(n, a)), Fixed(Copies(n, b)))
           /\ Defined(Fixed(Copies(n, a)))
           /\ Tame(a, b) => Tame(Fixed(Copies(n, a)), Fixed(Copies(n, b)))
           /\ Enters(a, b) => Enters(Fixed(Copies(n, a)), Fixed(Copies(n, b)))
           /\ Within(a, b) => Within(Fixed(Copies(n, a)), Fixed(Copies(n, b)))
           /\ Returns(a) => Returns(Fixed(Copies(n, a)))
           /\ Restores(a, b) => Restores(Fixed(Copies(n, a)), Fixed(Copies(n, b)))
<1> DEFINE c == Copies(n, a)
           d == Copies(n, b)
<1>1. Len(c) = n /\ Len(d) = n /\ \A i \in 1..n : c[i] = a /\ d[i] = b
  BY CopiesAre
<1> HIDE DEF c, d
<1>2. /\ (\A i \in 1..Len(c) : Sound(c[i], d[i])) => Sound(Fixed(c), Fixed(d))
      /\ Defined(Fixed(c))
      /\ (\A i \in 1..Len(c) : Tame(c[i], d[i])) => Tame(Fixed(c), Fixed(d))
      /\ (\A i \in 1..Len(c) : Enters(c[i], d[i])) => Enters(Fixed(c), Fixed(d))
      /\ (\A i \in 1..Len(c) : Within(c[i], d[i])) => Within(Fixed(c), Fixed(d))
      /\ (\A i \in 1..Len(c) : Returns(c[i])) => Returns(Fixed(c))
      /\ (\A i \in 1..Len(c) : Restores(c[i], d[i])) => Restores(Fixed(c), Fixed(d))
  BY <1>1, FixedClaims
<1>3. /\ Sound(a, b) => Sound(Fixed(c), Fixed(d))
      /\ Defined(Fixed(c))
      /\ Tame(a, b) => Tame(Fixed(c), Fixed(d))
      /\ Enters(a, b) => Enters(Fixed(c), Fixed(d))
      /\ Within(a, b) => Within(Fixed(c), Fixed(d))
      /\ Returns(a) => Returns(Fixed(c))
      /\ Restores(a, b) => Restores(Fixed(c), Fixed(d))
  BY <1>1, <1>2
<1> QED BY <1>3 DEF c, d

LEMMA UnitSound == ASSUME Unfolds PROVE Sound(Leaf("void"), Leaf("null"))
<1> SUFFICES ASSUME NEW x, Fits(Leaf("null"), x) PROVE Fits(Leaf("void"), Through(Leaf("null"), x))
  BY DEF Sound
<1>1. x \in LeafValues /\ FitsLeaf("null", x)
  BY FitsViews
<1>2. Through(Leaf("null"), x) = ThroughLeaf("null", x)
  BY ThroughViews
<1>3. ThroughLeaf("null", x) = x
  BY DEF ThroughLeaf
<1>4. FitsLeaf("void", x)
  BY <1>1 DEF FitsLeaf
<1> QED BY <1>1, <1>2, <1>3, <1>4, FitsViews

\* No value is of an enum without variants.
LEMMA NeverSound == ASSUME Unfolds, NEW a PROVE Sound(a, Leaf("never"))
<1>1. \A x : ~FitsLeaf("never", x)
  BY DEF FitsLeaf
<1> QED BY <1>1, FitsViews DEF Sound

LEMMA TuplesAre ==
    ASSUME NEW elems, NEW o
    PROVE  /\ elems # <<>> => /\ TsTuple(elems, o) = TsFixed(elems, o)
                              /\ SchemaTuple(elems, o) = SchemaFixed(elems, o)
           /\ elems = <<>> => TsTuple(elems, o) = Leaf("void") /\ SchemaTuple(elems, o) = Leaf("null")
           /\ TsTupleStruct(elems, o) =
                IF Len(elems) = 1 THEN TsType(elems[1], o) ELSE TsTuple(elems, o)
BY DEF TsTuple, SchemaTuple, TsFixed, SchemaFixed, TsTupleStruct

SoundType(t, o) == Sound(TsType(t, o), Schema(t, o))

LEMMA SoundPrimitive ==
    ASSUME Unfolds, NEW t, Typed(t), t.k \in {"prim", "unitStruct"}, NEW o, o.bigint \in Bigints
    PROVE  SoundType(t, o)
<1>1. CASE t.k = "prim"
  <2>1. t.p \in Primitives
    BY <1>1 DEF Typed
  <2>2. Sound(Leaf(TsPrimitive(t.p, o.bigint)), Leaf(SchemaPrimitive(t.p, o.bigint)))
    BY <2>1, LeafSound
  <2> QED BY <1>1, <2>2, TsReads, SchemaReads DEF SoundType
<1>2. CASE t.k = "unitStruct"
  BY <1>2, UnitSound, TsReads, SchemaReads DEF SoundType
<1> QED BY <1>1, <1>2

LEMMA SoundWrapped ==
    ASSUME Unfolds, NEW t, t.k \in {"option", "vec"}, NEW o, SoundType(t.of, o)
    PROVE  SoundType(t, o)
<1>1. CASE t.k = "option"
  <2>1. TsType(t, o) = Nullable(TsType(t.of, o))
    BY <1>1, TsReads
  <2>2. Schema(t, o) = Nullable(Schema(t.of, o))
    BY <1>1, SchemaReads
  <2> QED BY <2>1, <2>2, NullableClaims DEF SoundType
<1>2. CASE t.k = "vec"
  <2>1. TsType(t, o) = ArrayOf(TsType(t.of, o))
    BY <1>2, TsReads
  <2>2. Schema(t, o) = ArrayOf(Schema(t.of, o))
    BY <1>2, SchemaReads
  <2> QED BY <2>1, <2>2, ArrayClaims DEF SoundType
<1> QED BY <1>1, <1>2

PairOf(a, b) == <<a, b>>

LEMMA PairSound ==
    ASSUME Unfolds, NEW a, NEW b, NEW c, NEW d, Sound(a, b), Sound(c, d)
    PROVE  Sound(Fixed(<<a, c>>), Fixed(<<b, d>>))
<1>1. \A x, y : Len(PairOf(x, y)) = 2 /\ PairOf(x, y)[1] = x /\ PairOf(x, y)[2] = y
  BY DEF PairOf
<1>2. Sound(Fixed(PairOf(a, c)), Fixed(PairOf(b, d)))
  <2>1. \A i \in 1..2 : i = 1 \/ i = 2
    OBVIOUS
  <2>2. \A i \in 1..Len(PairOf(a, c)) : Sound(PairOf(a, c)[i], PairOf(b, d)[i])
    BY <1>1, <2>1
  <2>3. Len(PairOf(a, c)) = Len(PairOf(b, d))
    BY <1>1
  <2> QED BY <2>2, <2>3, FixedClaims
<1> QED BY <1>2 DEF PairOf

LEMMA SoundMap ==
    ASSUME Unfolds, NEW t, t.k = "map", NEW o, SoundType(t.key, o), SoundType(t.of, o)
    PROVE  SoundType(t, o)
<1>1. CASE IsStringKey(t.key)
  <2>1. TsType(t, o) = RecordOf(TsType(t.of, o))
    BY <1>1, TsReads
  <2>2. Schema(t, o) = RecordOf(Schema(t.of, o))
    BY <1>1, SchemaReads
  <2> QED BY <2>1, <2>2, RecordClaims DEF SoundType
<1>2. CASE ~IsStringKey(t.key)
  <2>1. Sound(Fixed(<<TsType(t.key, o), TsType(t.of, o)>>),
              Fixed(<<Schema(t.key, o), Schema(t.of, o)>>))
    BY PairSound DEF SoundType
  <2>2. TsType(t, o) = ArrayOf(Fixed(<<TsType(t.key, o), TsType(t.of, o)>>))
    BY <1>2, TsReads
  <2>3. Schema(t, o) = ArrayOf(Fixed(<<Schema(t.key, o), Schema(t.of, o)>>))
    BY <1>2, SchemaReads
  <2> QED BY <2>1, <2>2, <2>3, ArrayClaims DEF SoundType
<1> QED BY <1>1, <1>2

LEMMA SoundTuple ==
    ASSUME Unfolds, NEW elems, ListOf(elems), NEW o, \A p \in ToSet(elems) : SoundType(p, o)
    PROVE  Sound(TsTuple(elems, o), SchemaTuple(elems, o))
<1>1. CASE elems = <<>>
  BY <1>1, TuplesAre, UnitSound
<1>2. CASE elems # <<>>
  <2>1. Len(elems) \in Nat /\ DOMAIN elems = 1..Len(elems)
    BY ListIs
  <2>2. \A i \in 1..Len(elems) : Sound(TsType(elems[i], o), Schema(elems[i], o))
    BY ListIs DEF SoundType
  <2>3. Sound(TsFixed(elems, o), SchemaFixed(elems, o))
    BY <2>1, <2>2, TupleSound
  <2> QED BY <1>2, <2>3, TuplesAre
<1> QED BY <1>1, <1>2

LEMMA SoundSequence ==
    ASSUME Unfolds, NEW t, Typed(t), t.k \in {"tuple", "tupleStruct"}, NEW o,
           \A p \in ToSet(t.elems) : SoundType(p, o)
    PROVE  SoundType(t, o)
<1>1. ListOf(t.elems)
  BY DEF Typed
<1>2. Sound(TsTuple(t.elems, o), SchemaTuple(t.elems, o))
  BY <1>1, SoundTuple
<1>3. CASE t.k = "tuple"
  BY <1>2, <1>3, TsReads, SchemaReads DEF SoundType
<1>4. CASE t.k = "tupleStruct"
  <2>1. Schema(t, o) = IF Len(t.elems) = 1 THEN Schema(t.elems[1], o) ELSE SchemaTuple(t.elems, o)
    BY <1>4, SchemaReads
  <2>2. TsType(t, o) = IF Len(t.elems) = 1 THEN TsType(t.elems[1], o) ELSE TsTuple(t.elems, o)
    BY <1>4, TsReads, TuplesAre
  <2>3. Len(t.elems) = 1 => t.elems[1] \in ToSet(t.elems)
    BY <1>1, ListIs
  <2> QED BY <1>2, <2>1, <2>2, <2>3 DEF SoundType
<1> QED BY <1>3, <1>4

LEMMA SoundArray ==
    ASSUME Unfolds, NEW t, Typed(t), t.k = "array", NEW o, SoundType(t.of, o)
    PROVE  SoundType(t, o)
<1>1. t.len \in Nat
  BY DEF Typed
<1>2. Sound(Fixed(Copies(t.len, TsType(t.of, o))), Fixed(Copies(t.len, Schema(t.of, o))))
  BY <1>1, CopiesClaims DEF SoundType
<1>3. Sound(ArrayOf(TsType(t.of, o)), Fixed(Copies(t.len, Schema(t.of, o))))
  BY <1>1, ArraySound DEF SoundType
<1>4. Schema(t, o) = Fixed(Copies(t.len, Schema(t.of, o)))
  BY SchemaReads
<1> QED BY <1>2, <1>3, <1>4, TsReads DEF SoundType

LEMMA SoundStruct ==
    ASSUME Unfolds, NEW t, Typed(t), t.k = "struct", NEW o, NamesDiffer(t, o),
           \A p \in PartsOf(t) : SoundType(p, o)
    PROVE  SoundType(t, o)
<1>1. ListOf(t.fields)
  BY DEF Typed
<1>2. \A i \in DOMAIN t.fields : t.fields[i].ty \in PartsOf(t)
  BY <1>1, ListIs, PartsAre
<1>3. \A i \in DOMAIN t.fields : Sound(TsType(t.fields[i].ty, o), Schema(t.fields[i].ty, o))
  BY <1>2 DEF SoundType
<1> DEFINE a == TsFields(IrFields(t.fields), o)
           b == SchemaFields(IrFields(t.fields), o)
<1>4. SoundParts(a, b)
  BY <1>3, FieldsSound
<1>5. Differ(a)
  BY NamesApart
<1> HIDE DEF a, b
<1>6. Sound(Object(a, "any"), Object(b, "any"))
  BY <1>4, <1>5, ObjectClaims
<1>7. TsType(t, o) = Object(a, "any") /\ Schema(t, o) = Object(b, "any")
  BY TsReads, SchemaReads DEF a, b, TsStruct, SchemaStruct
<1> QED BY <1>6, <1>7 DEF SoundType

LEMMA SoundEnum ==
    ASSUME Unfolds, NEW t, Typed(t), t.k = "enum", NEW o, NamesDiffer(t, o),
           \A p \in PartsOf(t) : SoundType(p, o)
    PROVE  SoundType(t, o)
<1>1. ListOf(t.variants) /\ \A v \in ToSet(t.variants) : VariantIs(v)
  BY DEF Typed
<1> DEFINE a == [i \in DOMAIN t.variants |-> TsVariant(IrTag(t), IrVariant(t.variants[i]), o)]
           b == [i \in DOMAIN t.variants |-> SchemaVariant(IrTag(t), IrVariant(t.variants[i]), o)]
<1>2. ASSUME NEW i \in DOMAIN t.variants
      PROVE  Sound(TsVariant(IrTag(t), IrVariant(t.variants[i]), o),
                   SchemaVariant(IrTag(t), IrVariant(t.variants[i]), o))
  <2>1. t.variants[i] \in ToSet(t.variants)
    BY <1>1, ListIs
  <2>2. VariantIs(t.variants[i])
    BY <1>1, <2>1
  <2>3. TypesIn(t.variants[i]) \subseteq PartsOf(t)
    BY <2>1, PartsAre
  <2>4. \A s \in TypesIn(t.variants[i]) : Sound(TsType(s, o), Schema(s, o))
    BY <2>3 DEF SoundType
  <2>5. Differ(Tagged(IrTag(t), t.variants[i].ident, TsPayload(IrVariant(t.variants[i]), o)))
    BY NamesApart
  <2> QED BY <2>2, <2>4, <2>5, VariantSound
<1>3. DOMAIN a = DOMAIN b /\ \A i \in DOMAIN a : Sound(a[i], b[i])
  BY <1>2
<1> HIDE DEF a, b
<1>4. Sound(Union(a), Union(b))
  BY <1>3, UnionClaims
<1>5. TsType(t, o) = Union(a)
  BY TsReads DEF a, TsEnum
<1>6. Schema(t, o) = IF t.variants = <<>> THEN Leaf("never") ELSE Union(b)
  BY SchemaReads DEF b, SchemaEnum
<1> QED BY <1>4, <1>5, <1>6, NeverSound DEF SoundType

\* What a schema lets through is of the generated type.
LEMMA SoundStep ==
    ASSUME Unfolds, NEW t, Typed(t), NEW o, o.bigint \in Bigints, NamesDiffer(t, o),
           \A p \in PartsOf(t) : SoundType(p, o)
    PROVE  SoundType(t, o)
<1>1. CASE t.k \in {"prim", "unitStruct"}
  BY <1>1, SoundPrimitive
<1>2. CASE t.k \in {"option", "vec"}
  BY <1>2, PartsAre, SoundWrapped
<1>3. CASE t.k = "map"
  BY <1>3, PartsAre, SoundMap
<1>4. CASE t.k \in {"tuple", "tupleStruct"}
  BY <1>4, PartsAre, SoundSequence
<1>5. CASE t.k = "array"
  BY <1>5, PartsAre, SoundArray
<1>6. CASE t.k = "struct"
  BY <1>6, SoundStruct
<1>7. CASE t.k = "enum"
  BY <1>7, SoundEnum
<1> QED BY <1>1, <1>2, <1>3, <1>4, <1>5, <1>6, <1>7 DEF Typed

LEMMA EveryTypeSound ==
    ASSUME Unfolds, NEW o, o.bigint \in Bigints
    PROVE  \A t \in TypesTo[Depth] : Apart(t, o) => SoundType(t, o)
<1> DEFINE S == {t \in AllTypes : Apart(t, o) => SoundType(t, o)}
<1>1. ASSUME NEW t \in AllTypes, Typed(t), PartsOf(t) \subseteq S PROVE t \in S
  <2> SUFFICES ASSUME Apart(t, o) PROVE SoundType(t, o)
    OBVIOUS
  <2>1. NamesDiffer(t, o) /\ \A p \in PartsOf(t) : Apart(p, o)
    BY SubTypesAre DEF Apart
  <2>2. \A p \in PartsOf(t) : SoundType(p, o)
    BY <1>1, <2>1
  <2> QED BY <1>1, <2>1, <2>2, SoundStep
<1> HIDE DEF S
<1>2. TypesTo[Depth] \subseteq S
  BY <1>1, TypeInduction
<1> QED BY <1>2 DEF S

\* The manifest admits null and a value that is not.
LEMMA OneOfWithin ==
    ASSUME Unfolds, NEW a, NEW c, Within(a, c)
    PROVE  Within(OneOf(<<a, Leaf("null")>>), Nullable(c))
<1> SUFFICES ASSUME NEW x, Fits(OneOf(<<a, Leaf("null")>>), x), Ordinary(x)
             PROVE  Fits(Nullable(c), x)
  BY DEF Within
<1> DEFINE ws == PairOf(a, Leaf("null"))
<1>1. DOMAIN ws = {1, 2} /\ ws[1] = a /\ ws[2] = Leaf("null")
  BY DEF PairOf
<1>2. Fits(OneOf(ws), x)
  BY DEF PairOf
<1> HIDE DEF ws
<1>3. \E i \in DOMAIN ws : Fits(ws[i], x)
  <2>1. \E i \in DOMAIN ws : \A k \in DOMAIN ws : Fits(ws[k], x) <=> k = i
    BY <1>2, FitsViews
  <2> QED BY <2>1
<1>4. Fits(a, x) \/ Fits(Leaf("null"), x)
  BY <1>1, <1>3
<1>5. CASE Fits(a, x)
  BY <1>5, FitsViews DEF Within
<1>6. CASE Fits(Leaf("null"), x)
  <2>1. x \in LeafValues /\ FitsLeaf("null", x)
    BY <1>6, FitsViews
  <2>2. x.j = "null"
    BY <2>1 DEF FitsLeaf
  <2>3. x = Null
    BY <2>1, <2>2 DEF LeafValues, Null, Undef, NaN
  <2> QED BY <2>3, FitsViews
<1> QED BY <1>4, <1>5, <1>6

\* A part of an input on which the readings agree.
PlainIn(t, o) ==
    Typed(t) /\ PlainPart(t, o) /\ ~IsUnit(t) /\ NamesDiffer(t, o) /\ o.bigint \in Bigints

LEMMA PlainHas ==
    ASSUME NEW t, NEW o, PlainIn(t, o)
    PROVE  /\ t.k = "prim" => PlainPrimitive(t.p, o.bigint) /\ t.p # "unit"
           /\ t.k = "option" => ~HasTypeList(t.of)
           /\ t.k = "map" => IsStringKey(t.key)
           /\ t.k = "array" => t.len \in Nat /\ t.len <= TupleCap
           /\ t.k \in {"tuple", "tupleStruct"} => t.elems # <<>> /\ ListOf(t.elems)
           /\ t.k = "struct" => ListOf(t.fields) /\ \A i \in DOMAIN t.fields : SerdeField(t.fields[i])
           /\ t.k = "enum" => /\ ListOf(t.variants)
                              /\ \A i \in DOMAIN t.variants :
                                    /\ t.variants[i] \in ToSet(t.variants)
                                    /\ VariantIs(t.variants[i]) /\ PlainVariant(t, t.variants[i])
                                    /\ \A f \in ToSet(t.variants[i].fields) : SerdeField(f)
           /\ t.k # "unitStruct"
<1> USE DEF PlainIn
<1>1. /\ t.k = "prim" => PlainPrimitive(t.p, o.bigint)
      /\ t.k = "option" => ~HasTypeList(t.of)
      /\ t.k = "map" => t.key.k = "prim" /\ t.key.p = "string"
      /\ t.k = "array" => t.len <= TupleCap
      /\ t.k = "tupleStruct" => t.elems # <<>>
      /\ t.k = "enum" => \A i \in DOMAIN t.variants : PlainVariant(t, t.variants[i])
      /\ \A f \in FieldsOf(t) : SerdeField(f)
  BY DEF PlainPart
<1>2. /\ t.k = "array" => t.len \in Nat
      /\ t.k = "tuple" => t.elems # <<>>
      /\ t.k \in {"tuple", "tupleStruct"} => ListOf(t.elems)
      /\ t.k = "struct" => ListOf(t.fields)
      /\ t.k = "enum" => ListOf(t.variants) /\ \A v \in ToSet(t.variants) : VariantIs(v)
  BY DEF Typed
<1>3. t.k # "unitStruct" /\ (t.k = "prim" => t.p # "unit")
  BY DEF IsUnit
<1>4. ASSUME t.k = "struct", NEW i \in DOMAIN t.fields PROVE SerdeField(t.fields[i])
  <2>1. t.fields[i] \in ToSet(t.fields)
    BY <1>2, <1>4, ListIs
  <2>2. FieldsOf(t) = ToSet(t.fields)
    BY <1>4 DEF FieldsOf
  <2> QED BY <1>1, <2>1, <2>2
<1>5. ASSUME t.k = "enum", NEW i \in DOMAIN t.variants
      PROVE  /\ t.variants[i] \in ToSet(t.variants)
             /\ \A f \in ToSet(t.variants[i].fields) : SerdeField(f)
  <2>1. t.variants[i] \in ToSet(t.variants)
    BY <1>2, <1>5, ListIs
  <2>2. FieldsOf(t) = UNION {ToSet(v.fields) : v \in ToSet(t.variants)}
    BY <1>5 DEF FieldsOf
  <2> QED BY <1>1, <2>1, <2>2
<1>6. t.k = "map" => IsStringKey(t.key)
  BY <1>1 DEF IsStringKey
<1> QED BY <1>1, <1>2, <1>3, <1>4, <1>5, <1>6

LEMMA TakenPrimitive ==
    ASSUME Unfolds, NEW t, NEW o, PlainIn(t, o), t.k = "prim"
    PROVE  TakenType(t, o)
<1>1. PlainPrimitive(t.p, o.bigint) /\ t.p # "unit" /\ o.bigint \in Bigints
  BY PlainHas DEF PlainIn
<1>2. /\ Defined(Leaf(TsPrimitive(t.p, o.bigint)))
      /\ Defined(Leaf(SchemaPrimitive(t.p, o.bigint)))
      /\ Tame(Leaf(TsPrimitive(t.p, o.bigint)), Leaf(SchemaPrimitive(t.p, o.bigint)))
      /\ Enters(Leaf(TsPrimitive(t.p, o.bigint)), Leaf(SerdePrimitive(t.p)))
      /\ Within(Leaf(McpPrimitive(t.p, o.bigint)), Leaf(SerdePrimitive(t.p)))
  BY <1>1, LeafInput
<1>3. /\ TsType(t, o) = Leaf(TsPrimitive(t.p, o.bigint))
      /\ Schema(t, o) = Leaf(SchemaPrimitive(t.p, o.bigint))
      /\ Mcp(t, o) = Leaf(McpPrimitive(t.p, o.bigint))
      /\ Serde(t, "in") = Leaf(SerdePrimitive(t.p))
  BY TsReads, SchemaReads, McpReads, SerdeReads
<1> QED BY <1>2, <1>3 DEF TakenType

LEMMA TakenOption ==
    ASSUME Unfolds, NEW t, NEW o, PlainIn(t, o), t.k = "option", TakenType(t.of, o)
    PROVE  TakenType(t, o)
<1>1. TsType(t, o) = Nullable(TsType(t.of, o))
  BY TsReads
<1>2. Schema(t, o) = Nullable(Schema(t.of, o))
  BY SchemaReads
<1>3. Serde(t, "in") = Nullable(Serde(t.of, "in"))
  BY SerdeReads
<1>4. Mcp(t, o) = McpOption(t.of, o)
  BY McpReads
<1>5. ~HasTypeList(t.of)
  BY PlainHas
<1>6. /\ Defined(TsType(t.of, o)) /\ Defined(Schema(t.of, o))
      /\ Tame(TsType(t.of, o), Schema(t.of, o))
      /\ Enters(TsType(t.of, o), Serde(t.of, "in")) /\ Within(Mcp(t.of, o), Serde(t.of, "in"))
  BY DEF TakenType
<1>7. Within(McpOption(t.of, o), Nullable(Serde(t.of, "in")))
  <2>1. Within(OneOf(<<Mcp(t.of, o), Leaf("null")>>), Nullable(Serde(t.of, "in")))
    BY <1>6, OneOfWithin
  <2>2. Within(Nullable(Mcp(t.of, o)), Nullable(Serde(t.of, "in")))
    BY <1>6, NullableClaims
  <2> QED BY <1>5, <2>1, <2>2 DEF McpOption
<1>8. /\ Defined(Nullable(TsType(t.of, o))) /\ Defined(Nullable(Schema(t.of, o)))
      /\ Tame(Nullable(TsType(t.of, o)), Nullable(Schema(t.of, o)))
      /\ Enters(Nullable(TsType(t.of, o)), Nullable(Serde(t.of, "in")))
  BY <1>6, NullableClaims
<1> QED BY <1>1, <1>2, <1>3, <1>4, <1>7, <1>8 DEF TakenType

LEMMA TakenVec ==
    ASSUME Unfolds, NEW t, NEW o, t.k = "vec", TakenType(t.of, o)
    PROVE  TakenType(t, o)
<1>1. /\ TsType(t, o) = ArrayOf(TsType(t.of, o))
      /\ Schema(t, o) = ArrayOf(Schema(t.of, o))
  BY TsReads, SchemaReads
<1>2. /\ Mcp(t, o) = ArrayOf(Mcp(t.of, o))
      /\ Serde(t, "in") = ArrayOf(Serde(t.of, "in"))
  BY McpReads, SerdeReads
<1>3. /\ Tame(TsType(t.of, o), Schema(t.of, o))
      /\ Enters(TsType(t.of, o), Serde(t.of, "in")) /\ Within(Mcp(t.of, o), Serde(t.of, "in"))
  BY DEF TakenType
<1>4. /\ Defined(ArrayOf(TsType(t.of, o))) /\ Defined(ArrayOf(Schema(t.of, o)))
      /\ Tame(ArrayOf(TsType(t.of, o)), ArrayOf(Schema(t.of, o)))
      /\ Enters(ArrayOf(TsType(t.of, o)), ArrayOf(Serde(t.of, "in")))
      /\ Within(ArrayOf(Mcp(t.of, o)), ArrayOf(Serde(t.of, "in")))
  BY <1>3, ArrayClaims
<1> QED BY <1>1, <1>2, <1>4 DEF TakenType

LEMMA TakenMap ==
    ASSUME Unfolds, NEW t, NEW o, PlainIn(t, o), t.k = "map", TakenType(t.of, o)
    PROVE  TakenType(t, o)
<1>1. /\ TsType(t, o) = RecordOf(TsType(t.of, o))
      /\ Schema(t, o) = RecordOf(Schema(t.of, o))
  BY PlainHas, TsReads, SchemaReads
<1>2. /\ Mcp(t, o) = RecordOf(Mcp(t.of, o))
      /\ Serde(t, "in") = RecordOf(Serde(t.of, "in"))
  BY McpReads, SerdeReads
<1>3. /\ Tame(TsType(t.of, o), Schema(t.of, o))
      /\ Enters(TsType(t.of, o), Serde(t.of, "in")) /\ Within(Mcp(t.of, o), Serde(t.of, "in"))
  BY DEF TakenType
<1>4. /\ Defined(RecordOf(TsType(t.of, o))) /\ Defined(RecordOf(Schema(t.of, o)))
      /\ Tame(RecordOf(TsType(t.of, o)), RecordOf(Schema(t.of, o)))
      /\ Enters(RecordOf(TsType(t.of, o)), RecordOf(Serde(t.of, "in")))
      /\ Within(RecordOf(Mcp(t.of, o)), RecordOf(Serde(t.of, "in")))
  BY <1>3, RecordClaims
<1> QED BY <1>1, <1>2, <1>4 DEF TakenType

LEMMA TakenArray ==
    ASSUME Unfolds, NEW t, NEW o, PlainIn(t, o), t.k = "array", TakenType(t.of, o)
    PROVE  TakenType(t, o)
<1>1. /\ TsType(t, o) = Fixed(Copies(t.len, TsType(t.of, o)))
      /\ Schema(t, o) = Fixed(Copies(t.len, Schema(t.of, o)))
  BY PlainHas, TsReads, SchemaReads
<1>2. /\ Mcp(t, o) = Fixed(Copies(t.len, Mcp(t.of, o)))
      /\ Serde(t, "in") = Fixed(Copies(t.len, Serde(t.of, "in")))
  BY McpReads, SerdeReads
<1>3. /\ Tame(TsType(t.of, o), Schema(t.of, o))
      /\ Enters(TsType(t.of, o), Serde(t.of, "in")) /\ Within(Mcp(t.of, o), Serde(t.of, "in"))
  BY DEF TakenType
<1>4. t.len \in Nat
  BY PlainHas
<1>5. /\ Defined(Fixed(Copies(t.len, TsType(t.of, o))))
      /\ Tame(Fixed(Copies(t.len, TsType(t.of, o))), Fixed(Copies(t.len, Schema(t.of, o))))
      /\ Enters(Fixed(Copies(t.len, TsType(t.of, o))), Fixed(Copies(t.len, Serde(t.of, "in"))))
  BY <1>3, <1>4, CopiesClaims
<1>6. /\ Defined(Fixed(Copies(t.len, Schema(t.of, o))))
      /\ Within(Fixed(Copies(t.len, Mcp(t.of, o))), Fixed(Copies(t.len, Serde(t.of, "in"))))
  BY <1>3, <1>4, CopiesClaims
<1> QED BY <1>1, <1>2, <1>5, <1>6 DEF TakenType

LEMMA TakenSequence ==
    ASSUME Unfolds, NEW t, NEW o, PlainIn(t, o), t.k \in {"tuple", "tupleStruct"},
           \A p \in ToSet(t.elems) : TakenType(p, o)
    PROVE  TakenType(t, o)
<1>1. t.elems # <<>> /\ ListOf(t.elems)
  BY PlainHas
<1>2. Len(t.elems) \in Nat /\ DOMAIN t.elems = 1..Len(t.elems) /\ Len(t.elems) >= 1
      /\ \A i \in 1..Len(t.elems) : TakenType(t.elems[i], o)
  BY <1>1, ListIs
<1>3. /\ Defined(TsFixed(t.elems, o)) /\ Defined(SchemaFixed(t.elems, o))
      /\ Tame(TsFixed(t.elems, o), SchemaFixed(t.elems, o))
      /\ Enters(TsFixed(t.elems, o), SerdeTuple(t.elems, "in"))
      /\ Within(McpTuple(t.elems, o), SerdeTuple(t.elems, "in"))
  BY <1>2, TupleTaken
<1>4. TsTuple(t.elems, o) = TsFixed(t.elems, o) /\ SchemaTuple(t.elems, o) = SchemaFixed(t.elems, o)
  BY <1>1, TuplesAre
<1>5. CASE t.k = "tuple"
  <2>1. /\ TsType(t, o) = TsFixed(t.elems, o)
        /\ Schema(t, o) = SchemaFixed(t.elems, o)
    BY <1>4, <1>5, TsReads, SchemaReads
  <2>2. /\ Mcp(t, o) = McpTuple(t.elems, o)
        /\ Serde(t, "in") = SerdeTuple(t.elems, "in")
    BY <1>5, McpReads, SerdeReads
  <2> QED BY <1>3, <2>1, <2>2 DEF TakenType
<1>6. CASE t.k = "tupleStruct" /\ Len(t.elems) # 1
  <2>1. TsType(t, o) = TsFixed(t.elems, o)
    BY <1>4, <1>6, TsReads, TuplesAre
  <2>2. Schema(t, o) = SchemaFixed(t.elems, o)
    BY <1>4, <1>6, SchemaReads
  <2>3. Len(t.elems) \notin {0, 1}
    BY <1>2, <1>6
  <2>4. Mcp(t, o) = McpTuple(t.elems, o)
    BY <1>6, <2>3, McpReads
  <2>5. Serde(t, "in") = SerdeTuple(t.elems, "in")
    BY <1>6, SerdeReads DEF SerdeItems
  <2> QED BY <1>3, <2>1, <2>2, <2>4, <2>5 DEF TakenType
<1>7. CASE t.k = "tupleStruct" /\ Len(t.elems) = 1
  <2>1. TsType(t, o) = TsType(t.elems[1], o)
    BY <1>7, TsReads, TuplesAre
  <2>2. Schema(t, o) = Schema(t.elems[1], o)
    BY <1>7, SchemaReads
  <2>3. Mcp(t, o) = Mcp(t.elems[1], o)
    BY <1>7, McpReads
  <2>4. Serde(t, "in") = Serde(t.elems[1], "in")
    BY <1>7, SerdeReads DEF SerdeItems
  <2>5. TakenType(t.elems[1], o)
    BY <1>2
  <2> QED BY <2>1, <2>2, <2>3, <2>4, <2>5 DEF TakenType
<1> QED BY <1>5, <1>6, <1>7

LEMMA TakenStruct ==
    ASSUME Unfolds, NEW t, NEW o, PlainIn(t, o), t.k = "struct",
           \A p \in PartsOf(t) : TakenType(p, o)
    PROVE  TakenType(t, o)
<1>1. ListOf(t.fields) /\ \A i \in DOMAIN t.fields : SerdeField(t.fields[i])
  BY PlainHas
<1>2. \A i \in DOMAIN t.fields : t.fields[i].ty \in PartsOf(t)
  BY <1>1, ListIs, PartsAre
<1>3. \A i \in DOMAIN t.fields : SerdeField(t.fields[i]) /\ TakenType(t.fields[i].ty, o)
  BY <1>1, <1>2
<1> DEFINE a == TsFields(IrFields(t.fields), o)
           b == SchemaFields(IrFields(t.fields), o)
           c == SerdeFields(t.fields, "in")
           m == McpFields(IrFields(t.fields), o)
<1>4. TakenParts(a, b, c) /\ WithinParts(m, c)
  BY <1>3, FieldsTaken
<1>5. Differ(a)
  BY NamesApart DEF PlainIn
<1>6. TsType(t, o) = Object(a, "any") /\ Schema(t, o) = Object(b, "any")
  BY TsReads, SchemaReads DEF TsStruct, SchemaStruct
<1>7. Mcp(t, o) = Object(m, "named") /\ Serde(t, "in") = Object(c, KeysTo("in"))
  BY McpReads, SerdeReads
<1>8. KeysTo("in") = "any"
  BY DEF KeysTo
<1> HIDE DEF a, b, c, m
<1>9. Tame(Object(a, "any"), Object(b, "any")) /\ Enters(Object(a, "any"), Object(c, "any"))
  BY <1>4, <1>5, ObjectClaims
<1>10. Within(Object(m, "named"), Object(c, "any"))
  BY <1>4, WithinClaims
<1>11. Defined(Object(a, "any")) /\ Defined(Object(b, "any"))
  BY ObjectDefined
<1> QED BY <1>6, <1>7, <1>8, <1>9, <1>10, <1>11 DEF TakenType

\* No value is of two variants.
LEMMA VariantsAlone ==
    ASSUME Unfolds, NEW t, NEW o, PlainIn(t, o), t.k = "enum"
    PROVE  /\ Alone([i \in DOMAIN t.variants |->
                        TsVariant(IrTag(t), IrVariant(t.variants[i]), o)],
                    [i \in DOMAIN t.variants |->
                        SchemaVariant(IrTag(t), IrVariant(t.variants[i]), o)])
           /\ Alone([i \in DOMAIN t.variants |-> SerdeVariant(t, t.variants[i], "out")],
                    [i \in DOMAIN t.variants |->
                        SchemaVariant(IrTag(t), IrVariant(t.variants[i]), o)])
<1> DEFINE a == [i \in DOMAIN t.variants |-> TsVariant(IrTag(t), IrVariant(t.variants[i]), o)]
           b == [i \in DOMAIN t.variants |-> SchemaVariant(IrTag(t), IrVariant(t.variants[i]), o)]
           c == [i \in DOMAIN t.variants |-> SerdeVariant(t, t.variants[i], "out")]
<1>1. ASSUME NEW i \in DOMAIN t.variants, NEW k \in DOMAIN t.variants, NEW x,
             Fits(SchemaVariant(IrTag(t), IrVariant(t.variants[k]), o), x),
             \/ Fits(TsVariant(IrTag(t), IrVariant(t.variants[i]), o), x)
             \/ Fits(SerdeVariant(t, t.variants[i], "out"), x)
      PROVE  i = k
  <2> DEFINE v == t.variants[i]
             w == t.variants[k]
  <2>1. VariantIs(v) /\ PlainVariant(t, v) /\ VariantIs(w)
    BY PlainHas
  <2>2. v.ident = w.ident => i = k
    BY NamesApart DEF PlainIn
  <2> HIDE DEF v, w
  <2>3. 0 \notin DOMAIN TsPayload(IrVariant(v), o) /\ 0 \notin DOMAIN SchemaPayload(IrVariant(w), o)
    BY <2>1, NoTagIn
  <2>4. SchemaVariant(IrTag(t), IrVariant(w), o) =
          Object(Tagged(IrTag(t), w.ident, SchemaPayload(IrVariant(w), o)), "any")
    BY DEF SchemaVariant, IrVariant
  <2>5. TsVariant(IrTag(t), IrVariant(v), o) =
          Object(Tagged(IrTag(t), v.ident, TsPayload(IrVariant(v), o)), "any")
    BY DEF TsVariant, IrVariant
  <2>6. /\ SerdeVariant(t, v, "out") =
             Object(Tagged(IrTag(t), v.ident, SerdeBody(v, "out")), KeysTo("out"))
        /\ 0 \notin DOMAIN SerdeBody(v, "out")
    BY <2>1, SerdeVariantIs
  <2>7. Fits(Object(Tagged(IrTag(t), w.ident, SchemaPayload(IrVariant(w), o)), "any"), x)
    BY <1>1, <2>4 DEF w
  <2>8. CASE Fits(TsVariant(IrTag(t), IrVariant(v), o), x)
    <3>1. Fits(Object(Tagged(IrTag(t), v.ident, TsPayload(IrVariant(v), o)), "any"), x)
      BY <2>5, <2>8
    <3>2. v.ident = w.ident
      BY <2>3, <2>7, <3>1, TagsTell
    <3> QED BY <2>2, <3>2
  <2>9. CASE Fits(SerdeVariant(t, v, "out"), x)
    <3>1. Fits(Object(Tagged(IrTag(t), v.ident, SerdeBody(v, "out")), KeysTo("out")), x)
      BY <2>6, <2>9
    <3>2. v.ident = w.ident
      BY <2>3, <2>6, <2>7, <3>1, TagsTell
    <3> QED BY <2>2, <3>2
  <2> QED BY <1>1, <2>8, <2>9 DEF v
<1>2. /\ DOMAIN a = DOMAIN t.variants /\ DOMAIN b = DOMAIN t.variants /\ DOMAIN c = DOMAIN t.variants
      /\ \A i \in DOMAIN t.variants :
            /\ a[i] = TsVariant(IrTag(t), IrVariant(t.variants[i]), o)
            /\ b[i] = SchemaVariant(IrTag(t), IrVariant(t.variants[i]), o)
            /\ c[i] = SerdeVariant(t, t.variants[i], "out")
  OBVIOUS
<1> HIDE DEF a, b, c
<1>3. Alone(a, b)
  BY <1>1, <1>2 DEF Alone
<1>4. Alone(c, b)
  BY <1>1, <1>2 DEF Alone
<1> QED BY <1>3, <1>4 DEF a, b, c

\* A schema of an enum has values only if the enum has variants.
LEMMA EnumSchema ==
    ASSUME Unfolds, NEW t, t.k = "enum", NEW o
    PROVE  LET b == Union([i \in DOMAIN t.variants |->
                              SchemaVariant(IrTag(t), IrVariant(t.variants[i]), o)])
           IN  \/ Schema(t, o) = b
               \/ t.variants = <<>> /\ \A x : ~Fits(Schema(t, o), x)
<1>1. \A x : ~FitsLeaf("never", x)
  BY DEF FitsLeaf
<1>2. \A x : ~Fits(Leaf("never"), x)
  BY <1>1, FitsViews
<1>3. Schema(t, o) = SchemaEnum(t, o)
  BY SchemaReads
<1> QED BY <1>2, <1>3 DEF SchemaEnum

LEMMA TakenEnum ==
    ASSUME Unfolds, NEW t, NEW o, PlainIn(t, o), t.k = "enum",
           \A p \in PartsOf(t) : TakenType(p, o)
    PROVE  TakenType(t, o)
<1> DEFINE a == [i \in DOMAIN t.variants |-> TsVariant(IrTag(t), IrVariant(t.variants[i]), o)]
           b == [i \in DOMAIN t.variants |-> SchemaVariant(IrTag(t), IrVariant(t.variants[i]), o)]
           c == [i \in DOMAIN t.variants |-> SerdeVariant(t, t.variants[i], "in")]
           m == [i \in DOMAIN t.variants |-> McpVariant(IrTag(t), IrVariant(t.variants[i]), o)]
<1>1. ASSUME NEW i \in DOMAIN t.variants
      PROVE  /\ Tame(TsVariant(IrTag(t), IrVariant(t.variants[i]), o),
                     SchemaVariant(IrTag(t), IrVariant(t.variants[i]), o))
             /\ Enters(TsVariant(IrTag(t), IrVariant(t.variants[i]), o),
                       SerdeVariant(t, t.variants[i], "in"))
             /\ Within(McpVariant(IrTag(t), IrVariant(t.variants[i]), o),
                       SerdeVariant(t, t.variants[i], "in"))
  <2> DEFINE v == t.variants[i]
  <2>1. /\ v \in ToSet(t.variants) /\ VariantIs(v) /\ PlainVariant(t, v)
        /\ \A f \in ToSet(v.fields) : SerdeField(f)
    BY PlainHas
  <2>2. TypesIn(v) \subseteq PartsOf(t)
    BY <2>1, PartsAre
  <2>3. Differ(Tagged(IrTag(t), v.ident, TsPayload(IrVariant(v), o)))
    BY NamesApart DEF PlainIn
  <2>4. \A s \in TypesIn(v) : TakenType(s, o)
    BY <2>2
  <2> HIDE DEF v
  <2>5. /\ Tame(TsVariant(IrTag(t), IrVariant(v), o), SchemaVariant(IrTag(t), IrVariant(v), o))
        /\ Enters(TsVariant(IrTag(t), IrVariant(v), o), SerdeVariant(t, v, "in"))
        /\ Within(McpVariant(IrTag(t), IrVariant(v), o), SerdeVariant(t, v, "in"))
    BY <2>1, <2>3, <2>4, VariantTaken
  <2> QED BY <2>5 DEF v
<1>2. \A tag, v : Defined(TsVariant(tag, v, o)) /\ Defined(SchemaVariant(tag, v, o))
  BY ObjectDefined DEF TsVariant, SchemaVariant
<1>3. /\ DOMAIN a = DOMAIN b /\ DOMAIN a = DOMAIN c /\ DOMAIN m = DOMAIN c
      /\ \A i \in DOMAIN a : Defined(a[i]) /\ Tame(a[i], b[i]) /\ Enters(a[i], c[i])
      /\ \A i \in DOMAIN b : Defined(b[i])
      /\ \A i \in DOMAIN m : Within(m[i], c[i])
  BY <1>1, <1>2
<1>4. Alone(a, b)
  BY VariantsAlone
<1>5. TsType(t, o) = Union(a)
  BY TsReads DEF TsEnum
<1>6. Mcp(t, o) = Union(m) /\ Serde(t, "in") = Union(c)
  BY McpReads, SerdeReads
<1>7. Schema(t, o) = Union(b) \/ \A x : ~Fits(Schema(t, o), x)
  BY EnumSchema
<1> HIDE DEF a, b, c, m
<1>8. Defined(Union(a)) /\ Tame(Union(a), Union(b))
  BY <1>3, <1>4, UnionClaims
<1>9. Enters(Union(a), Union(c)) /\ Within(Union(m), Union(c))
  BY <1>3, UnionClaims
<1>10. Defined(Union(b))
  BY <1>3, UnionClaims
<1>11. Tame(Union(a), Schema(t, o)) /\ Defined(Schema(t, o))
  BY <1>7, <1>8, <1>10 DEF Tame, Defined
<1> QED BY <1>5, <1>6, <1>8, <1>9, <1>11 DEF TakenType

\* What tsc, the schema and the manifest admit, serde takes.
LEMMA TakenStep ==
    ASSUME Unfolds, NEW t, NEW o, PlainIn(t, o), \A p \in PartsOf(t) : TakenType(p, o)
    PROVE  TakenType(t, o)
<1>1. CASE t.k = "prim"
  BY <1>1, TakenPrimitive
<1>2. CASE t.k = "option"
  BY <1>2, PartsAre, TakenOption
<1>3. CASE t.k = "vec"
  BY <1>3, PartsAre, TakenVec
<1>4. CASE t.k = "map"
  BY <1>4, PartsAre, TakenMap
<1>5. CASE t.k \in {"tuple", "tupleStruct"}
  BY <1>5, PartsAre, TakenSequence
<1>6. CASE t.k = "array"
  BY <1>6, PartsAre, TakenArray
<1>7. CASE t.k = "struct"
  BY <1>7, TakenStruct
<1>8. CASE t.k = "enum"
  BY <1>8, TakenEnum
<1>9. t.k # "unitStruct"
  BY PlainHas
<1> QED BY <1>1, <1>2, <1>3, <1>4, <1>5, <1>6, <1>7, <1>8, <1>9 DEF Typed, PlainIn

Nested(t, o) == \A s \in SubTypes(t) : PlainPart(s, o) /\ ~IsUnit(s)

LEMMA EveryTypeTaken ==
    ASSUME Unfolds, NEW o, o.bigint \in Bigints
    PROVE  \A t \in TypesTo[Depth] : Apart(t, o) /\ Nested(t, o) => TakenType(t, o)
<1> DEFINE S == {t \in AllTypes : Apart(t, o) /\ Nested(t, o) => TakenType(t, o)}
<1>1. ASSUME NEW t \in AllTypes, Typed(t), PartsOf(t) \subseteq S PROVE t \in S
  <2> SUFFICES ASSUME Apart(t, o), Nested(t, o) PROVE TakenType(t, o)
    OBVIOUS
  <2>1. PlainIn(t, o)
    BY <1>1, SubTypesAre DEF Apart, Nested, PlainIn
  <2>2. \A p \in PartsOf(t) : Apart(p, o) /\ Nested(p, o)
    BY SubTypesAre DEF Apart, Nested
  <2>3. \A p \in PartsOf(t) : TakenType(p, o)
    BY <1>1, <2>2
  <2> QED BY <2>1, <2>3, TakenStep
<1> HIDE DEF S
<1>2. TypesTo[Depth] \subseteq S
  BY <1>1, TypeInduction
<1> QED BY <1>2 DEF S

\* The schema admits what serde writes; so does the generated type.
Admitted(t, o) == Within(Serde(t, "out"), Schema(t, o))
Exact(t, o) == Within(Serde(t, "out"), TsType(t, o))

Loose(t) == \A f \in FieldsOf(t) : IrField(f).constraints = {}
Narrow(t) == t.k = "prim" => t.p \notin Wide

\* What holds of an output whose parts have it.
GivenClaim(t, o) ==
    /\ GivenType(t, o)
    /\ Loose(t) /\ (\A p \in PartsOf(t) : Admitted(p, o)) => Admitted(t, o)
    /\ Narrow(t) /\ (\A p \in PartsOf(t) : Exact(p, o)) => Exact(t, o)

LEMMA GivenPrimitive ==
    ASSUME Unfolds, NEW t, NEW o, PlainIn(t, o), t.k = "prim"
    PROVE  GivenClaim(t, o)
<1>1. PlainPrimitive(t.p, o.bigint) /\ t.p # "unit" /\ o.bigint \in Bigints
  BY PlainHas DEF PlainIn
<1>2. /\ Defined(Leaf(SerdePrimitive(t.p)))
      /\ Returns(Leaf(SerdePrimitive(t.p)))
      /\ Restores(Leaf(SerdePrimitive(t.p)), Leaf(SchemaPrimitive(t.p, o.bigint)))
      /\ Within(Leaf(SerdePrimitive(t.p)), Leaf(SchemaPrimitive(t.p, o.bigint)))
      /\ t.p \notin Wide => Within(Leaf(SerdePrimitive(t.p)), Leaf(TsPrimitive(t.p, o.bigint)))
  BY <1>1, LeafOutput
<1>3. /\ TsType(t, o) = Leaf(TsPrimitive(t.p, o.bigint))
      /\ Schema(t, o) = Leaf(SchemaPrimitive(t.p, o.bigint))
      /\ Serde(t, "out") = Leaf(SerdePrimitive(t.p))
  BY TsReads, SchemaReads, SerdeReads
<1> QED BY <1>2, <1>3 DEF GivenClaim, GivenType, Admitted, Exact, Narrow

LEMMA GivenWrapped ==
    ASSUME Unfolds, NEW t, NEW o, PlainIn(t, o), t.k \in {"option", "vec", "map", "array"},
           GivenType(t.of, o)
    PROVE  GivenClaim(t, o)
<1> DEFINE a == TsType(t.of, o)
           b == Schema(t.of, o)
           c == Serde(t.of, "out")
           Claims(ta, tb, tc) ==
               /\ Defined(tc) /\ Returns(tc) /\ Restores(tc, tb)
               /\ Within(c, b) => Within(tc, tb)
               /\ Within(c, a) => Within(tc, ta)
<1>1. Defined(c) /\ Returns(c) /\ Restores(c, b)
  BY DEF GivenType
<1>2. t.of \in PartsOf(t)
  BY PartsAre
<1>3. Claims(TsType(t, o), Schema(t, o), Serde(t, "out"))
  <2> HIDE DEF a, b, c
  <2>1. CASE t.k = "option"
    <3>1. /\ TsType(t, o) = Nullable(a)
          /\ Schema(t, o) = Nullable(b)
          /\ Serde(t, "out") = Nullable(c)
      BY <2>1, TsReads, SchemaReads, SerdeReads DEF a, b, c
    <3>2. Claims(Nullable(a), Nullable(b), Nullable(c))
      BY <1>1, NullableClaims
    <3> HIDE DEF Claims
    <3> QED BY <3>1, <3>2
  <2>2. CASE t.k = "vec"
    <3>1. /\ TsType(t, o) = ArrayOf(a)
          /\ Schema(t, o) = ArrayOf(b)
          /\ Serde(t, "out") = ArrayOf(c)
      BY <2>2, TsReads, SchemaReads, SerdeReads DEF a, b, c
    <3>2. Claims(ArrayOf(a), ArrayOf(b), ArrayOf(c))
      BY <1>1, ArrayClaims
    <3> HIDE DEF Claims
    <3> QED BY <3>1, <3>2
  <2>3. CASE t.k = "map"
    <3>1. /\ TsType(t, o) = RecordOf(a)
          /\ Schema(t, o) = RecordOf(b)
          /\ Serde(t, "out") = RecordOf(c)
      BY <2>3, PlainHas, TsReads, SchemaReads, SerdeReads DEF a, b, c
    <3>2. Claims(RecordOf(a), RecordOf(b), RecordOf(c))
      BY <1>1, RecordClaims
    <3> HIDE DEF Claims
    <3> QED BY <3>1, <3>2
  <2>4. CASE t.k = "array"
    <3>1. /\ TsType(t, o) = Fixed(Copies(t.len, a))
          /\ Schema(t, o) = Fixed(Copies(t.len, b))
          /\ Serde(t, "out") = Fixed(Copies(t.len, c))
      BY <2>4, PlainHas, TsReads, SchemaReads, SerdeReads DEF a, b, c
    <3>2. t.len \in Nat
      BY <2>4, PlainHas
    <3>3. Claims(Fixed(Copies(t.len, a)), Fixed(Copies(t.len, b)), Fixed(Copies(t.len, c)))
      BY <1>1, <3>2, CopiesClaims
    <3> HIDE DEF Claims
    <3> QED BY <3>1, <3>3
  <2> QED BY <2>1, <2>2, <2>3, <2>4
<1> HIDE DEF a, b, c
<1>4. GivenType(t, o)
  BY <1>3 DEF GivenType
<1>5. ASSUME \A p \in PartsOf(t) : Admitted(p, o) PROVE Admitted(t, o)
  <2>1. Within(c, b)
    BY <1>2, <1>5 DEF Admitted, c, b
  <2> QED BY <1>3, <2>1 DEF Admitted
<1>6. ASSUME \A p \in PartsOf(t) : Exact(p, o) PROVE Exact(t, o)
  <2>1. Within(c, a)
    BY <1>2, <1>6 DEF Exact, c, a
  <2> QED BY <1>3, <2>1 DEF Exact
<1> QED BY <1>4, <1>5, <1>6 DEF GivenClaim

LEMMA GivenSequence ==
    ASSUME Unfolds, NEW t, NEW o, PlainIn(t, o), t.k \in {"tuple", "tupleStruct"},
           \A p \in ToSet(t.elems) : GivenType(p, o)
    PROVE  GivenClaim(t, o)
<1>1. t.elems # <<>> /\ ListOf(t.elems)
  BY PlainHas
<1>2. /\ Len(t.elems) \in Nat /\ DOMAIN t.elems = 1..Len(t.elems) /\ Len(t.elems) >= 1
      /\ \A i \in 1..Len(t.elems) : t.elems[i] \in ToSet(t.elems)
  BY <1>1, ListIs
<1>3. PartsOf(t) = ToSet(t.elems)
  BY PartsAre
<1>4. TsTuple(t.elems, o) = TsFixed(t.elems, o) /\ SchemaTuple(t.elems, o) = SchemaFixed(t.elems, o)
  BY <1>1, TuplesAre
<1>5. ASSUME /\ TsType(t, o) = TsFixed(t.elems, o)
             /\ Schema(t, o) = SchemaFixed(t.elems, o)
             /\ Serde(t, "out") = SerdeTuple(t.elems, "out")
      PROVE  GivenClaim(t, o)
  <2>1. \A i \in 1..Len(t.elems) : GivenType(t.elems[i], o)
    BY <1>2
  <2>2. /\ Defined(SerdeTuple(t.elems, "out")) /\ Returns(SerdeTuple(t.elems, "out"))
        /\ Restores(SerdeTuple(t.elems, "out"), SchemaFixed(t.elems, o))
        /\ (\A i \in 1..Len(t.elems) : Within(Serde(t.elems[i], "out"), Schema(t.elems[i], o)))
             => Within(SerdeTuple(t.elems, "out"), SchemaFixed(t.elems, o))
        /\ (\A i \in 1..Len(t.elems) : Within(Serde(t.elems[i], "out"), TsType(t.elems[i], o)))
             => Within(SerdeTuple(t.elems, "out"), TsFixed(t.elems, o))
    BY <1>2, <2>1, TupleGiven
  <2>3. GivenType(t, o)
    BY <1>5, <2>2 DEF GivenType
  <2>4. ASSUME \A p \in PartsOf(t) : Admitted(p, o) PROVE Admitted(t, o)
    <3>1. \A i \in 1..Len(t.elems) : Within(Serde(t.elems[i], "out"), Schema(t.elems[i], o))
      BY <1>2, <1>3, <2>4 DEF Admitted
    <3> QED BY <1>5, <2>2, <3>1 DEF Admitted
  <2>5. ASSUME \A p \in PartsOf(t) : Exact(p, o) PROVE Exact(t, o)
    <3>1. \A i \in 1..Len(t.elems) : Within(Serde(t.elems[i], "out"), TsType(t.elems[i], o))
      BY <1>2, <1>3, <2>5 DEF Exact
    <3> QED BY <1>5, <2>2, <3>1 DEF Exact
  <2> QED BY <2>3, <2>4, <2>5 DEF GivenClaim
<1>6. CASE t.k = "tuple"
  <2>1. /\ TsType(t, o) = TsFixed(t.elems, o)
        /\ Schema(t, o) = SchemaFixed(t.elems, o)
    BY <1>4, <1>6, TsReads, SchemaReads
  <2>2. Serde(t, "out") = SerdeTuple(t.elems, "out")
    BY <1>6, SerdeReads
  <2> QED BY <1>5, <2>1, <2>2
<1>7. CASE t.k = "tupleStruct" /\ Len(t.elems) # 1
  <2>1. TsType(t, o) = TsFixed(t.elems, o)
    BY <1>4, <1>7, TsReads, TuplesAre
  <2>2. Schema(t, o) = SchemaFixed(t.elems, o)
    BY <1>4, <1>7, SchemaReads
  <2>3. Serde(t, "out") = SerdeTuple(t.elems, "out")
    BY <1>7, SerdeReads DEF SerdeItems
  <2> QED BY <1>5, <2>1, <2>2, <2>3
<1>8. CASE t.k = "tupleStruct" /\ Len(t.elems) = 1
  <2>1. TsType(t, o) = TsType(t.elems[1], o)
    BY <1>8, TsReads, TuplesAre
  <2>2. Schema(t, o) = Schema(t.elems[1], o)
    BY <1>8, SchemaReads
  <2>3. Serde(t, "out") = Serde(t.elems[1], "out")
    BY <1>8, SerdeReads DEF SerdeItems
  <2>4. t.elems[1] \in PartsOf(t)
    BY <1>2, <1>3
  <2> QED BY <1>3, <2>1, <2>2, <2>3, <2>4 DEF GivenClaim, GivenType, Admitted, Exact
<1> QED BY <1>6, <1>7, <1>8

LEMMA GivenStruct ==
    ASSUME Unfolds, NEW t, NEW o, PlainIn(t, o), t.k = "struct",
           \A p \in PartsOf(t) : GivenType(p, o)
    PROVE  GivenClaim(t, o)
<1>1. ListOf(t.fields) /\ \A i \in DOMAIN t.fields : SerdeField(t.fields[i])
  BY PlainHas
<1>2. \A i \in DOMAIN t.fields : t.fields[i] \in ToSet(t.fields) /\ t.fields[i].ty \in PartsOf(t)
  BY <1>1, ListIs, PartsAre
<1>3. \A i \in DOMAIN t.fields : SerdeField(t.fields[i]) /\ GivenType(t.fields[i].ty, o)
  BY <1>1, <1>2
<1> DEFINE a == TsFields(IrFields(t.fields), o)
           b == SchemaFields(IrFields(t.fields), o)
           c == SerdeFields(t.fields, "out")
<1>4. /\ GivenParts(c, b)
      /\ (\A i \in DOMAIN t.fields : /\ IrField(t.fields[i]).constraints = {}
                                     /\ Within(Serde(t.fields[i].ty, "out"),
                                               Schema(t.fields[i].ty, o)))
            => WithinParts(c, b)
      /\ (\A i \in DOMAIN t.fields : Within(Serde(t.fields[i].ty, "out"),
                                            TsType(t.fields[i].ty, o)))
            => WithinParts(c, a)
  BY <1>3, FieldsGiven
<1>5. Differ(a) /\ Aligned(a, b)
  BY NamesApart, FieldsAligned DEF PlainIn
<1>6. TsType(t, o) = Object(a, "any") /\ Schema(t, o) = Object(b, "any")
  BY TsReads, SchemaReads DEF TsStruct, SchemaStruct
<1>7. Serde(t, "out") = Object(c, KeysTo("out"))
  BY SerdeReads
<1>8. KeysTo("out") = "named"
  BY DEF KeysTo
<1> HIDE DEF a, b, c
<1>9. Returns(Object(c, "named")) /\ Restores(Object(c, "named"), Object(b, "any"))
  BY <1>4, <1>5, GivenClaims
<1>10. Defined(Object(c, "named"))
  BY ObjectDefined
<1>11. GivenType(t, o)
  BY <1>6, <1>7, <1>8, <1>9, <1>10 DEF GivenType
<1>12. ASSUME Loose(t), \A p \in PartsOf(t) : Admitted(p, o) PROVE Admitted(t, o)
  <2>1. FieldsOf(t) = ToSet(t.fields)
    BY DEF FieldsOf
  <2>2. \A i \in DOMAIN t.fields : IrField(t.fields[i]).constraints = {}
    BY <1>2, <1>12, <2>1 DEF Loose
  <2>3. WithinParts(c, b)
    BY <1>2, <1>4, <1>12, <2>2 DEF Admitted
  <2>4. Within(Object(c, "named"), Object(b, "any"))
    BY <2>3, WithinClaims
  <2> QED BY <1>6, <1>7, <1>8, <2>4 DEF Admitted
<1>13. ASSUME \A p \in PartsOf(t) : Exact(p, o) PROVE Exact(t, o)
  <2>1. WithinParts(c, a)
    BY <1>2, <1>4, <1>13 DEF Exact
  <2>2. Within(Object(c, "named"), Object(a, "any"))
    BY <2>1, WithinClaims
  <2> QED BY <1>6, <1>7, <1>8, <2>2 DEF Exact
<1> QED BY <1>11, <1>12, <1>13 DEF GivenClaim

LEMMA GivenEnum ==
    ASSUME Unfolds, NEW t, NEW o, PlainIn(t, o), t.k = "enum",
           \A p \in PartsOf(t) : GivenType(p, o)
    PROVE  GivenClaim(t, o)
<1> DEFINE a == [i \in DOMAIN t.variants |-> TsVariant(IrTag(t), IrVariant(t.variants[i]), o)]
           b == [i \in DOMAIN t.variants |-> SchemaVariant(IrTag(t), IrVariant(t.variants[i]), o)]
           c == [i \in DOMAIN t.variants |-> SerdeVariant(t, t.variants[i], "out")]
           Loosely == Loose(t) /\ \A p \in PartsOf(t) : Admitted(p, o)
           Exactly == \A p \in PartsOf(t) : Exact(p, o)
<1>1. ASSUME NEW i \in DOMAIN t.variants
      PROVE  /\ Defined(c[i]) /\ Returns(c[i]) /\ Restores(c[i], b[i])
             /\ Loosely => Within(c[i], b[i])
             /\ Exactly => Within(c[i], a[i])
  <2> DEFINE v == t.variants[i]
             va == TsVariant(IrTag(t), IrVariant(v), o)
             vb == SchemaVariant(IrTag(t), IrVariant(v), o)
             vc == SerdeVariant(t, v, "out")
  <2>1. /\ v \in ToSet(t.variants) /\ VariantIs(v) /\ PlainVariant(t, v)
        /\ \A f \in ToSet(v.fields) : SerdeField(f)
    BY PlainHas
  <2>2. TypesIn(v) \subseteq PartsOf(t)
    BY <2>1, PartsAre
  <2>3. Differ(Tagged(IrTag(t), v.ident, TsPayload(IrVariant(v), o)))
    BY NamesApart DEF PlainIn
  <2>4. \A s \in TypesIn(v) : GivenType(s, o)
    BY <2>2
  <2>5. ToSet(v.fields) \subseteq FieldsOf(t)
    BY <2>1 DEF FieldsOf
  <2>6. c[i] = vc /\ b[i] = vb /\ a[i] = va
    OBVIOUS
  <2> HIDE DEF v, a, b, c
  <2>7. /\ Defined(vc) /\ Returns(vc) /\ Restores(vc, vb)
        /\ (\A s \in TypesIn(v) : Within(Serde(s, "out"), Schema(s, o)))
            /\ (\A f \in ToSet(v.fields) : IrField(f).constraints = {})
             => Within(vc, vb)
        /\ (\A s \in TypesIn(v) : Within(Serde(s, "out"), TsType(s, o))) => Within(vc, va)
    BY <2>1, <2>3, <2>4, VariantGiven
  <2> HIDE DEF va, vb, vc
  <2>8. ASSUME Loosely PROVE Within(vc, vb)
    BY <2>2, <2>5, <2>7, <2>8 DEF Loose, Admitted
  <2>9. ASSUME Exactly PROVE Within(vc, va)
    BY <2>2, <2>7, <2>9 DEF Exact
  <2> QED BY <2>6, <2>7, <2>8, <2>9
<1>2. DOMAIN c = DOMAIN t.variants /\ DOMAIN c = DOMAIN b /\ DOMAIN c = DOMAIN a
  OBVIOUS
<1>3. Alone(c, b)
  BY VariantsAlone
<1>4. TsType(t, o) = Union(a)
  BY TsReads DEF TsEnum
<1>5. Serde(t, "out") = Union(c)
  BY SerdeReads
<1>6. Schema(t, o) = Union(b) \/ (t.variants = <<>> /\ \A x : ~Fits(Schema(t, o), x))
  BY EnumSchema
<1> HIDE DEF a, b, c, Loosely, Exactly
<1>7. Defined(Union(c)) /\ Returns(Union(c)) /\ Restores(Union(c), Union(b))
  BY <1>1, <1>2, <1>3, UnionClaims
<1>8. Loosely => Within(Union(c), Union(b))
  BY <1>1, <1>2, UnionClaims
<1>9. Exactly => Within(Union(c), Union(a))
  BY <1>1, <1>2, UnionClaims
<1>10. t.variants = <<>> => \A x : ~Fits(Union(c), x)
  <2>1. \A x : Fits(Union(c), x) <=> \E i \in DOMAIN c : Fits(c[i], x)
    BY FitsViews
  <2>2. DOMAIN << >> = {}
    OBVIOUS
  <2>3. ASSUME t.variants = << >> PROVE DOMAIN c = {}
    BY <1>2, <2>2, <2>3, Zenon
  <2> QED BY <2>1, <2>3
<1>11. Restores(Union(c), Schema(t, o))
  BY <1>6, <1>7 DEF Restores
<1>12. Loosely => Within(Union(c), Schema(t, o))
  BY <1>6, <1>8, <1>10 DEF Within
<1>13. GivenType(t, o)
  BY <1>5, <1>7, <1>11 DEF GivenType
<1> QED BY <1>4, <1>5, <1>9, <1>12, <1>13 DEF GivenClaim, Admitted, Exact, Loosely, Exactly

\* The client is handed what the procedure returns.
LEMMA GivenStep ==
    ASSUME Unfolds, NEW t, NEW o, PlainIn(t, o), \A p \in PartsOf(t) : GivenType(p, o)
    PROVE  GivenClaim(t, o)
<1>1. CASE t.k = "prim"
  BY <1>1, GivenPrimitive
<1>2. CASE t.k \in {"option", "vec", "map", "array"}
  BY <1>2, PartsAre, GivenWrapped
<1>3. CASE t.k \in {"tuple", "tupleStruct"}
  BY <1>3, PartsAre, GivenSequence
<1>4. CASE t.k = "struct"
  BY <1>4, GivenStruct
<1>5. CASE t.k = "enum"
  BY <1>5, GivenEnum
<1>6. t.k # "unitStruct"
  BY PlainHas
<1> QED BY <1>1, <1>2, <1>3, <1>4, <1>5, <1>6 DEF Typed, PlainIn

LEMMA EveryTypeGiven ==
    ASSUME Unfolds, NEW o, o.bigint \in Bigints
    PROVE  \A t \in TypesTo[Depth] : Apart(t, o) /\ Nested(t, o) =>
              /\ GivenType(t, o)
              /\ Unconstrained(t) => Admitted(t, o)
              /\ ~HasWide(t) => Exact(t, o)
<1> DEFINE Claim(t) == /\ GivenType(t, o)
                       /\ Unconstrained(t) => Admitted(t, o)
                       /\ ~HasWide(t) => Exact(t, o)
           S == {t \in AllTypes : Apart(t, o) /\ Nested(t, o) => Claim(t)}
<1>1. ASSUME NEW t \in AllTypes, Typed(t), PartsOf(t) \subseteq S PROVE t \in S
  <2> SUFFICES ASSUME Apart(t, o), Nested(t, o) PROVE Claim(t)
    OBVIOUS
  <2>1. PlainIn(t, o)
    BY <1>1, SubTypesAre DEF Apart, Nested, PlainIn
  <2>2. \A p \in PartsOf(t) : Apart(p, o) /\ Nested(p, o)
    BY SubTypesAre DEF Apart, Nested
  <2>3. \A p \in PartsOf(t) : Claim(p)
    BY <1>1, <2>2
  <2>4. GivenClaim(t, o)
    BY <2>1, <2>3, GivenStep
  <2>5. ASSUME Unconstrained(t) PROVE Loose(t) /\ \A p \in PartsOf(t) : Unconstrained(p)
    BY <2>5, SubTypesAre DEF Unconstrained, Loose
  <2>6. ASSUME ~HasWide(t) PROVE Narrow(t) /\ \A p \in PartsOf(t) : ~HasWide(p)
    BY <2>6, SubTypesAre DEF HasWide, Narrow
  <2> QED BY <2>3, <2>4, <2>5, <2>6 DEF GivenClaim
<1> HIDE DEF S
<1>2. TypesTo[Depth] \subseteq S
  BY <1>1, TypeInduction
<1> QED BY <1>2 DEF S

-----------------------------------------------------------------------------
(* The types of inputs and outputs.                                        *)

LEMMA UnitReads ==
    ASSUME Unfolds, NEW t, IsUnit(t), NEW o
    PROVE  /\ TsType(t, o) = Leaf("void") /\ Schema(t, o) = Leaf("null")
           /\ Mcp(t, o) = Leaf("null") /\ \A way : Serde(t, way) = Leaf("null")
<1>1. CASE t.k = "unitStruct"
  BY <1>1, TsReads, SchemaReads, McpReads, SerdeReads
<1>2. CASE t.k = "prim" /\ t.p = "unit"
  <2>1. "unit" \notin Wide /\ "unit" \notin Text
    BY LeavesAssumption
  <2>2. /\ TsPrimitive("unit", o.bigint) = "void"
        /\ SchemaPrimitive("unit", o.bigint) = "null"
        /\ McpPrimitive("unit", o.bigint) = "null"
        /\ SerdePrimitive("unit") = "null"
    BY <2>1 DEF TsPrimitive, SchemaPrimitive, McpPrimitive, SerdePrimitive
  <2> QED BY <1>2, <2>2, TsReads, SchemaReads, McpReads, SerdeReads
<1> QED BY <1>1, <1>2 DEF IsUnit

LEMMA UnitValues ==
    ASSUME Unfolds, NEW x
    PROVE  /\ Fits(Leaf("null"), x) <=> x = Null
           /\ Fits(Leaf("void"), x) <=> x = Null \/ x = Undef
           /\ Through(Leaf("null"), Null) = Null
<1>1. /\ Fits(Leaf("null"), x) <=> x \in LeafValues /\ FitsLeaf("null", x)
      /\ Fits(Leaf("void"), x) <=> x \in LeafValues /\ FitsLeaf("void", x)
  BY FitsViews
<1>2. /\ FitsLeaf("null", x) <=> x.j = "null"
      /\ FitsLeaf("void", x) <=> x.j \in {"undef", "null"}
  BY DEF FitsLeaf
<1>3. /\ x \in LeafValues /\ x.j = "null" <=> x = Null
      /\ x \in LeafValues /\ x.j = "undef" <=> x = Undef
  BY DEF LeafValues, Null, Undef, NaN
<1>4. Through(Leaf("null"), Null) = ThroughLeaf("null", Null)
  BY ThroughViews
<1>5. ThroughLeaf("null", Null) = Null
  BY DEF ThroughLeaf
<1> QED BY <1>1, <1>2, <1>3, <1>4, <1>5

LEMMA PlainIsNested ==
    ASSUME Unfolds, NEW t, NEW o, PlainType(t, o)
    PROVE  IsUnit(t) \/ Nested(t, o)
BY DEF PlainType, Nested

\* What the client may be handed, and what it does with it, of a plain input.
LEMMA InputArrives ==
    ASSUME Unfolds, NEW o, o.bigint \in Bigints, NEW t \in TypesTo[Depth], Apart(t, o),
           PlainType(t, o), NEW x, Ordinary(x), Fits(TsType(t, o), x)
    PROVE  /\ Fits(Serde(t, "in"), Json(Passed(x)))
           /\ Fits(Schema(t, o), Passed(x)) =>
                 Fits(Serde(t, "in"), Json(Through(Schema(t, o), Passed(x))))
<1>1. CASE IsUnit(t)
  <2>1. TsType(t, o) = Leaf("void") /\ Schema(t, o) = Leaf("null") /\ Serde(t, "in") = Leaf("null")
    BY <1>1, UnitReads
  <2>2. Passed(x) = Null
    BY <2>1, UnitValues DEF Passed
  <2>3. Json(Null) = Null
    BY NullIs
  <2> QED BY <2>1, <2>2, <2>3, UnitValues
<1>2. CASE Nested(t, o)
  <2>1. TakenType(t, o)
    BY <1>2, EveryTypeTaken
  <2>2. /\ Defined(TsType(t, o)) /\ Tame(TsType(t, o), Schema(t, o))
        /\ Enters(TsType(t, o), Serde(t, "in"))
    BY <2>1 DEF TakenType
  <2>3. Passed(x) = x
    <3>1. x.j # "undef"
      BY <2>2 DEF Defined
    <3>2. x # Undef
      BY <3>1 DEF Undef
    <3> QED BY <3>2 DEF Passed
  <2>4. Fits(Serde(t, "in"), Json(x))
    BY <2>2 DEF Enters
  <2>5. ASSUME Fits(Schema(t, o), x) PROVE Fits(Serde(t, "in"), Json(Through(Schema(t, o), x)))
    <3>1. Sound(TsType(t, o), Schema(t, o))
      BY EveryTypeSound DEF SoundType
    <3>2. Fits(TsType(t, o), Through(Schema(t, o), x))
      BY <2>5, <3>1 DEF Sound
    <3>3. Ordinary(Through(Schema(t, o), x))
      BY <2>2, <2>5 DEF Tame
    <3> QED BY <2>2, <3>2, <3>3 DEF Enters
  <2> QED BY <2>3, <2>4, <2>5
<1> QED BY <1>1, <1>2, PlainIsNested

LEMMA ArgumentsArrive ==
    ASSUME Unfolds, NEW o, o.bigint \in Bigints, NEW t \in TypesTo[Depth], Apart(t, o),
           PlainType(t, o), NEW x, Ordinary(x), Fits(Mcp(t, o), x)
    PROVE  Fits(Serde(t, "in"), x)
<1>1. CASE IsUnit(t)
  BY <1>1, UnitReads
<1>2. CASE Nested(t, o)
  <2>1. TakenType(t, o)
    BY <1>2, EveryTypeTaken
  <2> QED BY <2>1 DEF TakenType, Within
<1> QED BY <1>1, <1>2, PlainIsNested

LEMMA OutputArrives ==
    ASSUME Unfolds, NEW o, o.bigint \in Bigints, NEW t \in TypesTo[Depth], Apart(t, o),
           PlainType(t, o), NEW y, Ordinary(y), Fits(Serde(t, "out"), y)
    PROVE  /\ Parsed(y) = y /\ Json(y) = y
           /\ Fits(Schema(t, o), y) => Json(Through(Schema(t, o), y)) = y
           /\ Unconstrained(t) => Fits(Schema(t, o), y)
           /\ ~HasWide(t) => Fits(TsType(t, o), y)
<1>1. CASE IsUnit(t)
  <2>1. /\ TsType(t, o) = Leaf("void") /\ Schema(t, o) = Leaf("null")
        /\ Serde(t, "out") = Leaf("null")
    BY <1>1, UnitReads
  <2>2. y = Null
    BY <2>1, UnitValues
  <2>3. Json(Null) = Null /\ Parsed(Null) = Null
    BY NullIs
  <2> QED BY <2>1, <2>2, <2>3, UnitValues
<1>2. CASE Nested(t, o)
  <2>1. /\ GivenType(t, o)
        /\ Unconstrained(t) => Admitted(t, o)
        /\ ~HasWide(t) => Exact(t, o)
    BY <1>2, EveryTypeGiven
  <2>2. Parsed(y) = y /\ Json(y) = y
    BY <2>1 DEF GivenType, Returns
  <2>3. Fits(Schema(t, o), y) => Json(Through(Schema(t, o), y)) = y
    BY <2>1 DEF GivenType, Restores
  <2>4. Unconstrained(t) => Fits(Schema(t, o), y)
    BY <2>1 DEF Admitted, Within
  <2>5. ~HasWide(t) => Fits(TsType(t, o), y)
    BY <2>1 DEF Exact, Within
  <2> QED BY <2>2, <2>3, <2>4, <2>5
<1> QED BY <1>1, <1>2, PlainIsNested

-----------------------------------------------------------------------------
(* The invariant.                                                          *)

Carries == UNCHANGED <<proc, opts>>

LEMMA Stays ==
    ASSUME Carries
    PROVE  /\ Input' = Input /\ Output' = Output /\ Error' = Error /\ opts' = opts /\ proc' = proc
           /\ Compiles' <=> Compiles
           /\ \A t, x : (Parse(t, x)' = Parse(t, x)) /\ (Refuses(t, x)' <=> Refuses(t, x))
<1>1. proc' = proc /\ opts' = opts
  BY DEF Carries
<1>2. Input' = Input /\ Output' = Output /\ Error' = Error
  BY <1>1 DEF Input, Output, Error
<1>3. Compiles' <=> Compiles
  BY <1>1, <1>2 DEF Compiles
<1>4. Validating' <=> Validating
  BY <1>1 DEF Validating
<1>5. \A t, x : (Parse(t, x)' = Parse(t, x)) /\ (Refuses(t, x)' <=> Refuses(t, x))
  BY <1>1, <1>4 DEF Parse, Refuses
<1> QED BY <1>1, <1>2, <1>3, <1>5

LEMMA InitInv ==
    ASSUME Init
    PROVE  IInv
BY DEF Init, IInv, InputInv, ArrivalInv, ReturnInv

\* What a step to another phase has to show.
LEMMA BuildInv ==
    ASSUME IInv, Build
    PROVE  IInv'
<1>1. Carries
  BY DEF Build, Goes, Carries
<1>2. phase' \in {"built", "refused"} /\ (phase' = "built" => Compiles)
  BY DEF Build, Goes
<1>3. InputInv' /\ ArrivalInv' /\ ReturnInv'
  BY <1>2 DEF InputInv, ArrivalInv, ReturnInv
<1> QED BY <1>1, <1>2, <1>3, Stays DEF IInv

LEMMA CallInv ==
    ASSUME IInv, NEW x, Call(x)
    PROVE  IInv'
<1>1. Carries
  BY DEF Call, Goes, Carries
<1>2. /\ phase = "built" /\ phase' = "called" /\ caller' = "client" /\ given' = x
      /\ value' = Passed(x) /\ Fits(TsType(Input, opts), x)
  BY DEF Call, Goes
<1>3. InputInv'
  BY <1>1, <1>2, Stays DEF InputInv
<1>4. ArrivalInv' /\ ReturnInv'
  BY <1>2 DEF ArrivalInv, ReturnInv
<1>5. Compiles
  BY <1>2 DEF IInv
<1> QED BY <1>1, <1>3, <1>4, <1>5, Stays DEF IInv

LEMMA CheckInputInv ==
    ASSUME IInv, CheckInput
    PROVE  IInv'
<1>1. Carries
  BY DEF CheckInput, Goes, Carries
<1>2. /\ phase = "called" /\ caller' = caller /\ given' = given
      /\ IF Refuses(Input, value)
         THEN phase' = "refusedByClient" /\ value' = Refusal(Issues(Schema(Input, opts), value))
         ELSE phase' = "checked" /\ value' = Parse(Input, value)
  BY DEF CheckInput, Goes, Refuses, Parse
<1>3. /\ caller = "client" /\ Fits(TsType(Input, opts), given) /\ value = Passed(given)
      /\ Compiles
  BY <1>2 DEF IInv, InputInv, ArrivalInv
<1>4. InputInv'
  BY <1>1, <1>2, <1>3, Stays DEF InputInv
<1>5. ArrivalInv' /\ ReturnInv'
  BY <1>1, <1>2, <1>3, Stays DEF ArrivalInv, ReturnInv
<1> QED BY <1>1, <1>3, <1>4, <1>5, Stays DEF IInv

LEMMA SendInv ==
    ASSUME IInv, Send
    PROVE  IInv'
<1>1. Carries
  BY DEF Send, Goes, Carries
<1>2. /\ phase = "checked" /\ phase' = "sent" /\ caller' = caller /\ given' = given
      /\ value' = Json(value)
  BY DEF Send, Goes
<1>3. /\ caller = "client" /\ Fits(TsType(Input, opts), given)
      /\ value = Parse(Input, Passed(given)) /\ ~Refuses(Input, Passed(given))
      /\ Compiles
  BY <1>2 DEF IInv, InputInv, ArrivalInv
<1>4. InputInv'
  BY <1>1, <1>2, <1>3, Stays DEF InputInv
<1>5. Sent' = Json(Parse(Input, Passed(given)))
  BY <1>1, <1>2, <1>3, Stays DEF Sent
<1>6. ArrivalInv' /\ ReturnInv'
  BY <1>2, <1>3, <1>5 DEF ArrivalInv, ReturnInv
<1> QED BY <1>1, <1>3, <1>4, <1>6, Stays DEF IInv

LEMMA AgentCallsInv ==
    ASSUME IInv, NEW x, AgentCalls(x)
    PROVE  IInv'
<1>1. Carries
  BY DEF AgentCalls, Goes, Carries
<1>2. /\ phase = "built" /\ phase' = "sent" /\ caller' = "agent" /\ given' = x
      /\ value' = x /\ Fits(Mcp(Input, opts), x)
  BY DEF AgentCalls, Goes
<1>3. InputInv'
  BY <1>1, <1>2, Stays DEF InputInv
<1>4. ArrivalInv' /\ ReturnInv'
  BY <1>2 DEF ArrivalInv, ReturnInv, Sent
<1>5. Compiles
  BY <1>2 DEF IInv
<1> QED BY <1>1, <1>3, <1>4, <1>5, Stays DEF IInv

LEMMA DecodeInv ==
    ASSUME IInv, Decode
    PROVE  IInv'
<1>1. Carries
  BY DEF Decode, Goes, Carries
<1>2. /\ phase = "sent" /\ caller' = caller /\ given' = given /\ value' = value
      /\ phase' = IF Fits(Serde(Input, "in"), value) THEN "decoded" ELSE "decodeError"
  BY DEF Decode, Goes
<1>3. /\ IF caller = "agent" THEN Fits(Mcp(Input, opts), given)
         ELSE Fits(TsType(Input, opts), given)
      /\ caller = "agent" \/ ~Refuses(Input, Passed(given))
      /\ value = Sent /\ Compiles
  BY <1>2 DEF IInv, InputInv, ArrivalInv
<1>4. InputInv'
  BY <1>1, <1>2, <1>3, Stays DEF InputInv
<1>5. Sent' = Sent
  BY <1>1, <1>2, Stays DEF Sent
<1>6. ArrivalInv' /\ ReturnInv'
  BY <1>1, <1>2, <1>3, <1>5, Stays DEF ArrivalInv, ReturnInv
<1> QED BY <1>1, <1>3, <1>4, <1>6, Stays DEF IInv

LEMMA ValidateInv ==
    ASSUME IInv, Validate
    PROVE  IInv'
<1>1. Carries
  BY DEF Validate, Goes, Carries
<1>2. /\ phase = "decoded" /\ caller' = caller /\ given' = given
      /\ phase' = IF Errors(Input, value) = {} THEN "running" ELSE "validationError"
  BY DEF Validate, Goes
<1>3. /\ IF caller = "agent" THEN Fits(Mcp(Input, opts), given)
         ELSE Fits(TsType(Input, opts), given)
      /\ caller = "agent" \/ ~Refuses(Input, Passed(given))
      /\ value = Sent /\ Fits(Serde(Input, "in"), Sent) /\ Compiles
  BY <1>2 DEF IInv, InputInv, ArrivalInv
<1>4. InputInv'
  BY <1>1, <1>2, <1>3, Stays DEF InputInv
<1>5. Sent' = Sent
  BY <1>1, <1>2, Stays DEF Sent
<1>6. ArrivalInv' /\ ReturnInv'
  BY <1>1, <1>2, <1>3, <1>5, Stays DEF ArrivalInv, ReturnInv
<1> QED BY <1>1, <1>3, <1>4, <1>6, Stays DEF IInv

LEMMA RunningInv ==
    ASSUME IInv, phase = "running", Carries
    PROVE  /\ Compiles'
           /\ phase' \in {"returned", "failed"} => InputInv' /\ ArrivalInv'
<1>1. Compiles'
  BY Stays DEF IInv
<1>2. phase' \in {"returned", "failed"} => InputInv' /\ ArrivalInv'
  BY DEF InputInv, ArrivalInv
<1> QED BY <1>1, <1>2

LEMMA ReturnedInv ==
    ASSUME IInv, NEW y, Return(y)
    PROVE  IInv'
<1>1. Carries
  BY DEF Return, Goes, Carries
<1>2. /\ phase = "running" /\ phase' = "returned" /\ given' = y
      /\ value' = Parsed(y) /\ Fits(Serde(Output, "out"), y)
  BY DEF Return, Goes
<1>3. ReturnInv'
  BY <1>1, <1>2, Stays DEF ReturnInv
<1> QED BY <1>1, <1>2, <1>3, Stays, RunningInv DEF IInv

LEMMA FailedInv ==
    ASSUME Unfolds, IInv, NEW i \in DOMAIN Error.variants, NEW y, Fail(Error.variants[i], y)
    PROVE  IInv'
<1>1. Carries
  BY DEF Fail, Goes, Carries
<1>2. /\ phase = "running" /\ phase' = "failed" /\ given' = y
      /\ value'.o.payload = Parsed(y)
      /\ Fits(SerdeVariant(Error, Error.variants[i], "out"), y)
  BY DEF Fail, Goes, Obj
<1>3. Error.k = "enum"
  BY <1>2 DEF IInv, Compiles, ErrorExpands
<1> DEFINE ws == [n \in DOMAIN Error.variants |-> SerdeVariant(Error, Error.variants[n], "out")]
<1>4. Serde(Error, "out") = Union(ws)
  BY <1>3, SerdeReads
<1>5. Fits(ws[i], y) /\ i \in DOMAIN ws
  BY <1>2
<1> HIDE DEF ws
<1>6. Fits(Serde(Error, "out"), y)
  BY <1>4, <1>5, FitsViews
<1>7. ReturnInv'
  BY <1>1, <1>2, <1>6, Stays DEF ReturnInv
<1> QED BY <1>1, <1>2, <1>7, Stays, RunningInv DEF IInv

LEMMA CheckOutputInv ==
    ASSUME IInv, CheckOutput
    PROVE  IInv'
<1>1. Carries
  BY DEF CheckOutput, Goes, Carries
<1>2. /\ phase = "returned" /\ given' = given
      /\ IF Refuses(Output, value) THEN phase' = "outputRefused"
         ELSE phase' = "done" /\ value' = Parse(Output, value)
  BY DEF CheckOutput, Goes, Refuses, Parse
<1>3. Fits(Serde(Output, "out"), given) /\ value = Parsed(given) /\ Compiles
  BY <1>2 DEF IInv, ReturnInv
<1>4. ReturnInv'
  BY <1>1, <1>2, <1>3, Stays DEF ReturnInv
<1>5. InputInv' /\ ArrivalInv'
  BY <1>2 DEF InputInv, ArrivalInv
<1> QED BY <1>1, <1>3, <1>4, <1>5, Stays DEF IInv

LEMMA StutterInv ==
    ASSUME IInv, UNCHANGED vars
    PROVE  IInv'
<1>1. Carries /\ phase' = phase /\ caller' = caller /\ given' = given /\ value' = value
  BY DEF Carries, vars
<1>2. Sent' = Sent
  BY <1>1, Stays DEF Sent
<1>3. InputInv'
  BY <1>1, Stays DEF IInv, InputInv
<1>4. ArrivalInv'
  BY <1>1, <1>2, Stays DEF IInv, ArrivalInv
<1>5. ReturnInv'
  BY <1>1, Stays DEF IInv, ReturnInv
<1> QED BY <1>1, <1>3, <1>4, <1>5, Stays DEF IInv

\* At every moment the value at hand is what the steps have made of the given
\* one, and only what compiles is called.
THEOREM Invariance ==
    ASSUME Unfolds
    PROVE  Spec => []IInv
<1>1. Init => IInv
  BY InitInv
<1>2. ASSUME IInv, [Next]_vars PROVE IInv'
  <2>1. CASE Build
    BY <1>2, <2>1, BuildInv
  <2>2. ASSUME NEW x \in Tried(TsType(Input, opts)), Call(x) PROVE IInv'
    BY <1>2, <2>2, CallInv
  <2>3. ASSUME NEW x \in Tried(Mcp(Input, opts)), AgentCalls(x) PROVE IInv'
    BY <1>2, <2>3, AgentCallsInv
  <2>4. CASE CheckInput
    BY <1>2, <2>4, CheckInputInv
  <2>5. CASE Send
    BY <1>2, <2>5, SendInv
  <2>6. CASE Decode
    BY <1>2, <2>6, DecodeInv
  <2>7. CASE Validate
    BY <1>2, <2>7, ValidateInv
  <2>8. ASSUME NEW y \in Tried(Serde(Output, "out")), Return(y) PROVE IInv'
    BY <1>2, <2>8, ReturnedInv
  <2>9. ASSUME NEW i \in DOMAIN Error.variants,
               NEW y \in Tried(SerdeVariant(Error, Error.variants[i], "out")),
               Fail(Error.variants[i], y)
        PROVE  IInv'
    BY <1>2, <2>9, FailedInv
  <2>10. CASE CheckOutput
    BY <1>2, <2>10, CheckOutputInv
  <2>11. CASE UNCHANGED vars
    BY <1>2, <2>11, StutterInv
  <2> QED
    BY <1>2, <2>1, <2>2, <2>3, <2>4, <2>5, <2>6, <2>7, <2>8, <2>9, <2>10, <2>11 DEF Next
<1> QED BY <1>1, <1>2, PTL DEF Spec

-----------------------------------------------------------------------------
(* What arrives.                                                           *)

LEMMA SettingsAre ==
    ASSUME IInv
    PROVE  /\ opts.bigint \in Bigints
           /\ {Input, Output, Error} \subseteq TypesTo[Depth]
           /\ phase \notin {"declared", "refused"} =>
                 Apart(Input, opts) /\ Apart(Output, opts) /\ Apart(Error, opts)
<1>1. opts \in Options /\ proc \in DOMAIN Procedures
  BY DEF IInv
<1>2. phase \notin {"declared", "refused"} => Compiles
  BY DEF IInv
<1>3. Compiles => Apart(Input, opts) /\ Apart(Output, opts) /\ Apart(Error, opts)
  BY DEF Compiles, Apart
<1>4. opts.bigint \in Bigints
  BY <1>1, WireAssumption DEF Bigints
<1>5. {Input, Output, Error} \subseteq TypesTo[Depth]
  BY <1>1, WireAssumption DEF Input, Output, Error
<1> QED BY <1>2, <1>3, <1>4, <1>5

LEMMA InputsDecode ==
    ASSUME Unfolds, IInv, phase = "decodeError", PlainType(Input, opts), Ordinary(given)
    PROVE  FALSE
<1>1. /\ opts.bigint \in Bigints /\ Input \in TypesTo[Depth] /\ Apart(Input, opts)
  BY SettingsAre
<1>2. /\ IF caller = "agent" THEN Fits(Mcp(Input, opts), given)
         ELSE Fits(TsType(Input, opts), given)
      /\ caller = "agent" \/ ~Refuses(Input, Passed(given))
      /\ ~Fits(Serde(Input, "in"), Sent)
  BY DEF IInv, InputInv, ArrivalInv
<1>3. CASE caller = "agent"
  <2>1. Fits(Serde(Input, "in"), given)
    BY <1>1, <1>2, <1>3, ArgumentsArrive
  <2> QED BY <1>2, <1>3, <2>1 DEF Sent
<1>4. CASE caller # "agent"
  <2>1. /\ Fits(Serde(Input, "in"), Json(Passed(given)))
        /\ Fits(Schema(Input, opts), Passed(given)) =>
              Fits(Serde(Input, "in"), Json(Through(Schema(Input, opts), Passed(given))))
    BY <1>1, <1>2, <1>4, InputArrives
  <2>2. Validating => Fits(Schema(Input, opts), Passed(given))
    BY <1>2, <1>4 DEF Refuses
  <2>3. Sent = IF Validating THEN Json(Through(Schema(Input, opts), Passed(given)))
               ELSE Json(Passed(given))
    BY <1>4 DEF Sent, Parse
  <2> QED BY <1>2, <2>1, <2>2, <2>3
<1> QED BY <1>3, <1>4

LEMMA OutputsPass ==
    ASSUME Unfolds, IInv, phase = "outputRefused", PlainType(Output, opts), Unconstrained(Output),
           Ordinary(given)
    PROVE  FALSE
<1>1. /\ opts.bigint \in Bigints /\ Output \in TypesTo[Depth] /\ Apart(Output, opts)
  BY SettingsAre
<1>2. Fits(Serde(Output, "out"), given) /\ ~Fits(Schema(Output, opts), Parsed(given))
  BY DEF IInv, ReturnInv, Refuses
<1>3. Parsed(given) = given /\ Fits(Schema(Output, opts), given)
  BY <1>1, <1>2, OutputArrives
<1> QED BY <1>2, <1>3

LEMMA OutputsArrive ==
    ASSUME Unfolds, IInv, phase = "done"
    PROVE  /\ Validating => Fits(TsType(Output, opts), value)
           /\ PlainType(Output, opts) /\ Ordinary(given) =>
                 /\ Json(value) = given
                 /\ Validating \/ HasWide(Output) \/ Fits(TsType(Output, opts), value)
<1>1. /\ opts.bigint \in Bigints /\ Output \in TypesTo[Depth] /\ Apart(Output, opts)
  BY SettingsAre
<1>2. /\ Fits(Serde(Output, "out"), given)
      /\ Validating => Fits(Schema(Output, opts), Parsed(given))
      /\ value = IF Validating THEN Through(Schema(Output, opts), Parsed(given)) ELSE Parsed(given)
  BY DEF IInv, ReturnInv, Refuses, Parse
<1>3. Sound(TsType(Output, opts), Schema(Output, opts))
  BY <1>1, EveryTypeSound DEF SoundType
<1>4. Validating => Fits(TsType(Output, opts), value)
  BY <1>2, <1>3 DEF Sound
<1>5. ASSUME PlainType(Output, opts), Ordinary(given)
      PROVE  /\ Json(value) = given
             /\ Validating \/ HasWide(Output) \/ Fits(TsType(Output, opts), value)
  <2>1. /\ Parsed(given) = given /\ Json(given) = given
        /\ Fits(Schema(Output, opts), given) => Json(Through(Schema(Output, opts), given)) = given
        /\ ~HasWide(Output) => Fits(TsType(Output, opts), given)
    BY <1>1, <1>2, <1>5, OutputArrives
  <2> QED BY <1>2, <2>1
<1> QED BY <1>4, <1>5

LEMMA ErrorsArrive ==
    ASSUME Unfolds, IInv, phase = "failed", PlainType(Error, opts), Ordinary(given)
    PROVE  /\ value.o.payload = given
           /\ HasWide(Error) \/ Fits(TsType(Error, opts), given)
<1>1. /\ opts.bigint \in Bigints /\ Error \in TypesTo[Depth] /\ Apart(Error, opts)
  BY SettingsAre
<1>2. Fits(Serde(Error, "out"), given) /\ value.o.payload = Parsed(given)
  BY DEF IInv, ReturnInv
<1>3. Parsed(given) = given /\ (~HasWide(Error) => Fits(TsType(Error, opts), given))
  BY <1>1, <1>2, OutputArrives
<1> QED BY <1>2, <1>3

\* Values of plain types get through a call, of every type, nested however
\* deep: the server decodes what tsc, the schema and the manifest let through, and
\* the client is handed what the procedure returned (type_map.rs, codegen.rs,
\* mcp.rs, derive_type.rs).
THEOREM ValuesArrive ==
    ASSUME Unfolds
    PROVE  Spec => []PlainValuesArrive
<1>1. ASSUME IInv PROVE PlainValuesArrive
  BY <1>1, InputsDecode, OutputsPass, OutputsArrive, ErrorsArrive DEF PlainValuesArrive
<1> QED BY <1>1, Invariance, PTL

-----------------------------------------------------------------------------
(* The checks of the client and of the server.                             *)

UnderKey(key, issues) == {<<key>> \o at : at \in issues}

\* The issues of one view.
OneIssue(w, x) == IF Fits(w, x) THEN {} ELSE {<<>>}

LEMMA IssuesViews ==
    ASSUME Unfolds, NEW x
    PROVE  /\ \A name : Issues(Leaf(name), x) = OneIssue(Leaf(name), x)
           /\ \A name : Issues(Literal(name), x) = OneIssue(Literal(name), x)
           /\ \A w : Issues(Nullable(w), x) = IF x = Null THEN {} ELSE Issues(w, x)
           /\ \A w, cs : Issues(w, x) = {} =>
                            Issues(Checked(w, cs), x) = OneIssue(Checked(w, cs), x)
           /\ \A w : x.j = "arr" => Issues(ArrayOf(w), x) =
                 UNION {UnderKey(i, Issues(w, x.a[i])) : i \in DOMAIN x.a}
           /\ \A ws : x.j = "arr" /\ Len(x.a) = Len(ws) => Issues(Fixed(ws), x) =
                 UNION {UnderKey(i, Issues(ws[i], x.a[i])) : i \in DOMAIN x.a}
           /\ \A w : x.j = "obj" => Issues(RecordOf(w), x) =
                 UNION {UnderKey(m, Issues(w, x.o[m])) : m \in DOMAIN x.o}
<1>1. \A u : Issues(u, x) = IssuesOf(u, x)
  BY DEF Unfolds
<1>2. ASSUME NEW u
      PROVE  /\ u.v \in {"leaf", "literal"} => IssuesOf(u, x) = OneIssue(u, x)
             /\ u.v = "nullable" => IssuesOf(u, x) = IF x = Null THEN {} ELSE Issues(u.of, x)
             /\ u.v = "checked" /\ Issues(u.of, x) = {} => IssuesOf(u, x) = OneIssue(u, x)
             /\ u.v = "array" /\ x.j = "arr" => IssuesOf(u, x) =
                   UNION {UnderKey(i, Issues(u.of, x.a[i])) : i \in DOMAIN x.a}
             /\ u.v = "tuple" /\ x.j = "arr" /\ Len(x.a) = Len(u.items) => IssuesOf(u, x) =
                   UNION {UnderKey(i, Issues(u.items[i], x.a[i])) : i \in DOMAIN x.a}
             /\ u.v = "record" /\ x.j = "obj" => IssuesOf(u, x) =
                   UNION {UnderKey(m, Issues(u.of, x.o[m])) : m \in DOMAIN x.o}
  BY DEF IssuesOf, UnderKey, OneIssue
<1>3. ASSUME NEW name
      PROVE  /\ Issues(Leaf(name), x) = OneIssue(Leaf(name), x)
             /\ Issues(Literal(name), x) = OneIssue(Literal(name), x)
  BY <1>1, <1>2 DEF Leaf, Literal
<1>4. ASSUME NEW w
      PROVE  Issues(Nullable(w), x) = IF x = Null THEN {} ELSE Issues(w, x)
  BY <1>1, <1>2 DEF Nullable
<1>5. ASSUME NEW w, NEW cs, Issues(w, x) = {}
      PROVE  Issues(Checked(w, cs), x) = OneIssue(Checked(w, cs), x)
  BY <1>1, <1>2, <1>5 DEF Checked
<1>6. ASSUME NEW w, x.j = "arr"
      PROVE  Issues(ArrayOf(w), x) = UNION {UnderKey(i, Issues(w, x.a[i])) : i \in DOMAIN x.a}
  BY <1>1, <1>2, <1>6 DEF ArrayOf
<1>7. ASSUME NEW ws, x.j = "arr", Len(x.a) = Len(ws)
      PROVE  Issues(Fixed(ws), x) = UNION {UnderKey(i, Issues(ws[i], x.a[i])) : i \in DOMAIN x.a}
  BY <1>1, <1>2, <1>7 DEF Fixed
<1>8. ASSUME NEW w, x.j = "obj"
      PROVE  Issues(RecordOf(w), x) = UNION {UnderKey(m, Issues(w, x.o[m])) : m \in DOMAIN x.o}
  BY <1>1, <1>2, <1>8 DEF RecordOf
<1> QED BY <1>3, <1>4, <1>5, <1>6, <1>7, <1>8, Zenon

\* Of an object whose keys are there, and a union one of whose tags is.
LEMMA IssuesObject ==
    ASSUME Unfolds, NEW x, x.j = "obj"
    PROVE  /\ \A ws, keys : (\A i \in DOMAIN ws : ws[i].name \in DOMAIN x.o) =>
                 Issues(Object(ws, keys), x) =
                    UNION {UnderKey(ws[i].name, Issues(ws[i].view, x.o[ws[i].name]))
                           : i \in DOMAIN ws}
           /\ \A ws : (\E i \in DOMAIN ws : IsTagged(ws[i], x)) =>
                 \E i \in DOMAIN ws : IsTagged(ws[i], x) /\ Issues(Union(ws), x) = Issues(ws[i], x)
<1>1. \A u : Issues(u, x) = IssuesOf(u, x)
  BY DEF Unfolds
<1>2. ASSUME NEW u, u.v = "object", \A i \in DOMAIN u.parts : u.parts[i].name \in DOMAIN x.o
      PROVE  IssuesOf(u, x) =
                UNION {UnderKey(u.parts[i].name, Issues(u.parts[i].view, x.o[u.parts[i].name]))
                       : i \in DOMAIN u.parts}
  BY <1>2 DEF IssuesOf, UnderKey
<1>3. ASSUME NEW u, u.v = "union", \E i \in DOMAIN u.items : IsTagged(u.items[i], x)
      PROVE  IssuesOf(u, x) =
                Issues(u.items[CHOOSE i \in DOMAIN u.items : IsTagged(u.items[i], x)], x)
  BY <1>3 DEF IssuesOf
<1>4. ASSUME NEW ws, NEW keys, \A i \in DOMAIN ws : ws[i].name \in DOMAIN x.o
      PROVE  Issues(Object(ws, keys), x) =
                UNION {UnderKey(ws[i].name, Issues(ws[i].view, x.o[ws[i].name])) : i \in DOMAIN ws}
  BY <1>1, <1>2, <1>4 DEF Object
<1>5. ASSUME NEW ws, \E i \in DOMAIN ws : IsTagged(ws[i], x)
      PROVE  \E i \in DOMAIN ws : IsTagged(ws[i], x) /\ Issues(Union(ws), x) = Issues(ws[i], x)
  <2> DEFINE k == CHOOSE i \in DOMAIN ws : IsTagged(ws[i], x)
  <2>1. k \in DOMAIN ws /\ IsTagged(ws[k], x)
    BY <1>5
  <2>2. Issues(Union(ws), x) = Issues(ws[k], x)
    BY <1>1, <1>3, <1>5 DEF Union
  <2> QED BY <2>1, <2>2
<1> QED BY <1>4, <1>5

LEMMA ErrorsAre ==
    ASSUME Unfolds, NEW t, NEW x
    PROVE  /\ t.k \in {"prim", "array", "tupleStruct", "unitStruct"} => Errors(t, x) = {}
           /\ t.k = "option" => Errors(t, x) = IF x = Null THEN {} ELSE Errors(t.of, x)
           /\ t.k = "vec" => Errors(t, x) = UNION {At(i, Errors(t.of, x.a[i])) : i \in DOMAIN x.a}
           /\ t.k = "map" => Errors(t, x) = UNION {Errors(t.of, x.o[m]) : m \in DOMAIN x.o}
           /\ t.k = "tuple" => Errors(t, x) = UNION {Errors(t.elems[i], x.a[i]) : i \in DOMAIN x.a}
           /\ t.k = "struct" => Errors(t, x) = FieldErrors(t.fields, x.o)
           /\ t.k = "enum" => Errors(t, x) =
                 IF VariantOf(t, x).payload = "struct"
                 THEN FieldErrors(VariantOf(t, x).fields, PayloadIn(t, VariantOf(t, x), x)) ELSE {}
<1>1. Errors(t, x) = ErrorsOf(t, x)
  BY DEF Unfolds
<1>2. /\ t.k \in {"prim", "array", "tupleStruct", "unitStruct"} => ErrorsOf(t, x) = {}
      /\ t.k = "option" => ErrorsOf(t, x) = IF x = Null THEN {} ELSE Errors(t.of, x)
      /\ t.k = "struct" => ErrorsOf(t, x) = FieldErrors(t.fields, x.o)
      /\ t.k = "enum" => ErrorsOf(t, x) =
                 IF VariantOf(t, x).payload = "struct"
                 THEN FieldErrors(VariantOf(t, x).fields, PayloadIn(t, VariantOf(t, x), x)) ELSE {}
  BY DEF ErrorsOf
<1>3. t.k = "vec" => ErrorsOf(t, x) = UNION {At(i, Errors(t.of, x.a[i])) : i \in DOMAIN x.a}
  BY Zenon DEF ErrorsOf
<1>4. t.k = "map" => ErrorsOf(t, x) = UNION {Errors(t.of, x.o[m]) : m \in DOMAIN x.o}
  BY Zenon DEF ErrorsOf
<1>5. t.k = "tuple" => ErrorsOf(t, x) = UNION {Errors(t.elems[i], x.a[i]) : i \in DOMAIN x.a}
  BY Zenon DEF ErrorsOf
<1> QED BY <1>1, <1>2, <1>3, <1>4, <1>5, Zenon

\* An ordinary value is null in JSON only if it is.
LEMMA NotNull ==
    ASSUME Unfolds, NEW x, Ordinary(x), x.j # "undef", x # Null
    PROVE  Json(x) # Null
<1>1. Json(x) = JsonOf(x) /\ (Ordinary(x) <=> OrdinaryOf(x))
  BY DEF Unfolds
<1>2. CASE x.j = "arr"
  BY <1>1, <1>2 DEF JsonOf, Arr, Null
<1>3. CASE x.j = "obj"
  BY <1>1, <1>3 DEF JsonOf, Obj, Null
<1>4. CASE x.j \notin {"arr", "obj"}
  <2>1. Json(x) = JsonLeaf(x) /\ OrdinaryLeaf(x)
    BY <1>1, <1>4 DEF JsonOf, OrdinaryOf
  <2>2. x.j # "nan"
    BY <2>1 DEF OrdinaryLeaf
  <2> QED BY <2>1, <2>2 DEF JsonLeaf, Num, Null
<1> QED BY <1>2, <1>3, <1>4

\* The schema of a type that has no constraints admits what its generated type does.
Open(t, o) == Within(TsType(t, o), Schema(t, o))

\* A field that is always there.
Present(f) == ~IrField(f).optional /\ ~IrField(f).undefined

LEMMA LeafOpen ==
    ASSUME Unfolds, NEW p, NEW bigint \in Bigints, PlainPrimitive(p, bigint), p # "unit"
    PROVE  Within(Leaf(TsPrimitive(p, bigint)), Leaf(SchemaPrimitive(p, bigint)))
<1> SUFFICES ASSUME NEW x, Fits(Leaf(TsPrimitive(p, bigint)), x), Ordinary(x)
             PROVE  Fits(Leaf(SchemaPrimitive(p, bigint)), x)
  BY DEF Within
<1>1. x \in LeafValues /\ FitsLeaf(TsPrimitive(p, bigint), x)
  BY FitsViews
<1>2. OrdinaryLeaf(x)
  BY <1>1, Values
<1>3. x.j # "undef"
  BY LeafInput DEF Defined
<1>4. Passed(x) = x
  BY <1>3 DEF Passed, Undef
<1>5. FitsLeaf(SchemaPrimitive(p, bigint), Passed(x))
  BY <1>1, <1>2, PrimitiveInputsArrive
<1> QED BY <1>1, <1>4, <1>5, FitsViews

LEMMA FieldsOpen ==
    ASSUME Unfolds, NEW fields, NEW o,
           \A i \in DOMAIN fields : /\ Present(fields[i]) /\ IrField(fields[i]).constraints = {}
                                    /\ Open(fields[i].ty, o)
    PROVE  WithinParts(TsFields(IrFields(fields), o), SchemaFields(IrFields(fields), o))
<1>1. \A f : IrField(f).ty = f.ty
  BY DEF IrField
<1>2. ASSUME NEW i \in DOMAIN fields
      PROVE  LET f == IrField(fields[i]) IN
             /\ TsField(f, o).required
             /\ Within(TsField(f, o).view, SchemaField(f, o).view)
  <2> DEFINE f == IrField(fields[i])
  <2>1. ~f.optional /\ ~f.undefined /\ f.constraints = {} /\ Within(TsType(f.ty, o), Schema(f.ty, o))
    BY <1>1 DEF Present, Open
  <2> HIDE DEF f
  <2>2. Within(TsType(f.ty, o), SchemaField(f, o).view)
    BY <2>1, FieldGiven
  <2>3. \A x : Fits(TsField(f, o).view, x) => Fits(TsType(f.ty, o), x)
    BY <2>1, TsFieldIs
  <2>4. TsField(f, o).required
    BY <2>1, TsFieldIs
  <2> QED BY <2>2, <2>3, <2>4 DEF Within, f
<1>3. Aligned(TsFields(IrFields(fields), o), SchemaFields(IrFields(fields), o))
  BY FieldsAligned
<1> QED BY <1>2, <1>3, FieldPartsAre DEF WithinParts

LEMMA TupleOpen ==
    ASSUME Unfolds, NEW n \in Nat, NEW elems, DOMAIN elems = 1..n, NEW o,
           \A i \in 1..n : Open(elems[i], o)
    PROVE  Within(TsFixed(elems, o), SchemaFixed(elems, o))
<1> DEFINE a == [i \in DOMAIN elems |-> TsType(elems[i], o)]
           b == [i \in DOMAIN elems |-> Schema(elems[i], o)]
<1>1. Len(a) = n /\ Len(b) = n
  OBVIOUS
<1>2. \A i \in 1..n : Within(a[i], b[i])
  BY DEF Open
<1> HIDE DEF a, b
<1>3. Within(Fixed(a), Fixed(b))
  BY <1>1, <1>2, FixedClaims
<1> QED BY <1>3 DEF a, b, TsFixed, SchemaFixed

LEMMA VariantOpen ==
    ASSUME Unfolds, NEW t, NEW v, VariantIs(v), PlainVariant(t, v), NEW o,
           \A s \in TypesIn(v) : Open(s, o),
           \A f \in ToSet(v.fields) : Present(f) /\ IrField(f).constraints = {}
    PROVE  Within(TsVariant(IrTag(t), IrVariant(v), o), SchemaVariant(IrTag(t), IrVariant(v), o))
<1> DEFINE a == TsPayload(IrVariant(v), o)
           b == SchemaPayload(IrVariant(v), o)
<1>1. WithinParts(a, b)
  <2>1. CASE v.payload = "struct"
    <3>1. WithinParts(TsFields(IrFields(v.fields), o), SchemaFields(IrFields(v.fields), o))
      BY VariantParts, FieldsOpen
    <3> QED BY <2>1, <3>1, PayloadsAre
  <2>2. CASE v.payload = "tuple"
    <3>1. Len(v.elems) \in Nat /\ DOMAIN v.elems = 1..Len(v.elems)
      BY ListIs DEF VariantIs
    <3>2. Within(TsFixed(v.elems, o), SchemaFixed(v.elems, o))
      BY <3>1, VariantParts, TupleOpen
    <3>3. v.elems # <<>>
      BY <2>2, SerdeVariantIs
    <3>4. a = PayloadOf(TsFixed(v.elems, o)) /\ b = PayloadOf(SchemaFixed(v.elems, o))
      BY <2>2, <3>3, PayloadsAre
    <3> HIDE DEF a, b
    <3> QED BY <3>2, <3>4, PayloadClaims
  <2>3. CASE v.payload = "unit"
    <3>1. a = <<>> /\ b = <<>>
      BY <2>3, PayloadsAre
    <3> HIDE DEF a, b
    <3> QED BY <3>1, NoPartsClaims
  <2> QED BY <2>1, <2>2, <2>3 DEF VariantIs
<1>2. 0 \notin DOMAIN a /\ 0 \notin DOMAIN b
  BY NoTagIn
<1>3. /\ TsVariant(IrTag(t), IrVariant(v), o) = Object(Tagged(IrTag(t), v.ident, a), "any")
      /\ SchemaVariant(IrTag(t), IrVariant(v), o) = Object(Tagged(IrTag(t), v.ident, b), "any")
  BY DEF TsVariant, SchemaVariant, IrVariant
<1> HIDE DEF a, b
<1>4. WithinParts(Tagged(IrTag(t), v.ident, a), Tagged(IrTag(t), v.ident, b))
  BY <1>1, <1>2, TaggedParts
<1> QED BY <1>3, <1>4, WithinClaims

LEMMA OpenWrapped ==
    ASSUME Unfolds, NEW t, NEW o, PlainIn(t, o), t.k \in {"option", "vec", "map", "array"},
           Open(t.of, o)
    PROVE  Open(t, o)
<1> DEFINE a == TsType(t.of, o)
           b == Schema(t.of, o)
<1>1. Within(a, b)
  BY DEF Open
<1> HIDE DEF a, b
<1>2. CASE t.k = "option"
  <2>1. TsType(t, o) = Nullable(a) /\ Schema(t, o) = Nullable(b)
    BY <1>2, TsReads, SchemaReads DEF a, b
  <2>2. Within(Nullable(a), Nullable(b))
    BY <1>1, NullableClaims
  <2> QED BY <2>1, <2>2 DEF Open
<1>3. CASE t.k = "vec"
  <2>1. TsType(t, o) = ArrayOf(a) /\ Schema(t, o) = ArrayOf(b)
    BY <1>3, TsReads, SchemaReads DEF a, b
  <2>2. Within(ArrayOf(a), ArrayOf(b))
    BY <1>1, ArrayClaims
  <2> QED BY <2>1, <2>2 DEF Open
<1>4. CASE t.k = "map"
  <2>1. TsType(t, o) = RecordOf(a) /\ Schema(t, o) = RecordOf(b)
    BY <1>4, PlainHas, TsReads, SchemaReads DEF a, b
  <2>2. Within(RecordOf(a), RecordOf(b))
    BY <1>1, RecordClaims
  <2> QED BY <2>1, <2>2 DEF Open
<1>5. CASE t.k = "array"
  <2>1. TsType(t, o) = Fixed(Copies(t.len, a)) /\ Schema(t, o) = Fixed(Copies(t.len, b))
    BY <1>5, PlainHas, TsReads, SchemaReads DEF a, b
  <2>2. t.len \in Nat
    BY <1>5, PlainHas
  <2>3. Within(Fixed(Copies(t.len, a)), Fixed(Copies(t.len, b)))
    BY <1>1, <2>2, CopiesClaims
  <2> QED BY <2>1, <2>3 DEF Open
<1> QED BY <1>2, <1>3, <1>4, <1>5

LEMMA OpenSequence ==
    ASSUME Unfolds, NEW t, NEW o, PlainIn(t, o), t.k \in {"tuple", "tupleStruct"},
           \A p \in ToSet(t.elems) : Open(p, o)
    PROVE  Open(t, o)
<1>1. t.elems # <<>> /\ ListOf(t.elems)
  BY PlainHas
<1>2. /\ Len(t.elems) \in Nat /\ DOMAIN t.elems = 1..Len(t.elems) /\ Len(t.elems) >= 1
      /\ \A i \in 1..Len(t.elems) : Open(t.elems[i], o)
  BY <1>1, ListIs
<1>3. Within(TsFixed(t.elems, o), SchemaFixed(t.elems, o))
  BY <1>2, TupleOpen
<1>4. TsTuple(t.elems, o) = TsFixed(t.elems, o) /\ SchemaTuple(t.elems, o) = SchemaFixed(t.elems, o)
  BY <1>1, TuplesAre
<1>5. CASE t.k = "tuple" \/ Len(t.elems) # 1
  <2>1. TsType(t, o) = TsFixed(t.elems, o)
    BY <1>4, <1>5, TsReads, TuplesAre
  <2>2. Schema(t, o) = SchemaFixed(t.elems, o)
    BY <1>4, <1>5, SchemaReads
  <2> QED BY <1>3, <2>1, <2>2 DEF Open
<1>6. CASE t.k = "tupleStruct" /\ Len(t.elems) = 1
  <2>1. TsType(t, o) = TsType(t.elems[1], o)
    BY <1>6, TsReads, TuplesAre
  <2>2. Schema(t, o) = Schema(t.elems[1], o)
    BY <1>6, SchemaReads
  <2> QED BY <1>2, <2>1, <2>2 DEF Open
<1> QED BY <1>5, <1>6

LEMMA OpenStep ==
    ASSUME Unfolds, NEW t, NEW o, PlainIn(t, o), Loose(t), \A f \in FieldsOf(t) : Present(f),
           \A p \in PartsOf(t) : Open(p, o)
    PROVE  Open(t, o)
<1>1. CASE t.k = "prim"
  <2>1. PlainPrimitive(t.p, o.bigint) /\ t.p # "unit" /\ o.bigint \in Bigints
    BY <1>1, PlainHas DEF PlainIn
  <2>2. Within(Leaf(TsPrimitive(t.p, o.bigint)), Leaf(SchemaPrimitive(t.p, o.bigint)))
    BY <2>1, LeafOpen
  <2> QED BY <1>1, <2>2, TsReads, SchemaReads DEF Open
<1>2. CASE t.k \in {"option", "vec", "map", "array"}
  BY <1>2, PartsAre, OpenWrapped
<1>3. CASE t.k \in {"tuple", "tupleStruct"}
  BY <1>3, PartsAre, OpenSequence
<1>4. CASE t.k = "struct"
  <2>1. ListOf(t.fields) /\ FieldsOf(t) = ToSet(t.fields)
    BY <1>4, PlainHas DEF FieldsOf
  <2>2. \A i \in DOMAIN t.fields : t.fields[i] \in ToSet(t.fields) /\ t.fields[i].ty \in PartsOf(t)
    BY <1>4, <2>1, ListIs, PartsAre
  <2>3. WithinParts(TsFields(IrFields(t.fields), o), SchemaFields(IrFields(t.fields), o))
    BY <2>1, <2>2, FieldsOpen DEF Loose
  <2>4. Within(TsStruct(t.fields, o), SchemaStruct(t.fields, o))
    BY <2>3, WithinClaims DEF TsStruct, SchemaStruct
  <2> QED BY <1>4, <2>4, TsReads, SchemaReads DEF Open
<1>5. CASE t.k = "enum"
  <2> DEFINE a == [i \in DOMAIN t.variants |-> TsVariant(IrTag(t), IrVariant(t.variants[i]), o)]
             b == [i \in DOMAIN t.variants |-> SchemaVariant(IrTag(t), IrVariant(t.variants[i]), o)]
  <2>1. ASSUME NEW i \in DOMAIN t.variants PROVE Within(a[i], b[i])
    <3> DEFINE v == t.variants[i]
    <3>1. v \in ToSet(t.variants) /\ VariantIs(v) /\ PlainVariant(t, v)
      BY <1>5, PlainHas
    <3>2. TypesIn(v) \subseteq PartsOf(t)
      BY <1>5, <3>1, PartsAre
    <3>3. ToSet(v.fields) \subseteq FieldsOf(t)
      BY <1>5, <3>1 DEF FieldsOf
    <3>4. /\ \A s \in TypesIn(v) : Open(s, o)
          /\ \A f \in ToSet(v.fields) : Present(f) /\ IrField(f).constraints = {}
      BY <3>2, <3>3 DEF Loose
    <3>5. a[i] = TsVariant(IrTag(t), IrVariant(v), o) /\ b[i] = SchemaVariant(IrTag(t), IrVariant(v), o)
      OBVIOUS
    <3> HIDE DEF v, a, b
    <3> QED BY <3>1, <3>4, <3>5, VariantOpen
  <2>2. DOMAIN a = DOMAIN t.variants /\ DOMAIN b = DOMAIN a
    OBVIOUS
  <2>3. TsType(t, o) = Union(a)
    BY <1>5, TsReads DEF TsEnum
  <2>4. Schema(t, o) = Union(b) \/ t.variants = <<>>
    BY <1>5, EnumSchema
  <2> HIDE DEF a, b
  <2>5. Within(Union(a), Union(b))
    BY <2>1, <2>2, UnionClaims
  <2>6. t.variants = <<>> => \A x : ~Fits(Union(a), x)
    <3>1. \A x : Fits(Union(a), x) <=> \E i \in DOMAIN a : Fits(a[i], x)
      BY FitsViews
    <3>2. DOMAIN << >> = {}
      OBVIOUS
    <3>3. ASSUME t.variants = << >> PROVE DOMAIN a = {}
      BY <2>2, <3>2, <3>3, Zenon
    <3> QED BY <3>1, <3>3
  <2> QED BY <2>3, <2>4, <2>5, <2>6 DEF Open, Within
<1>6. t.k # "unitStruct"
  BY PlainHas
<1> QED BY <1>1, <1>2, <1>3, <1>4, <1>5, <1>6 DEF Typed, PlainIn

\* A schema has no issues with a value that it lets through.
Clean(w) == \A x : Fits(w, x) => Issues(w, x) = {}

LEMMA NoneUnder == \A key : UnderKey(key, {}) = {}
BY DEF UnderKey

LEMMA WrappedClean ==
    ASSUME Unfolds, NEW w, Clean(w)
    PROVE  /\ Clean(Nullable(w)) /\ Clean(ArrayOf(w)) /\ Clean(RecordOf(w))
           /\ \A cs : Clean(Checked(w, cs))
<1>1. Clean(Nullable(w))
  BY FitsViews, IssuesViews DEF Clean
<1>2. ASSUME NEW x, Fits(ArrayOf(w), x) PROVE Issues(ArrayOf(w), x) = {}
  <2>1. x.j = "arr" /\ \A i \in DOMAIN x.a : Fits(w, x.a[i])
    BY <1>2, FitsViews DEF IsArr
  <2>2. \A i \in DOMAIN x.a : UnderKey(i, Issues(w, x.a[i])) = {}
    BY <2>1, NoneUnder DEF Clean
  <2>3. Issues(ArrayOf(w), x) = UNION {UnderKey(i, Issues(w, x.a[i])) : i \in DOMAIN x.a}
    BY <2>1, IssuesViews
  <2> QED BY <2>2, <2>3
<1>3. ASSUME NEW x, Fits(RecordOf(w), x) PROVE Issues(RecordOf(w), x) = {}
  <2>1. x.j = "obj" /\ \A m \in DOMAIN x.o : Fits(w, x.o[m])
    BY <1>3, FitsViews DEF IsObj
  <2>2. \A m \in DOMAIN x.o : UnderKey(m, Issues(w, x.o[m])) = {}
    BY <2>1, NoneUnder DEF Clean
  <2>3. Issues(RecordOf(w), x) = UNION {UnderKey(m, Issues(w, x.o[m])) : m \in DOMAIN x.o}
    BY <2>1, IssuesViews
  <2> QED BY <2>2, <2>3
<1>4. ASSUME NEW cs, NEW x, Fits(Checked(w, cs), x) PROVE Issues(Checked(w, cs), x) = {}
  <2>1. Fits(w, x)
    BY <1>4, FitsViews
  <2>2. Issues(w, x) = {}
    BY <2>1 DEF Clean
  <2> QED BY <1>4, <2>2, IssuesViews DEF OneIssue
<1> QED BY <1>1, <1>2, <1>3, <1>4 DEF Clean

LEMMA FixedClean ==
    ASSUME Unfolds, NEW ws, \A i \in 1..Len(ws) : Clean(ws[i])
    PROVE  Clean(Fixed(ws))
<1> SUFFICES ASSUME NEW x, Fits(Fixed(ws), x) PROVE Issues(Fixed(ws), x) = {}
  BY DEF Clean
<1>1. IsArr(x) /\ Len(x.a) = Len(ws) /\ \A i \in DOMAIN x.a : Fits(ws[i], x.a[i])
  BY FitsViews
<1>2. x.j = "arr" /\ DOMAIN x.a = 1..Len(ws)
  BY <1>1 DEF IsArr
<1>3. \A i \in DOMAIN x.a : UnderKey(i, Issues(ws[i], x.a[i])) = {}
  BY <1>1, <1>2, NoneUnder DEF Clean
<1>4. Issues(Fixed(ws), x) = UNION {UnderKey(i, Issues(ws[i], x.a[i])) : i \in DOMAIN x.a}
  BY <1>1, <1>2, IssuesViews
<1> QED BY <1>3, <1>4

LEMMA ObjectClean ==
    ASSUME Unfolds, NEW ws, NEW keys, \A i \in DOMAIN ws : ws[i].required /\ Clean(ws[i].view)
    PROVE  Clean(Object(ws, keys))
<1> SUFFICES ASSUME NEW x, Fits(Object(ws, keys), x) PROVE Issues(Object(ws, keys), x) = {}
  BY DEF Clean
<1>1. /\ IsObj(x)
      /\ \A i \in DOMAIN ws : IF ws[i].name \in DOMAIN x.o THEN Fits(ws[i].view, x.o[ws[i].name])
                              ELSE ~ws[i].required
  BY FitsViews
<1>2. x.j = "obj"
  BY <1>1 DEF IsObj
<1>3. \A i \in DOMAIN ws : ws[i].name \in DOMAIN x.o /\ Fits(ws[i].view, x.o[ws[i].name])
  BY <1>1
<1>4. \A i \in DOMAIN ws : UnderKey(ws[i].name, Issues(ws[i].view, x.o[ws[i].name])) = {}
  BY <1>3, NoneUnder DEF Clean
<1>5. Issues(Object(ws, keys), x) =
        UNION {UnderKey(ws[i].name, Issues(ws[i].view, x.o[ws[i].name])) : i \in DOMAIN ws}
  BY <1>2, <1>3, IssuesObject
<1> QED BY <1>4, <1>5

\* A schema finds the variant by its tag.
LEMMA TagIs ==
    ASSUME Unfolds, NEW tag, NEW name, NEW parts, NEW keys, NEW x
    PROVE  LET w == Object(Tagged(tag, name, parts), keys) IN
           /\ IsTagged(w, x) <=> tag \in DOMAIN x.o /\ x.o[tag] = Str(name)
           /\ Fits(w, x) => IsTagged(w, x)
<1> DEFINE ws == Tagged(tag, name, parts)
<1>1. 0 \in DOMAIN ws /\ ws[0] = Part(tag, Literal(name), TRUE)
  BY DEF Tagged
<1>2. ws[0].name = tag /\ ws[0].view = Literal(name) /\ ws[0].required
  BY <1>1 DEF Part
<1>3. Object(ws, keys).parts = ws
  BY DEF Object
<1> HIDE DEF ws
<1>4. IsTagged(Object(ws, keys), x) <=> tag \in DOMAIN x.o /\ x.o[tag] = Str(name)
  BY <1>2, <1>3, FitsViews DEF IsTagged
<1>5. Fits(Object(ws, keys), x) => ws[0].name \in DOMAIN x.o /\ Fits(ws[0].view, x.o[ws[0].name])
  BY <1>1, <1>2, FitsViews
<1>6. Fits(Object(ws, keys), x) => IsTagged(Object(ws, keys), x)
  BY <1>2, <1>4, <1>5, FitsViews
<1> QED BY <1>4, <1>6 DEF ws

LEMMA IssuesVariant ==
    ASSUME Unfolds, NEW t, NEW o, PlainIn(t, o), t.k = "enum", NEW k \in DOMAIN t.variants,
           NEW x, x.j = "obj", IrTag(t) \in DOMAIN x.o,
           x.o[IrTag(t)] = Str(t.variants[k].ident)
    PROVE  Issues(Schema(t, o), x) =
              Issues(SchemaVariant(IrTag(t), IrVariant(t.variants[k]), o), x)
<1> DEFINE b == [i \in DOMAIN t.variants |-> SchemaVariant(IrTag(t), IrVariant(t.variants[i]), o)]
<1>1. ASSUME NEW i \in DOMAIN t.variants
      PROVE  IsTagged(b[i], x) <=> i = k
  <2> DEFINE parts == SchemaPayload(IrVariant(t.variants[i]), o)
  <2>1. b[i] = Object(Tagged(IrTag(t), t.variants[i].ident, parts), "any")
    BY DEF SchemaVariant, IrVariant
  <2> HIDE DEF parts, b
  <2>2. IsTagged(b[i], x) <=> x.o[IrTag(t)] = Str(t.variants[i].ident)
    BY <2>1, TagIs
  <2>3. t.variants[i].ident = t.variants[k].ident => i = k
    BY NamesApart DEF PlainIn
  <2> QED BY <2>2, <2>3 DEF Str
<1>2. DOMAIN b = DOMAIN t.variants
  OBVIOUS
<1>3. b[k] = SchemaVariant(IrTag(t), IrVariant(t.variants[k]), o)
  OBVIOUS
<1>4. t.variants # <<>>
  <2>1. DOMAIN << >> = {}
    OBVIOUS
  <2> QED BY <2>1, Zenon
<1>5. Schema(t, o) = Union(b)
  BY <1>4, EnumSchema
<1> HIDE DEF b
<1>6. \E i \in DOMAIN b : IsTagged(b[i], x) /\ Issues(Union(b), x) = Issues(b[i], x)
  BY <1>1, <1>2, IssuesObject
<1> QED BY <1>1, <1>2, <1>3, <1>5, <1>6

LEMMA FieldClean ==
    ASSUME Unfolds, NEW f, NEW o, Clean(Schema(f.ty, o))
    PROVE  Clean(SchemaField(f, o).view)
<1>1. CASE f.ty.k = "option"
  <2> DEFINE w == Schema(f.ty.of, o)
             cs == SchemaChecks(f.ty.of, f.constraints)
  <2>1. SchemaField(f, o).view = Nullable(Checked(w, cs))
    BY <1>1 DEF SchemaField, Part
  <2>2. Clean(Nullable(w))
    BY <1>1, SchemaReads
  <2> HIDE DEF w, cs
  <2> SUFFICES ASSUME NEW x, Fits(Nullable(Checked(w, cs)), x)
               PROVE  Issues(Nullable(Checked(w, cs)), x) = {}
    BY <2>1 DEF Clean
  <2>3. CASE x = Null
    BY <2>3, IssuesViews
  <2>4. CASE x # Null
    <3>1. Fits(Checked(w, cs), x) /\ Fits(w, x)
      BY <2>4, FitsViews
    <3>2. Fits(Nullable(w), x)
      BY <3>1, FitsViews
    <3>3. Issues(w, x) = {}
      BY <2>2, <2>4, <3>2, IssuesViews DEF Clean
    <3> QED BY <2>4, <3>1, <3>3, IssuesViews DEF OneIssue
  <2> QED BY <2>3, <2>4
<1>2. CASE f.ty.k # "option"
  <2>1. SchemaField(f, o).view = Checked(Schema(f.ty, o), SchemaChecks(f.ty, f.constraints))
    BY <1>2 DEF SchemaField, Part
  <2> QED BY <2>1, WrappedClean
<1> QED BY <1>1, <1>2

LEMMA LeafClean ==
    ASSUME Unfolds, NEW name
    PROVE  Clean(Leaf(name)) /\ Clean(Literal(name))
BY IssuesViews DEF Clean, OneIssue

LEMMA FieldsClean ==
    ASSUME Unfolds, NEW fields, NEW o, \A i \in DOMAIN fields : Clean(Schema(fields[i].ty, o))
    PROVE  LET b == SchemaFields(IrFields(fields), o) IN
           \A i \in DOMAIN b : b[i].required /\ Clean(b[i].view)
<1> DEFINE b == SchemaFields(IrFields(fields), o)
<1>1. DOMAIN b = DOMAIN fields /\ \A i \in DOMAIN fields : b[i] = SchemaField(IrField(fields[i]), o)
  BY FieldPartsAre
<1>2. \A i \in DOMAIN fields : IrField(fields[i]).ty = fields[i].ty
  BY DEF IrField
<1> HIDE DEF b
<1>3. ASSUME NEW i \in DOMAIN fields PROVE b[i].required /\ Clean(b[i].view)
  <2>1. Clean(SchemaField(IrField(fields[i]), o).view)
    BY <1>2, FieldClean
  <2>2. SchemaField(IrField(fields[i]), o).required
    BY SchemaFieldIs
  <2> QED BY <1>1, <2>1, <2>2
<1> QED BY <1>1, <1>3 DEF b

LEMMA TupleClean ==
    ASSUME Unfolds, NEW elems, ListOf(elems), NEW o, \A p \in ToSet(elems) : Clean(Schema(p, o))
    PROVE  Clean(SchemaFixed(elems, o))
<1> DEFINE ws == [i \in DOMAIN elems |-> Schema(elems[i], o)]
<1>1. /\ Len(elems) \in Nat /\ DOMAIN elems = 1..Len(elems)
      /\ \A i \in 1..Len(elems) : elems[i] \in ToSet(elems)
  BY ListIs
<1>2. Len(ws) = Len(elems) /\ \A i \in 1..Len(elems) : ws[i] = Schema(elems[i], o)
  BY <1>1
<1>3. SchemaFixed(elems, o) = Fixed(ws)
  BY DEF SchemaFixed
<1> HIDE DEF ws
<1>4. \A i \in 1..Len(ws) : Clean(ws[i])
  BY <1>1, <1>2
<1> QED BY <1>3, <1>4, FixedClean

LEMMA TaggedClean ==
    ASSUME Unfolds, NEW tag, NEW name, NEW b, 0 \notin DOMAIN b,
           \A i \in DOMAIN b : b[i].required /\ Clean(b[i].view)
    PROVE  Clean(Object(Tagged(tag, name, b), "any"))
<1> DEFINE w == Tagged(tag, name, b)
<1>1. DOMAIN w = {0} \cup DOMAIN b /\ w[0] = Part(tag, Literal(name), TRUE)
      /\ \A i \in DOMAIN b : w[i] = b[i]
  BY DEF Tagged
<1>2. w[0].required /\ w[0].view = Literal(name)
  BY <1>1 DEF Part
<1>3. Clean(Literal(name))
  BY LeafClean
<1> HIDE DEF w
<1>4. \A i \in DOMAIN w : w[i].required /\ Clean(w[i].view)
  BY <1>1, <1>2, <1>3
<1>5. Clean(Object(w, "any"))
  BY <1>4, ObjectClean
<1> QED BY <1>5 DEF w

LEMMA VariantClean ==
    ASSUME Unfolds, NEW v, VariantIs(v), NEW o, NEW tag, \A t \in TypesIn(v) : Clean(Schema(t, o))
    PROVE  Clean(SchemaVariant(tag, IrVariant(v), o))
<1> DEFINE b == SchemaPayload(IrVariant(v), o)
<1>1. \A i \in DOMAIN b : b[i].required /\ Clean(b[i].view)
  <2>1. CASE v.payload = "struct"
    <3>1. \A i \in DOMAIN v.fields : Clean(Schema(v.fields[i].ty, o))
      BY VariantParts
    <3>2. b = SchemaFields(IrFields(v.fields), o)
      BY <2>1, PayloadsAre
    <3> QED BY <3>1, <3>2, FieldsClean
  <2>2. CASE v.payload = "tuple" /\ v.elems # <<>>
    <3>1. \A p \in ToSet(v.elems) : Clean(Schema(p, o))
      BY DEF TypesIn
    <3>2. Clean(SchemaFixed(v.elems, o))
      BY <3>1, TupleClean DEF VariantIs
    <3>3. b = PayloadOf(SchemaFixed(v.elems, o))
      BY <2>2, PayloadsAre
    <3> HIDE DEF b
    <3> QED BY <3>2, <3>3, PayloadIs
  <2>3. CASE v.payload = "unit" \/ (v.payload = "tuple" /\ v.elems = <<>>)
    <3>1. b = << >>
      BY <2>3, PayloadsAre
    <3>2. DOMAIN << >> = {}
      OBVIOUS
    <3> HIDE DEF b
    <3> QED BY <3>1, <3>2, Zenon
  <2> QED BY <2>1, <2>2, <2>3 DEF VariantIs
<1>2. 0 \notin DOMAIN b
  BY NoTagIn
<1>3. SchemaVariant(tag, IrVariant(v), o) = Object(Tagged(tag, v.ident, b), "any")
  BY DEF SchemaVariant, IrVariant
<1> HIDE DEF b
<1> QED BY <1>1, <1>2, <1>3, TaggedClean

LEMMA EnumClean ==
    ASSUME Unfolds, NEW t, NEW o, PlainIn(t, o), t.k = "enum",
           \A p \in PartsOf(t) : Clean(Schema(p, o))
    PROVE  Clean(Schema(t, o))
<1> SUFFICES ASSUME NEW x, Fits(Schema(t, o), x) PROVE Issues(Schema(t, o), x) = {}
  BY DEF Clean
<1> DEFINE b == [i \in DOMAIN t.variants |-> SchemaVariant(IrTag(t), IrVariant(t.variants[i]), o)]
<1>1. Schema(t, o) = Union(b)
  BY EnumSchema
<1>2. DOMAIN b = DOMAIN t.variants
  OBVIOUS
<1>3. \A i \in DOMAIN b : b[i] = SchemaVariant(IrTag(t), IrVariant(t.variants[i]), o)
  OBVIOUS
<1> HIDE DEF b
<1>4. PICK k \in DOMAIN b : Fits(b[k], x)
  BY <1>1, FitsViews
<1> DEFINE v == t.variants[k]
<1>5. v \in ToSet(t.variants) /\ VariantIs(v)
  BY <1>2, PlainHas
<1>6. TypesIn(v) \subseteq PartsOf(t)
  BY <1>5, PartsAre
<1>7. b[k] = SchemaVariant(IrTag(t), IrVariant(v), o)
  BY <1>2, <1>3
<1> HIDE DEF v
<1>8. Clean(b[k])
  BY <1>5, <1>6, <1>7, VariantClean
<1>9. b[k] = Object(Tagged(IrTag(t), v.ident, SchemaPayload(IrVariant(v), o)), "any")
  BY <1>7 DEF SchemaVariant, IrVariant
<1>10. IrTag(t) \in DOMAIN x.o /\ x.o[IrTag(t)] = Str(v.ident)
  BY <1>4, <1>9, TagIs
<1>11. x.j = "obj"
  <2>1. \E D, f : x = Obj(f) /\ On(f, D)
    BY <1>4, <1>9, ObjectAt
  <2> QED BY <2>1, ObjIs
<1>12. Issues(Schema(t, o), x) = Issues(b[k], x)
  BY <1>2, <1>7, <1>10, <1>11, IssuesVariant DEF v
<1> QED BY <1>4, <1>8, <1>12 DEF Clean

\* A schema has no issues with a value that it lets through.
LEMMA CleanStep ==
    ASSUME Unfolds, NEW t, NEW o, PlainIn(t, o), \A p \in PartsOf(t) : Clean(Schema(p, o))
    PROVE  Clean(Schema(t, o))
<1>1. CASE t.k = "prim"
  BY <1>1, SchemaReads, LeafClean
<1>2. CASE t.k \in {"option", "vec", "map"}
  <2>1. Clean(Schema(t.of, o))
    BY <1>2, PartsAre
  <2>2. Schema(t, o) \in {Nullable(Schema(t.of, o)), ArrayOf(Schema(t.of, o)), RecordOf(Schema(t.of, o))}
    BY <1>2, PlainHas, SchemaReads
  <2> QED BY <2>1, <2>2, WrappedClean
<1>3. CASE t.k = "array"
  <2>1. Clean(Schema(t.of, o)) /\ t.len \in Nat
    BY <1>3, PartsAre, PlainHas
  <2>2. Clean(Fixed(Copies(t.len, Schema(t.of, o))))
    BY <2>1, CopiesAre, FixedClean
  <2> QED BY <1>3, <2>2, SchemaReads
<1>4. CASE t.k \in {"tuple", "tupleStruct"}
  <2>1. t.elems # <<>> /\ ListOf(t.elems) /\ \A p \in ToSet(t.elems) : Clean(Schema(p, o))
    BY <1>4, PartsAre, PlainHas
  <2>2. Clean(SchemaFixed(t.elems, o)) /\ SchemaTuple(t.elems, o) = SchemaFixed(t.elems, o)
    BY <2>1, TupleClean, TuplesAre
  <2>3. Len(t.elems) >= 1 /\ Len(t.elems) \in Nat /\ \A i \in 1..Len(t.elems) : t.elems[i] \in ToSet(t.elems)
    BY <2>1, ListIs
  <2>4. Clean(Schema(t.elems[1], o))
    BY <2>1, <2>3
  <2> QED BY <1>4, <2>2, <2>4, SchemaReads
<1>5. CASE t.k = "struct"
  <2>1. ListOf(t.fields)
    BY <1>5, PlainHas
  <2>2. \A i \in DOMAIN t.fields : t.fields[i].ty \in PartsOf(t)
    BY <1>5, <2>1, ListIs, PartsAre
  <2>3. Clean(Object(SchemaFields(IrFields(t.fields), o), "any"))
    BY <2>2, FieldsClean, ObjectClean
  <2> QED BY <1>5, <2>3, SchemaReads DEF SchemaStruct
<1>6. CASE t.k = "enum"
  BY <1>6, EnumClean
<1>7. t.k # "unitStruct"
  BY PlainHas
<1> QED BY <1>1, <1>2, <1>3, <1>4, <1>5, <1>6, <1>7 DEF Typed, PlainIn

LEMMA FieldAttributes ==
    ASSUME NEW t \in AllTypes, NEW f \in FieldsOf(t)
    PROVE  \E S : f.attrs \in AttributesOver(S)
<1>1. PICK n \in 0..Depth : t \in TypesTo[n]
  BY DEF AllTypes
<1>2. PICK T : t \in TypesOver(T)
  BY <1>1, TypesDefined
<1>3. ASSUME NEW fields \in FieldsOver(T) PROVE \A g \in ToSet(fields) : g.attrs \in Attributes
  <2>1. ToSet(fields) \subseteq [ident : STRING, wire : STRING, attrs : Attributes, ty : T]
    BY ListsAre DEF FieldsOver
  <2> QED BY <2>1
<1>4. f.attrs \in Attributes
  <2>1. CASE t.k = "struct"
    <3>1. t.fields \in FieldsOver(T) /\ FieldsOf(t) = ToSet(t.fields)
      BY <1>2, <2>1, FormsAre DEF FieldsOf
    <3> QED BY <1>3, <3>1
  <2>2. CASE t.k = "enum"
    <3>1. t.variants \in VariantsOver(T)
      BY <1>2, <2>2, FormsAre
    <3>2. FieldsOf(t) = UNION {ToSet(v.fields) : v \in ToSet(t.variants)}
      BY <2>2 DEF FieldsOf
    <3>3. PICK v \in ToSet(t.variants) : f \in ToSet(v.fields)
      BY <3>2
    <3>4. ToSet(t.variants) \subseteq
            [ident : STRING, wire : STRING, snake : STRING, attrs : Attributes,
             payload : {"unit", "tuple", "struct"}, elems : Seq(T), fields : FieldsOver(T)]
      BY <3>1, ListsAre DEF VariantsOver
    <3>5. v.fields \in FieldsOver(T)
      BY <3>3, <3>4
    <3> QED BY <1>3, <3>3, <3>5
  <2>3. t.k \in {"struct", "enum"}
    BY DEF FieldsOf
  <2> QED BY <2>1, <2>2, <2>3
<1> QED BY <1>4 DEF Attributes, AttributesOver

\* A field that is no primitive, or a boolean, has no checks on either side.
LEMMA NoChecks ==
    ASSUME NEW f, \E S : f.attrs \in AttributesOver(S), PlainField(f), ChecksCompile(f),
           f.ty.k # "prim" \/ f.ty.p = "bool"
    PROVE  Checks(f) = {} /\ \A t : SchemaChecks(t, IrField(f).constraints) = {}
<1>1. Checks(f) = {}
  <2> SUFFICES ASSUME NEW c \in Checks(f) PROVE FALSE
    OBVIOUS
  <2>1. f.ty.k = "prim"
    BY DEF ChecksCompile
  <2>2. c.key # "custom" /\ ConstraintOf(c) \in IrField(f).constraints
    BY ChecksAreDeclared
  <2>3. ConstraintOf(c).key = c.key
    BY DEF ConstraintOf
  <2> QED BY <2>1, <2>2, <2>3 DEF PlainField
<1>2. ASSUME NEW t, NEW d \in SchemaChecks(t, IrField(f).constraints) PROVE FALSE
  <2>1. d \in IrField(f).constraints /\ d.key # "custom"
    BY DEF SchemaChecks
  <2>2. \E c \in Checks(f) : d = ConstraintOf(c)
    BY <2>1, PlainIsChecked
  <2> QED BY <1>1, <2>2
<1> QED BY <1>1, <1>2

-----------------------------------------------------------------------------
(* The checks of a field.                                                  *)

\* A field whose constraints both sides read alike, of a type without any.
AlikeField(f, o) ==
    /\ \E S : f.attrs \in AttributesOver(S)
    /\ ChecksCompile(f) /\ PlainField(f) /\ Present(f) /\ SerdeField(f)
    /\ Open(f.ty, o) /\ Clean(Schema(f.ty, o)) /\ Defined(TsType(f.ty, o))
    /\ f.ty.k = "prim" => PlainPrimitive(f.ty.p, o.bigint) /\ f.ty.p # "unit"
    /\ o.bigint \in Bigints

\* The server finds no fault with the field's value in x.
Passes(f, x) == \A c \in Checks(f) : FieldCheck(f, c, x)

FieldView(f, o) == SchemaField(IrField(f), o).view

\* What both sides say of a value of a field.
AlikeOn(f, o, x) ==
    LET w == FieldView(f, o) IN
    /\ Fits(w, x) <=> Passes(f, Json(x))
    /\ Fits(w, x) => Passes(f, Json(Through(w, x)))
    /\ Issues(w, x) = OneIssue(w, x)

\* The numbers that every integer type has, an f32 has.
LEMMA OrdinaryNarrows ==
    ASSUME NEW f, NEW x \in LeafValues, OrdinaryLeaf(x)
    PROVE  AsSent(f, x)
<1> SUFFICES ASSUME x.j = "num" PROVE ToF32(x) = x
  BY DEF AsSent, Decoded
<1>1. ~x.frac /\ \A p \in DOMAIN IntRange : x.n \in IntRange[p]
  BY DEF OrdinaryLeaf
<1>2. ToF32(Num(x.n)) = Num(x.n)
  BY <1>1, LeavesAssumption
<1>3. x = Num(x.n)
  BY <1>1, LeafForms DEF Num
<1> QED BY <1>2, <1>3, Zenon

LEMMA OptionWithoutChecks ==
    ASSUME Unfolds, NEW f, f.ty.k = "option", NEW o, SchemaChecks(f.ty.of, f.constraints) = {},
           NEW x, Fits(Schema(f.ty, o), x)
    PROVE  Fits(SchemaField(f, o).view, x)
<1>1. SchemaField(f, o).view = Nullable(Checked(Schema(f.ty.of, o), SchemaChecks(f.ty.of, f.constraints)))
  BY DEF SchemaField, Part
<1>2. Schema(f.ty, o) = Nullable(Schema(f.ty.of, o))
  BY SchemaReads
<1>3. x = Null \/ Fits(Schema(f.ty.of, o), x)
  BY <1>2, FitsViews
<1>4. Fits(Schema(f.ty.of, o), x) => Fits(Checked(Schema(f.ty.of, o), {}), x)
  BY FitsViews
<1> QED BY <1>1, <1>3, <1>4, FitsViews

LEMMA UncheckedAlike ==
    ASSUME Unfolds, NEW f, NEW o, AlikeField(f, o), f.ty.k # "prim" \/ f.ty.p = "bool",
           NEW x, Fits(TsType(f.ty, o), x), Ordinary(x)
    PROVE  AlikeOn(f, o, x)
<1> DEFINE g == IrField(f)
<1>1. Checks(f) = {} /\ \A t : SchemaChecks(t, g.constraints) = {}
  BY NoChecks DEF AlikeField
<1>2. g.ty = f.ty
  BY DEF IrField
<1>3. Fits(Schema(f.ty, o), x) /\ Clean(Schema(f.ty, o))
  BY DEF AlikeField, Open, Within
<1> HIDE DEF g
<1>4. Fits(SchemaField(g, o).view, x)
  <2>1. CASE f.ty.k = "option"
    BY <1>1, <1>2, <1>3, <2>1, OptionWithoutChecks
  <2>2. CASE f.ty.k # "option"
    BY <1>1, <1>2, <1>3, <2>2, SchemaFieldIs
  <2> QED BY <2>1, <2>2
<1>5. Issues(SchemaField(g, o).view, x) = {}
  BY <1>2, <1>3, <1>4, FieldClean DEF Clean
<1> QED BY <1>1, <1>4, <1>5 DEF AlikeOn, FieldView, Passes, OneIssue, g

LEMMA CheckedAlike ==
    ASSUME Unfolds, NEW f, NEW o, AlikeField(f, o), f.ty.k = "prim", f.ty.p # "bool",
           NEW x, Fits(TsType(f.ty, o), x), Ordinary(x)
    PROVE  AlikeOn(f, o, x)
<1> DEFINE g == IrField(f)
           base == Schema(f.ty, o)
           leaf == SchemaPrimitive(f.ty.p, o.bigint)
           cs == SchemaChecks(f.ty, g.constraints)
           w == Checked(base, cs)
<1>1. g.ty = f.ty
  BY DEF IrField
<1>2. FieldView(f, o) = w
  BY <1>1 DEF FieldView, SchemaField, Part
<1>3. base = Leaf(leaf)
  BY SchemaReads
<1>4. Fits(base, x) /\ Issues(base, x) = {}
  BY DEF AlikeField, Open, Within, Clean
<1>5. Fits(w, x) <=> ClientAccepts(f, x)
  BY <1>4, FitsViews DEF ClientAccepts
<1>6. Issues(w, x) = OneIssue(w, x)
  BY <1>4, IssuesViews
<1> HIDE DEF w, cs, g
<1>7. x \in LeafValues /\ FitsLeaf(leaf, x)
  BY <1>3, <1>4, FitsViews
<1>8. Json(x) = JsonLeaf(x) /\ OrdinaryLeaf(x)
  BY <1>7, Values
<1>9. x.j = "str" => Strings[x.s].units = Strings[x.s].chars
  BY <1>8 DEF OrdinaryLeaf
<1>10. Judged(f, x)
  BY <1>9 DEF AlikeField, Judged, PlainField
<1>11. Based(f, x)
  BY <1>7 DEF Based
<1>15. AsSent(f, x)
  BY <1>7, <1>8, OrdinaryNarrows
<1>12. ClientAccepts(f, x) <=> ServerAccepts(f, JsonLeaf(x))
  BY <1>10, <1>11, <1>15, PlainFieldsAgree DEF AlikeField
<1>13. Fits(w, x) <=> Passes(f, Json(x))
  BY <1>5, <1>8, <1>12 DEF Passes, ServerAccepts
<1>14. Fits(w, x) => Passes(f, Json(Through(w, x)))
  <2> SUFFICES ASSUME Fits(w, x), NEW c \in Checks(f)
               PROVE  FieldCheck(f, c, Json(Through(w, x)))
    BY DEF Passes
  <2>1. leaf # "toBigint"
    <3>1. c.key \in {"min", "max", "length"} /\ f.ty.p # "unit"
      BY <1>10, <1>11, CheckedValue DEF AlikeField
    <3>2. f.ty.p \notin Wide
      BY <3>1, LeavesAssumption DEF AlikeField, ChecksCompile
    <3>3. leaf \in {"string", "boolean", "null", "finite"}
      BY <3>2 DEF SchemaPrimitive
    <3> QED BY <3>3
  <2>2. Through(w, x) = Through(base, x)
    <3>1. \A u, checks : Through(Checked(u, checks), x) = Through(u, x)
      BY ThroughViews
    <3> QED BY <3>1 DEF w
  <2>3. Through(base, x) = ThroughLeaf(leaf, x)
    BY <1>3, ThroughViews
  <2>4. Through(w, x) = x
    BY <2>1, <2>2, <2>3 DEF ThroughLeaf
  <2> QED BY <1>13, <2>4 DEF Passes
<1> QED BY <1>2, <1>6, <1>13, <1>14 DEF AlikeOn

LEMMA FieldAlike ==
    ASSUME Unfolds, NEW f, NEW o, AlikeField(f, o), NEW x, Fits(TsType(f.ty, o), x), Ordinary(x)
    PROVE  AlikeOn(f, o, x)
BY UncheckedAlike, CheckedAlike

-----------------------------------------------------------------------------
(* The checks of an object's fields.                                       *)

\* The object f over the keys D has a value of every field.
AlikeFields(fields, o, f, D) ==
    /\ On(f, D)
    /\ \A i \in DOMAIN fields :
          /\ AlikeField(fields[i], o) /\ fields[i].wire \in D
          /\ Fits(TsType(fields[i].ty, o), f[fields[i].wire]) /\ Ordinary(f[fields[i].wire])

LEMMA FieldErrorsAre ==
    ASSUME NEW fields, NEW g
    PROVE  FieldErrors(fields, g) = {} <=>
              \A i \in DOMAIN fields : fields[i].wire \in DOMAIN g =>
                                          Passes(fields[i], g[fields[i].wire])
<1> DEFINE Refused(i) == {c \in Checks(fields[i]) : ~FieldCheck(fields[i], c, g[fields[i].wire])}
           in == {i \in DOMAIN fields : fields[i].wire \in DOMAIN g}
           errors(i) == {<<<<fields[i].ident>>, c.key>> : c \in Refused(i)}
<1>1. FieldErrors(fields, g) = UNION {errors(i) : i \in in}
  BY DEF FieldErrors
<1>2. \A i : errors(i) = {} <=> Refused(i) = {}
  OBVIOUS
<1>3. \A i : Refused(i) = {} <=> Passes(fields[i], g[fields[i].wire])
  BY DEF Passes
<1> HIDE DEF errors, Refused
<1>4. FieldErrors(fields, g) = {} <=> \A i \in in : errors(i) = {}
  BY <1>1
<1> QED BY <1>2, <1>3, <1>4

\* An object as the client sends it: no field is left out.
LEMMA SentFields ==
    ASSUME Unfolds, NEW fields, NEW o, NEW D, NEW f, AlikeFields(fields, o, f, D)
    PROVE  \A i \in DOMAIN fields :
              /\ fields[i].wire \in DOMAIN Json(Obj(f)).o
              /\ Json(Obj(f)).o[fields[i].wire] = Json(f[fields[i].wire])
<1> DEFINE h == [m \in {m \in D : f[m].j # "undef"} |-> Json(f[m])]
<1>1. Json(Obj(f)) = Obj(h)
  BY ObjValues DEF AlikeFields
<1>2. Obj(h).o = h
  BY DEF Obj
<1>3. ASSUME NEW i \in DOMAIN fields
      PROVE  fields[i].wire \in D /\ f[fields[i].wire].j # "undef"
  BY DEF AlikeFields, AlikeField, Defined
<1> QED BY <1>1, <1>2, <1>3

LEMMA ObjectErrors ==
    ASSUME Unfolds, NEW fields, NEW o, NEW D, NEW f, AlikeFields(fields, o, f, D)
    PROVE  FieldErrors(fields, Json(Obj(f)).o) = {} =>
              \A i \in DOMAIN fields : Fits(FieldView(fields[i], o), f[fields[i].wire])
<1>1. \A i \in DOMAIN fields : AlikeOn(fields[i], o, f[fields[i].wire])
  BY FieldAlike DEF AlikeFields
<1> QED BY <1>1, SentFields, FieldErrorsAre DEF AlikeOn

\* The object that the schema has parsed passes the server's checks.
LEMMA ParsedFields ==
    ASSUME Unfolds, NEW fields, NEW o, NEW D, NEW f, AlikeFields(fields, o, f, D),
           NEW w, Differ(w),
           \A i \in DOMAIN fields : i \in DOMAIN w /\ w[i] = SchemaField(IrField(fields[i]), o),
           Fits(Object(w, "any"), Obj(f))
    PROVE  FieldErrors(fields, Json(Through(Object(w, "any"), Obj(f))).o) = {}
<1> DEFINE K == Kept(w, f, D)
           E == D \cap Names(w)
           h == [m \in {m \in E : K[m].j # "undef"} |-> Json(K[m])]
<1>1. On(f, D)
  BY DEF AlikeFields
<1>2. /\ Through(Object(w, "any"), Obj(f)) = Obj(K) /\ On(K, E)
      /\ \A i \in DOMAIN w : w[i].name \in D => K[w[i].name] = Through(w[i].view, f[w[i].name])
  <2>1. /\ Through(Object(w, "any"), Obj(f)) = Obj(Kept(w, f, D))
        /\ On(Kept(w, f, D), D \cap Names(w))
    BY <1>1, PartsThrough
  <2>2. ASSUME NEW i \in DOMAIN w, w[i].name \in D
        PROVE  Kept(w, f, D)[w[i].name] = Through(w[i].view, f[w[i].name])
    BY <2>2, PartIs DEF Kept, Names
  <2> QED BY <2>1, <2>2
<1> HIDE DEF K, E
<1>3. Json(Obj(K)) = Obj(h)
  BY <1>2, ObjValues
<1>4. Obj(h).o = h
  BY DEF Obj
<1>5. ASSUME NEW i \in DOMAIN fields, fields[i].wire \in DOMAIN h
      PROVE  Passes(fields[i], h[fields[i].wire])
  <2> DEFINE m == fields[i].wire
  <2>1. AlikeField(fields[i], o) /\ m \in D /\ Fits(TsType(fields[i].ty, o), f[m]) /\ Ordinary(f[m])
    BY DEF AlikeFields
  <2>2. AlikeOn(fields[i], o, f[m])
    BY <2>1, FieldAlike
  <2>3. i \in DOMAIN w /\ w[i] = SchemaField(IrField(fields[i]), o)
    OBVIOUS
  <2>4. w[i].name = m
    BY <2>1, <2>3, SchemaFieldIs DEF AlikeField, SerdeField
  <2>5. w[i].view = FieldView(fields[i], o)
    BY <2>3 DEF FieldView
  <2>6. Fits(w[i].view, f[m])
    BY <1>1, <2>1, <2>3, <2>4, ObjFits
  <2>7. h[m] = Json(Through(w[i].view, f[m]))
    BY <1>2, <1>5, <2>1, <2>3, <2>4
  <2> HIDE DEF h
  <2> QED BY <2>2, <2>5, <2>6, <2>7 DEF AlikeOn
<1> QED BY <1>2, <1>3, <1>4, <1>5, FieldErrorsAre

LEMMA PathsAt ==
    ASSUME NEW path, NEW R
    PROVE  PathsOf({<<path, c.key>> : c \in R}) = {path : c \in R}
<1>1. \A k : <<path, k>>[1] = path
  OBVIOUS
<1>2. ASSUME NEW e \in {<<path, c.key>> : c \in R} PROVE R # {} /\ e[1] = path
  BY <1>1
<1>3. ASSUME NEW c \in R PROVE path \in PathsOf({<<path, d.key>> : d \in R})
  <2>1. <<path, c.key>> \in {<<path, d.key>> : d \in R}
    OBVIOUS
  <2> QED BY <1>1, <2>1 DEF PathsOf
<1> QED BY <1>2, <1>3 DEF PathsOf

\* Both sides find fault with the same fields.
LEMMA FieldPaths ==
    ASSUME Unfolds, NEW fields, NEW o, NEW D, NEW f, AlikeFields(fields, o, f, D),
           \A i \in DOMAIN fields : fields[i].wire = fields[i].ident
    PROVE  PathsOf(FieldErrors(fields, Json(Obj(f)).o)) =
              UNION {UnderKey(fields[i].wire, Issues(FieldView(fields[i], o), f[fields[i].wire]))
                     : i \in DOMAIN fields}
<1> DEFINE g == Json(Obj(f)).o
           Refused(i) == {c \in Checks(fields[i]) : ~FieldCheck(fields[i], c, g[fields[i].wire])}
           in == {i \in DOMAIN fields : fields[i].wire \in DOMAIN g}
           errors(i) == {<<<<fields[i].ident>>, c.key>> : c \in Refused(i)}
           under(i) == UnderKey(fields[i].wire, Issues(FieldView(fields[i], o), f[fields[i].wire]))
<1>1. in = DOMAIN fields
  BY SentFields
<1>2. FieldErrors(fields, g) = UNION {errors(i) : i \in DOMAIN fields}
  BY <1>1 DEF FieldErrors
<1>3. ASSUME NEW i \in DOMAIN fields PROVE PathsOf(errors(i)) = under(i)
  <2> DEFINE m == fields[i].wire
             w == FieldView(fields[i], o)
  <2>1. AlikeOn(fields[i], o, f[m])
    BY FieldAlike DEF AlikeFields
  <2>2. Fits(w, f[m]) <=> Refused(i) = {}
    <3>1. g[m] = Json(f[m])
      BY SentFields
    <3>2. Passes(fields[i], g[m]) <=> Refused(i) = {}
      BY DEF Passes
    <3> HIDE DEF g, Refused
    <3> QED BY <2>1, <3>1, <3>2 DEF AlikeOn
  <2>3. Issues(w, f[m]) = IF Fits(w, f[m]) THEN {} ELSE {<<>>}
    BY <2>1 DEF AlikeOn, OneIssue
  <2>4. UnderKey(m, {}) = {} /\ UnderKey(m, {<<>>}) = {<<m>>}
    BY DEF UnderKey
  <2>5. PathsOf(errors(i)) = {<<fields[i].ident>> : c \in Refused(i)}
    BY PathsAt
  <2>6. fields[i].ident = m
    OBVIOUS
  <2> HIDE DEF m, w, Refused, errors
  <2>7. under(i) = UnderKey(m, Issues(w, f[m]))
    BY DEF m, w
  <2> HIDE DEF under
  <2> QED BY <2>2, <2>3, <2>4, <2>5, <2>6, <2>7
<1> HIDE DEF errors, under, g
<1>4. PathsOf(UNION {errors(i) : i \in DOMAIN fields}) = UNION {PathsOf(errors(i)) : i \in DOMAIN fields}
  BY DEF PathsOf
<1>5. PathsOf(FieldErrors(fields, g)) = UNION {under(i) : i \in DOMAIN fields}
  BY <1>2, <1>3, <1>4
<1> QED BY <1>5 DEF under, g

LEMMA ObjectFields ==
    ASSUME Unfolds, NEW fields, NEW o, NEW a, \A i \in DOMAIN fields : AlikeField(fields[i], o),
           \A i \in DOMAIN fields : i \in DOMAIN a /\ a[i] = TsField(IrField(fields[i]), o),
           NEW x, Fits(Object(a, "any"), x), Ordinary(x)
    PROVE  \E D, f : x = Obj(f) /\ AlikeFields(fields, o, f, D)
<1>1. PICK D, f : x = Obj(f) /\ On(f, D)
  BY ObjectAt
<1>2. \A i \in DOMAIN a : IF a[i].name \in D THEN Fits(a[i].view, f[a[i].name]) ELSE ~a[i].required
  BY <1>1, ObjFits
<1>3. \A m \in D : Ordinary(f[m])
  BY <1>1, ObjValues
<1>4. ASSUME NEW i \in DOMAIN fields
      PROVE  fields[i].wire \in D /\ Fits(TsType(fields[i].ty, o), f[fields[i].wire])
  <2> DEFINE g == IrField(fields[i])
  <2>1. AlikeField(fields[i], o) /\ i \in DOMAIN a /\ a[i] = TsField(g, o)
    OBVIOUS
  <2>2. ~g.optional /\ ~g.undefined /\ g.name = fields[i].wire
    BY <2>1 DEF AlikeField, Present, SerdeField
  <2>3. g.ty = fields[i].ty
    BY DEF IrField
  <2> HIDE DEF g
  <2>4. a[i].name = fields[i].wire /\ a[i].required
    BY <2>1, <2>2, TsFieldIs
  <2>5. fields[i].wire \in D /\ Fits(a[i].view, f[fields[i].wire])
    BY <1>2, <2>1, <2>4
  <2>6. Fits(TsType(g.ty, o), f[fields[i].wire])
    BY <2>1, <2>2, <2>5, TsFieldIs
  <2> QED BY <2>3, <2>5, <2>6
<1>5. AlikeFields(fields, o, f, D)
  BY <1>1, <1>3, <1>4 DEF AlikeFields
<1> QED BY <1>1, <1>5

\* An object of the fields, and of parts that are checked on neither side.
ObjectOf(fields, o, a, b, x) ==
    /\ \A i \in DOMAIN fields :
          /\ AlikeField(fields[i], o)
          /\ i \in DOMAIN a /\ a[i] = TsField(IrField(fields[i]), o)
          /\ i \in DOMAIN b /\ b[i] = SchemaField(IrField(fields[i]), o)
    /\ Differ(b)
    /\ Fits(Object(a, "any"), x) /\ Ordinary(x)
    /\ \A i \in DOMAIN b \ DOMAIN fields :
          b[i].name \in DOMAIN x.o /\ Fits(b[i].view, x.o[b[i].name]) /\ Clean(b[i].view)

LEMMA ObjectAdmitted ==
    ASSUME Unfolds, NEW fields, NEW o, NEW a, NEW b, NEW x, ObjectOf(fields, o, a, b, x)
    PROVE  /\ FieldErrors(fields, Json(x).o) = {} => Fits(Object(b, "any"), x)
           /\ Fits(Object(b, "any"), x) =>
                 FieldErrors(fields, Json(Through(Object(b, "any"), x)).o) = {}
<1>1. PICK D, f : x = Obj(f) /\ AlikeFields(fields, o, f, D)
  BY ObjectFields DEF ObjectOf
<1>2. On(f, D) /\ x.o = f /\ DOMAIN f = D
  BY <1>1, ObjIs DEF AlikeFields
<1>3. ASSUME FieldErrors(fields, Json(x).o) = {} PROVE Fits(Object(b, "any"), x)
  <2>1. \A i \in DOMAIN fields : Fits(FieldView(fields[i], o), f[fields[i].wire])
    BY <1>1, <1>3, ObjectErrors
  <2>2. ASSUME NEW i \in DOMAIN b PROVE b[i].name \in D /\ Fits(b[i].view, f[b[i].name])
    <3>1. CASE i \in DOMAIN fields
      <4>1. b[i] = SchemaField(IrField(fields[i]), o) /\ SerdeField(fields[i])
        BY <3>1 DEF ObjectOf, AlikeField
      <4>2. b[i].name = fields[i].wire /\ b[i].view = FieldView(fields[i], o)
        BY <4>1, SchemaFieldIs DEF SerdeField, FieldView
      <4>3. fields[i].wire \in D
        BY <1>1, <3>1 DEF AlikeFields
      <4> QED BY <2>1, <3>1, <4>2, <4>3
    <3>2. CASE i \notin DOMAIN fields
      BY <1>2, <3>2 DEF ObjectOf
    <3> QED BY <3>1, <3>2
  <2>3. Fits(Object(b, "any"), Obj(f))
    BY <1>2, <2>2, ObjFits
  <2> QED BY <1>1, <2>3
<1>4. ASSUME Fits(Object(b, "any"), x)
      PROVE  FieldErrors(fields, Json(Through(Object(b, "any"), x)).o) = {}
  BY <1>1, <1>4, ParsedFields DEF ObjectOf
<1> QED BY <1>3, <1>4

LEMMA ObjectNamed ==
    ASSUME Unfolds, NEW fields, NEW o, NEW a, NEW b, NEW x, ObjectOf(fields, o, a, b, x),
           \A i \in DOMAIN fields : fields[i].wire = fields[i].ident
    PROVE  Issues(Object(b, "any"), x) = PathsOf(FieldErrors(fields, Json(x).o))
<1>1. PICK D, f : x = Obj(f) /\ AlikeFields(fields, o, f, D)
  BY ObjectFields DEF ObjectOf
<1>2. On(f, D) /\ x.o = f /\ DOMAIN f = D /\ x.j = "obj"
  BY <1>1, ObjIs DEF AlikeFields
<1> DEFINE under(i) == UnderKey(b[i].name, Issues(b[i].view, f[b[i].name]))
           wrong(i) == UnderKey(fields[i].wire, Issues(FieldView(fields[i], o), f[fields[i].wire]))
<1>3. ASSUME NEW i \in DOMAIN fields
      PROVE  i \in DOMAIN b /\ b[i].name \in D /\ under(i) = wrong(i)
  <2>1. i \in DOMAIN b /\ b[i] = SchemaField(IrField(fields[i]), o) /\ SerdeField(fields[i])
    BY DEF ObjectOf, AlikeField
  <2>2. b[i].name = fields[i].wire /\ b[i].view = FieldView(fields[i], o)
    BY <2>1, SchemaFieldIs DEF SerdeField, FieldView
  <2>3. fields[i].wire \in D
    BY <1>1 DEF AlikeFields
  <2> QED BY <2>1, <2>2, <2>3
<1>4. ASSUME NEW i \in DOMAIN b \ DOMAIN fields
      PROVE  b[i].name \in D /\ under(i) = {}
  <2>1. b[i].name \in D /\ Issues(b[i].view, f[b[i].name]) = {}
    BY <1>2 DEF ObjectOf, Clean
  <2> QED BY <2>1, NoneUnder
<1>5. \A i \in DOMAIN b : b[i].name \in DOMAIN x.o
  BY <1>2, <1>3, <1>4
<1>6. Issues(Object(b, "any"), x) =
        UNION {UnderKey(b[i].name, Issues(b[i].view, x.o[b[i].name])) : i \in DOMAIN b}
  BY <1>2, <1>5, IssuesObject
<1>7. PathsOf(FieldErrors(fields, Json(Obj(f)).o)) = UNION {wrong(i) : i \in DOMAIN fields}
  BY <1>1, FieldPaths
<1>8. Issues(Object(b, "any"), x) = UNION {under(i) : i \in DOMAIN b}
  BY <1>2, <1>6
<1> HIDE DEF under, wrong
<1>9. UNION {under(i) : i \in DOMAIN b} = UNION {wrong(i) : i \in DOMAIN fields}
  BY <1>3, <1>4
<1> QED BY <1>1, <1>7, <1>8, <1>9

-----------------------------------------------------------------------------
(* The checks of a type.                                                   *)

\* The schema refuses what the server would refuse and lets nothing else
\* through; the issues and the errors have the same paths.
Agrees(t, o) ==
    \A x : Fits(TsType(t, o), x) /\ Ordinary(x) =>
        /\ Errors(t, Json(x)) = {} => Fits(Schema(t, o), x)
        /\ Fits(Schema(t, o), x) => Errors(t, Json(Through(Schema(t, o), x))) = {}
Named(t, o) ==
    \A x : Fits(TsType(t, o), x) /\ Ordinary(x) =>
        Issues(Schema(t, o), x) = PathsOf(Errors(t, Json(x)))

\* A type that neither side looks into.
LEMMA OpenAgrees ==
    ASSUME Unfolds, NEW t, t.k \in {"prim", "array", "tupleStruct"}, NEW o, Open(t, o),
           Clean(Schema(t, o))
    PROVE  Agrees(t, o) /\ Named(t, o)
<1>1. \A x : Errors(t, x) = {}
  BY ErrorsAre
<1>2. PathsOf({}) = {}
  BY DEF PathsOf
<1>3. Agrees(t, o)
  BY <1>1 DEF Agrees, Open, Within
<1> QED BY <1>1, <1>2, <1>3 DEF Named, Open, Within, Clean

LEMMA OptionAgrees ==
    ASSUME Unfolds, NEW t, t.k = "option", NEW o, Defined(TsType(t.of, o))
    PROVE  /\ Agrees(t.of, o) => Agrees(t, o)
           /\ Named(t.of, o) => Named(t, o)
<1> DEFINE a == TsType(t.of, o)
           b == Schema(t.of, o)
<1>1. TsType(t, o) = Nullable(a) /\ Schema(t, o) = Nullable(b)
  BY TsReads, SchemaReads
<1> HIDE DEF a, b
<1>2. \A x : Errors(t, x) = IF x = Null THEN {} ELSE Errors(t.of, x)
  BY ErrorsAre
<1>3. Json(Null) = Null
  BY NullIs
<1>4. Fits(Nullable(b), Null) /\ Through(Nullable(b), Null) = Null /\ Issues(Nullable(b), Null) = {}
  BY FitsViews, ThroughViews, IssuesViews
<1>5. ASSUME NEW x, Fits(Nullable(a), x), Ordinary(x), x # Null
      PROVE  /\ Fits(a, x) /\ Errors(t, Json(x)) = Errors(t.of, Json(x))
             /\ Fits(Nullable(b), x) <=> Fits(b, x)
             /\ Through(Nullable(b), x) = Through(b, x) /\ Issues(Nullable(b), x) = Issues(b, x)
  <2>1. Fits(a, x) /\ (Fits(Nullable(b), x) <=> Fits(b, x))
    BY <1>5, FitsViews
  <2>2. x.j # "undef"
    BY <2>1 DEF Defined, a
  <2>3. Json(x) # Null
    BY <1>5, <2>2, NotNull
  <2>4. Through(Nullable(b), x) = Through(b, x) /\ Issues(Nullable(b), x) = Issues(b, x)
    BY <1>5, ThroughViews, IssuesViews
  <2> QED BY <1>2, <2>1, <2>3, <2>4
<1>6. PathsOf({}) = {}
  BY DEF PathsOf
<1>7. ASSUME Agrees(t.of, o) PROVE Agrees(t, o)
  <2> SUFFICES ASSUME NEW x, Fits(Nullable(a), x), Ordinary(x)
               PROVE  /\ Errors(t, Json(x)) = {} => Fits(Nullable(b), x)
                      /\ Fits(Nullable(b), x) => Errors(t, Json(Through(Nullable(b), x))) = {}
    BY <1>1 DEF Agrees
  <2>1. CASE x = Null
    BY <1>2, <1>3, <1>4, <2>1
  <2>2. CASE x # Null
    BY <1>2, <1>5, <1>7, <2>2 DEF Agrees, a, b
  <2> QED BY <2>1, <2>2
<1>8. ASSUME Named(t.of, o) PROVE Named(t, o)
  <2> SUFFICES ASSUME NEW x, Fits(Nullable(a), x), Ordinary(x)
               PROVE  Issues(Nullable(b), x) = PathsOf(Errors(t, Json(x)))
    BY <1>1 DEF Named
  <2>1. CASE x = Null
    BY <1>2, <1>3, <1>4, <1>6, <2>1
  <2>2. CASE x # Null
    BY <1>5, <1>8, <2>2 DEF Named, a, b
  <2> QED BY <2>1, <2>2
<1> QED BY <1>7, <1>8

LEMMA AtIs ==
    ASSUME NEW i, NEW E
    PROVE  (At(i, E) = {} <=> E = {}) /\ PathsOf(At(i, E)) = UnderKey(i, PathsOf(E))
<1>1. At(i, E) = {} <=> E = {}
  BY DEF At
<1>2. \A p, k : <<p, k>>[1] = p
  OBVIOUS
<1>3. ASSUME NEW e \in E PROVE (<<i>> \o e[1]) \in PathsOf(At(i, E))
  <2>1. <<<<i>> \o e[1], e[2]>> \in At(i, E)
    BY DEF At
  <2> QED BY <1>2, <2>1 DEF PathsOf
<1>4. ASSUME NEW d \in At(i, E) PROVE \E e \in E : d[1] = <<i>> \o e[1]
  <2>1. PICK e \in E : d = <<<<i>> \o e[1], e[2]>>
    BY DEF At
  <2>2. d[1] = <<i>> \o e[1]
    BY <1>2, <2>1
  <2> QED BY <2>2
<1>5. PathsOf(At(i, E)) = {<<i>> \o e[1] : e \in E}
  BY <1>3, <1>4 DEF PathsOf
<1>6. UnderKey(i, PathsOf(E)) = {<<i>> \o e[1] : e \in E}
  BY DEF UnderKey, PathsOf
<1> QED BY <1>1, <1>5, <1>6

LEMMA VecErrors ==
    ASSUME Unfolds, NEW t, t.k = "vec", NEW n \in Nat, NEW f, On(f, 1..n)
    PROVE  /\ Errors(t, Arr(f)) = UNION {At(i, Errors(t.of, f[i])) : i \in 1..n}
           /\ Errors(t, Arr(f)) = {} <=> \A i \in 1..n : Errors(t.of, f[i]) = {}
<1> DEFINE E(i) == At(i, Errors(t.of, f[i]))
<1>1. Arr(f).a = f /\ DOMAIN f = 1..n
  BY ArrIs
<1>2. Errors(t, Arr(f)) = UNION {E(i) : i \in 1..n}
  BY <1>1, ErrorsAre
<1>3. \A i \in 1..n : E(i) = {} <=> Errors(t.of, f[i]) = {}
  BY AtIs
<1> HIDE DEF E
<1>4. Errors(t, Arr(f)) = {} <=> \A i \in 1..n : E(i) = {}
  BY <1>2
<1>5. Errors(t, Arr(f)) = {} <=> \A i \in 1..n : Errors(t.of, f[i]) = {}
  BY <1>3, <1>4
<1> QED BY <1>2, <1>5 DEF E

LEMMA VecAgrees ==
    ASSUME Unfolds, NEW t, t.k = "vec", NEW o
    PROVE  /\ Agrees(t.of, o) => Agrees(t, o)
           /\ Named(t.of, o) => Named(t, o)
<1> DEFINE a == TsType(t.of, o)
           b == Schema(t.of, o)
<1>1. TsType(t, o) = ArrayOf(a) /\ Schema(t, o) = ArrayOf(b)
  BY TsReads, SchemaReads
<1>2. ASSUME NEW x, Fits(ArrayOf(a), x), Ordinary(x)
      PROVE  \E n \in Nat : \E f : /\ x = Arr(f) /\ On(f, 1..n)
                                   /\ \A i \in 1..n : Fits(a, f[i]) /\ Ordinary(f[i])
  <2>1. PICK n \in Nat : \E f : x = Arr(f) /\ On(f, 1..n)
    BY <1>2, ArrAt
  <2>2. PICK f : x = Arr(f) /\ On(f, 1..n)
    BY <2>1
  <2>3. \A i \in 1..n : Fits(a, f[i]) /\ Ordinary(f[i])
    BY <1>2, <2>2, ArrFits, ArrValues
  <2> QED BY <2>2, <2>3
<1> HIDE DEF a, b
<1>3. ASSUME Agrees(t.of, o), NEW n \in Nat, NEW f, On(f, 1..n),
             \A i \in 1..n : Fits(a, f[i]) /\ Ordinary(f[i])
      PROVE  /\ Errors(t, Json(Arr(f))) = {} => Fits(ArrayOf(b), Arr(f))
             /\ Fits(ArrayOf(b), Arr(f)) => Errors(t, Json(Through(ArrayOf(b), Arr(f)))) = {}
  <2> DEFINE g == [i \in 1..n |-> Json(f[i])]
             h == [i \in 1..n |-> Through(b, f[i])]
             k == [i \in 1..n |-> Json(h[i])]
  <2>1. On(g, 1..n) /\ On(h, 1..n) /\ On(k, 1..n)
    BY DEF On
  <2>2. Json(Arr(f)) = Arr(g)
    BY <1>3, ArrValues
  <2>3. Through(ArrayOf(b), Arr(f)) = Arr(h)
    BY <1>3, ArrThrough
  <2>4. \A i \in 1..n : g[i] = Json(f[i]) /\ h[i] = Through(b, f[i]) /\ k[i] = Json(h[i])
    OBVIOUS
  <2> HIDE DEF g, h
  <2>5. Json(Arr(h)) = Arr(k)
    BY <2>1, ArrValues
  <2> HIDE DEF k
  <2>6. \A i \in 1..n : /\ Errors(t.of, g[i]) = {} => Fits(b, f[i])
                        /\ Fits(b, f[i]) => Errors(t.of, k[i]) = {}
    BY <1>3, <2>4 DEF Agrees, a, b
  <2>7. Fits(ArrayOf(b), Arr(f)) <=> \A i \in 1..n : Fits(b, f[i])
    BY <1>3, ArrFits
  <2>8. Errors(t, Arr(g)) = {} <=> \A i \in 1..n : Errors(t.of, g[i]) = {}
    BY <2>1, VecErrors
  <2>9. Errors(t, Arr(k)) = {} <=> \A i \in 1..n : Errors(t.of, k[i]) = {}
    BY <2>1, VecErrors
  <2> QED BY <2>2, <2>3, <2>5, <2>6, <2>7, <2>8, <2>9
<1>4. ASSUME Named(t.of, o), NEW n \in Nat, NEW f, On(f, 1..n),
             \A i \in 1..n : Fits(a, f[i]) /\ Ordinary(f[i])
      PROVE  Issues(ArrayOf(b), Arr(f)) = PathsOf(Errors(t, Json(Arr(f))))
  <2> DEFINE g == [i \in 1..n |-> Json(f[i])]
             E(i) == At(i, Errors(t.of, g[i]))
  <2>1. On(g, 1..n) /\ Json(Arr(f)) = Arr(g) /\ \A i \in 1..n : g[i] = Json(f[i])
    BY <1>4, ArrValues DEF On
  <2> HIDE DEF g
  <2>2. \A i \in 1..n : Issues(b, f[i]) = PathsOf(Errors(t.of, g[i]))
    BY <1>4, <2>1 DEF Named, a, b
  <2>3. \A i : PathsOf(E(i)) = UnderKey(i, PathsOf(Errors(t.of, g[i])))
    BY AtIs
  <2>4. Errors(t, Arr(g)) = UNION {E(i) : i \in 1..n}
    BY <2>1, VecErrors
  <2>5. Arr(f).j = "arr" /\ Arr(f).a = f /\ DOMAIN f = 1..n
    BY <1>4, ArrIs
  <2>6. Issues(ArrayOf(b), Arr(f)) = UNION {UnderKey(i, Issues(b, f[i])) : i \in 1..n}
    BY <2>5, IssuesViews
  <2> HIDE DEF E
  <2>7. PathsOf(UNION {E(i) : i \in 1..n}) = UNION {PathsOf(E(i)) : i \in 1..n}
    BY DEF PathsOf
  <2> QED BY <2>1, <2>2, <2>3, <2>4, <2>6, <2>7
<1>5. ASSUME Agrees(t.of, o) PROVE Agrees(t, o)
  BY <1>1, <1>2, <1>3, <1>5 DEF Agrees
<1>6. ASSUME Named(t.of, o) PROVE Named(t, o)
  BY <1>1, <1>2, <1>4, <1>6 DEF Named
<1> QED BY <1>5, <1>6

LEMMA MapErrors ==
    ASSUME Unfolds, NEW t, t.k = "map", NEW D, NEW f, On(f, D)
    PROVE  Errors(t, Obj(f)) = {} <=> \A m \in D : Errors(t.of, f[m]) = {}
<1> DEFINE E(m) == Errors(t.of, f[m])
<1>1. Obj(f).o = f /\ DOMAIN f = D
  BY ObjIs
<1>2. Errors(t, Obj(f)) = UNION {E(m) : m \in D}
  BY <1>1, ErrorsAre
<1> HIDE DEF E
<1>3. Errors(t, Obj(f)) = {} <=> \A m \in D : E(m) = {}
  BY <1>2
<1> QED BY <1>3 DEF E

LEMMA MapAgrees ==
    ASSUME Unfolds, NEW t, NEW o, PlainIn(t, o), t.k = "map", Defined(TsType(t.of, o)),
           Agrees(t.of, o)
    PROVE  Agrees(t, o)
<1> DEFINE a == TsType(t.of, o)
           b == Schema(t.of, o)
<1>1. TsType(t, o) = RecordOf(a) /\ Schema(t, o) = RecordOf(b)
  BY PlainHas, TsReads, SchemaReads
<1> SUFFICES ASSUME NEW x, Fits(RecordOf(a), x), Ordinary(x)
             PROVE  /\ Errors(t, Json(x)) = {} => Fits(RecordOf(b), x)
                    /\ Fits(RecordOf(b), x) => Errors(t, Json(Through(RecordOf(b), x))) = {}
  BY <1>1 DEF Agrees
<1>2. PICK D, f : x = Obj(f) /\ On(f, D)
  BY RecordAt
<1>3. \A m \in D : Fits(a, f[m]) /\ Ordinary(f[m])
  BY <1>2, ObjFits, ObjValues
<1>4. \A m \in D : f[m].j # "undef"
  BY <1>3 DEF Defined
<1> DEFINE E == {m \in D : f[m].j # "undef"}
           g == [m \in E |-> Json(f[m])]
           h == [m \in D |-> Through(b, f[m])]
           F == {m \in D : h[m].j # "undef"}
           k == [m \in F |-> Json(h[m])]
<1>5. On(g, E) /\ On(h, D) /\ On(k, F) /\ E = D /\ F \subseteq D
  BY <1>4 DEF On
<1>6. (\A m \in E : g[m] = Json(f[m])) /\ (\A m \in D : h[m] = Through(b, f[m]))
      /\ \A m \in F : k[m] = Json(h[m])
  OBVIOUS
<1>7. Json(x) = Obj(g)
  BY <1>2, ObjValues
<1>8. Through(RecordOf(b), x) = Obj(h)
  BY <1>2, ObjThrough
<1> HIDE DEF g, h, E
<1>9. Json(Obj(h)) = Obj(k)
  BY <1>5, ObjValues
<1> HIDE DEF k, F
<1>10. \A m \in D : /\ Errors(t.of, Json(f[m])) = {} => Fits(b, f[m])
                    /\ Fits(b, f[m]) => Errors(t.of, Json(Through(b, f[m]))) = {}
  BY <1>3 DEF Agrees
<1>11. Fits(RecordOf(b), x) <=> \A m \in D : Fits(b, f[m])
  BY <1>2, ObjFits
<1> HIDE DEF a, b
<1>12. Errors(t, Obj(g)) = {} <=> \A m \in E : Errors(t.of, g[m]) = {}
  BY <1>5, MapErrors
<1>13. Errors(t, Obj(k)) = {} <=> \A m \in F : Errors(t.of, k[m]) = {}
  BY <1>5, MapErrors
<1>14. Errors(t, Json(x)) = {} => Fits(RecordOf(b), x)
  BY <1>5, <1>6, <1>7, <1>10, <1>11, <1>12
<1>15. ASSUME Fits(RecordOf(b), x) PROVE Errors(t, Json(Through(RecordOf(b), x))) = {}
  <2>1. \A m \in F : Errors(t.of, k[m]) = {}
    BY <1>5, <1>6, <1>10, <1>11, <1>15
  <2> QED BY <1>8, <1>9, <1>13, <2>1
<1> QED BY <1>14, <1>15

LEMMA TupleErrors ==
    ASSUME Unfolds, NEW t, t.k = "tuple", NEW n \in Nat, NEW f, On(f, 1..n)
    PROVE  Errors(t, Arr(f)) = {} <=> \A i \in 1..n : Errors(t.elems[i], f[i]) = {}
<1> DEFINE E(i) == Errors(t.elems[i], f[i])
<1>1. Arr(f).a = f /\ DOMAIN f = 1..n
  BY ArrIs
<1>2. Errors(t, Arr(f)) = UNION {E(i) : i \in 1..n}
  BY <1>1, ErrorsAre
<1> HIDE DEF E
<1>3. Errors(t, Arr(f)) = {} <=> \A i \in 1..n : E(i) = {}
  BY <1>2
<1> QED BY <1>3 DEF E

LEMMA TupleAgrees ==
    ASSUME Unfolds, NEW t, NEW o, PlainIn(t, o), t.k = "tuple",
           \A p \in ToSet(t.elems) : Agrees(p, o)
    PROVE  Agrees(t, o)
<1> DEFINE n == Len(t.elems)
           a == [i \in DOMAIN t.elems |-> TsType(t.elems[i], o)]
           b == [i \in DOMAIN t.elems |-> Schema(t.elems[i], o)]
<1>1. t.elems # <<>> /\ ListOf(t.elems)
  BY PlainHas
<1>2. n \in Nat /\ DOMAIN t.elems = 1..n /\ \A i \in 1..n : Agrees(t.elems[i], o)
  BY <1>1, ListIs
<1>3. TsType(t, o) = Fixed(a) /\ Schema(t, o) = Fixed(b)
  <2>1. TsTuple(t.elems, o) = TsFixed(t.elems, o) /\ SchemaTuple(t.elems, o) = SchemaFixed(t.elems, o)
    BY <1>1, TuplesAre
  <2>2. TsType(t, o) = TsTuple(t.elems, o) /\ Schema(t, o) = SchemaTuple(t.elems, o)
    BY TsReads, SchemaReads
  <2>3. TsFixed(t.elems, o) = Fixed(a) /\ SchemaFixed(t.elems, o) = Fixed(b)
    BY DEF TsFixed, SchemaFixed
  <2> HIDE DEF a, b
  <2> QED BY <2>1, <2>2, <2>3
<1>4. /\ Len(a) = n /\ Len(b) = n
      /\ \A i \in 1..n : a[i] = TsType(t.elems[i], o) /\ b[i] = Schema(t.elems[i], o)
  BY <1>2
<1> HIDE DEF n, a, b
<1> SUFFICES ASSUME NEW x, Fits(Fixed(a), x), Ordinary(x)
             PROVE  /\ Errors(t, Json(x)) = {} => Fits(Fixed(b), x)
                    /\ Fits(Fixed(b), x) => Errors(t, Json(Through(Fixed(b), x))) = {}
  BY <1>3 DEF Agrees
<1>5. PICK l \in Nat : \E f : x = Arr(f) /\ On(f, 1..l)
  BY ArrAt
<1>6. PICK f : x = Arr(f) /\ On(f, 1..l)
  BY <1>5
<1>7. l = n /\ \A i \in 1..n : Fits(a[i], f[i])
  BY <1>4, <1>6, ArrFits
<1>8. \A i \in 1..n : Ordinary(f[i])
  BY <1>6, <1>7, ArrValues
<1> DEFINE g == [i \in 1..n |-> Json(f[i])]
           h == [i \in 1..n |-> Through(b[i], f[i])]
           k == [i \in 1..n |-> Json(h[i])]
<1>9. On(g, 1..n) /\ On(h, 1..n) /\ On(k, 1..n)
  BY DEF On
<1>10. \A i \in 1..n : g[i] = Json(f[i]) /\ h[i] = Through(b[i], f[i]) /\ k[i] = Json(h[i])
  OBVIOUS
<1>11. Json(x) = Arr(g)
  BY <1>6, <1>7, ArrValues
<1>12. Through(Fixed(b), x) = Arr(h)
  BY <1>6, <1>7, ArrThrough
<1> HIDE DEF g, h
<1>13. Json(Arr(h)) = Arr(k)
  BY <1>2, <1>9, ArrValues
<1> HIDE DEF k
<1>14. \A i \in 1..n : /\ Errors(t.elems[i], g[i]) = {} => Fits(b[i], f[i])
                       /\ Fits(b[i], f[i]) => Errors(t.elems[i], k[i]) = {}
  BY <1>2, <1>4, <1>7, <1>8, <1>10 DEF Agrees
<1>15. Fits(Fixed(b), x) <=> \A i \in 1..n : Fits(b[i], f[i])
  BY <1>4, <1>6, <1>7, ArrFits
<1>16. Errors(t, Arr(g)) = {} <=> \A i \in 1..n : Errors(t.elems[i], g[i]) = {}
  BY <1>2, <1>9, TupleErrors
<1>17. Errors(t, Arr(k)) = {} <=> \A i \in 1..n : Errors(t.elems[i], k[i]) = {}
  BY <1>2, <1>9, TupleErrors
<1> QED BY <1>11, <1>12, <1>13, <1>14, <1>15, <1>16, <1>17

LEMMA StructAgrees ==
    ASSUME Unfolds, NEW t, NEW o, PlainIn(t, o), t.k = "struct",
           \A f \in FieldsOf(t) : AlikeField(f, o)
    PROVE  /\ Agrees(t, o)
           /\ (\A f \in FieldsOf(t) : f.wire = f.ident) => Named(t, o)
<1> DEFINE a == TsFields(IrFields(t.fields), o)
           b == SchemaFields(IrFields(t.fields), o)
<1>1. TsType(t, o) = Object(a, "any") /\ Schema(t, o) = Object(b, "any")
  BY TsReads, SchemaReads DEF TsStruct, SchemaStruct
<1>2. ListOf(t.fields) /\ FieldsOf(t) = ToSet(t.fields)
  BY PlainHas DEF FieldsOf
<1>3. \A i \in DOMAIN t.fields : t.fields[i] \in FieldsOf(t)
  BY <1>2, ListIs
<1>4. /\ DOMAIN a = DOMAIN t.fields /\ DOMAIN b = DOMAIN t.fields
      /\ \A i \in DOMAIN t.fields : /\ a[i] = TsField(IrField(t.fields[i]), o)
                                    /\ b[i] = SchemaField(IrField(t.fields[i]), o)
  BY FieldPartsAre
<1>5. Differ(a) /\ Aligned(a, b)
  BY NamesApart, FieldsAligned DEF PlainIn
<1> HIDE DEF a, b
<1>6. Differ(b)
  BY <1>5 DEF Differ, Aligned
<1>7. ASSUME NEW x, Fits(Object(a, "any"), x), Ordinary(x)
      PROVE  ObjectOf(t.fields, o, a, b, x)
  BY <1>3, <1>4, <1>6, <1>7 DEF ObjectOf
<1>8. \A x : Errors(t, x) = FieldErrors(t.fields, x.o)
  BY ErrorsAre
<1>9. Agrees(t, o)
  BY <1>1, <1>7, <1>8, ObjectAdmitted DEF Agrees
<1>10. ASSUME \A f \in FieldsOf(t) : f.wire = f.ident PROVE Named(t, o)
  BY <1>1, <1>3, <1>7, <1>8, <1>10, ObjectNamed DEF Named
<1> QED BY <1>9, <1>10

\* The server knows a variant by its tag, and looks only into its named fields.
LEMMA VariantErrors ==
    ASSUME Unfolds, NEW t, NEW o, PlainIn(t, o), t.k = "enum", NEW k \in DOMAIN t.variants,
           NEW y, Fits(SerdeVariant(t, t.variants[k], "in"), y)
    PROVE  Errors(t, y) = IF t.variants[k].payload = "struct"
                          THEN FieldErrors(t.variants[k].fields, y.o) ELSE {}
<1>1. ASSUME NEW i \in DOMAIN t.variants, Fits(SerdeVariant(t, t.variants[i], "in"), y)
      PROVE  i = k
  <2> DEFINE v == t.variants[i]
             w == t.variants[k]
  <2>1. VariantIs(v) /\ PlainVariant(t, v) /\ VariantIs(w) /\ PlainVariant(t, w)
    BY PlainHas
  <2>2. v.ident = w.ident => i = k
    BY NamesApart DEF PlainIn
  <2>3. Fits(SerdeVariant(t, v, "in"), y) /\ Fits(SerdeVariant(t, w, "in"), y)
    BY <1>1
  <2> HIDE DEF v, w
  <2>4. SerdeVariant(t, v, "in") = Object(Tagged(IrTag(t), v.ident, SerdeBody(v, "in")), KeysTo("in"))
        /\ 0 \notin DOMAIN SerdeBody(v, "in")
    BY <2>1, SerdeVariantIs
  <2>5. SerdeVariant(t, w, "in") = Object(Tagged(IrTag(t), w.ident, SerdeBody(w, "in")), KeysTo("in"))
        /\ 0 \notin DOMAIN SerdeBody(w, "in")
    BY <2>1, SerdeVariantIs
  <2>6. v.ident = w.ident
    BY <2>3, <2>4, <2>5, TagsTell
  <2> QED BY <2>2, <2>6
<1>2. VariantOf(t, y) = t.variants[k]
  BY <1>1 DEF VariantOf
<1>3. PlainVariant(t, t.variants[k])
  BY PlainHas
<1>4. t.variants[k].payload = "struct" => PayloadIn(t, t.variants[k], y) = y.o
  BY <1>3 DEF PlainVariant, PayloadIn
<1> QED BY <1>2, <1>4, ErrorsAre

\* The variants without named fields, neither side looks into.
LEMMA BareVariant ==
    ASSUME Unfolds, NEW t, NEW v, VariantIs(v), PlainVariant(t, v), v.payload # "struct", NEW o,
           \A s \in ToSet(v.elems) : Open(s, o)
    PROVE  Within(TsVariant(IrTag(t), IrVariant(v), o), SchemaVariant(IrTag(t), IrVariant(v), o))
<1> DEFINE a == TsPayload(IrVariant(v), o)
           b == SchemaPayload(IrVariant(v), o)
<1>1. WithinParts(a, b)
  <2>1. CASE v.payload = "tuple"
    <3>1. /\ Len(v.elems) \in Nat /\ DOMAIN v.elems = 1..Len(v.elems)
          /\ \A i \in 1..Len(v.elems) : v.elems[i] \in ToSet(v.elems)
      BY ListIs DEF VariantIs
    <3>2. Within(TsFixed(v.elems, o), SchemaFixed(v.elems, o))
      BY <3>1, TupleOpen
    <3>3. v.elems # <<>>
      BY <2>1, SerdeVariantIs
    <3>4. a = PayloadOf(TsFixed(v.elems, o)) /\ b = PayloadOf(SchemaFixed(v.elems, o))
      BY <2>1, <3>3, PayloadsAre
    <3> HIDE DEF a, b
    <3> QED BY <3>2, <3>4, PayloadClaims
  <2>2. CASE v.payload = "unit"
    <3>1. a = <<>> /\ b = <<>>
      BY <2>2, PayloadsAre
    <3> HIDE DEF a, b
    <3> QED BY <3>1, NoPartsClaims
  <2> QED BY <2>1, <2>2 DEF VariantIs
<1>2. 0 \notin DOMAIN a /\ 0 \notin DOMAIN b
  BY NoTagIn
<1>3. /\ TsVariant(IrTag(t), IrVariant(v), o) = Object(Tagged(IrTag(t), v.ident, a), "any")
      /\ SchemaVariant(IrTag(t), IrVariant(v), o) = Object(Tagged(IrTag(t), v.ident, b), "any")
  BY DEF TsVariant, SchemaVariant, IrVariant
<1> HIDE DEF a, b
<1>4. WithinParts(Tagged(IrTag(t), v.ident, a), Tagged(IrTag(t), v.ident, b))
  BY <1>1, <1>2, TaggedParts
<1> QED BY <1>3, <1>4, WithinClaims

LEMMA TaggedObject ==
    ASSUME Unfolds, NEW fields, NEW o, \A i \in DOMAIN fields : AlikeField(fields[i], o),
           NEW tag, NEW name, NEW a, NEW b, 0 \notin DOMAIN fields,
           DOMAIN a = DOMAIN fields, DOMAIN b = DOMAIN fields,
           \A i \in DOMAIN fields : /\ a[i] = TsField(IrField(fields[i]), o)
                                    /\ b[i] = SchemaField(IrField(fields[i]), o),
           Aligned(a, b), Differ(Tagged(tag, name, a)),
           NEW x, Fits(Object(Tagged(tag, name, a), "any"), x), Ordinary(x)
    PROVE  ObjectOf(fields, o, Tagged(tag, name, a), Tagged(tag, name, b), x)
<1> DEFINE ta == Tagged(tag, name, a)
           tb == Tagged(tag, name, b)
<1>1. /\ DOMAIN ta = {0} \cup DOMAIN fields /\ \A i \in DOMAIN fields : ta[i] = a[i]
      /\ DOMAIN tb = {0} \cup DOMAIN fields /\ \A i \in DOMAIN fields : tb[i] = b[i]
      /\ tb[0] = Part(tag, Literal(name), TRUE)
  BY DEF Tagged
<1>2. tb[0].name = tag /\ tb[0].view = Literal(name)
  BY <1>1 DEF Part
<1>3. Aligned(ta, tb)
  BY TaggedParts
<1>4. tag \in DOMAIN x.o /\ x.o[tag] = Str(name)
  BY TagIs
<1>5. Fits(Literal(name), x.o[tag]) /\ Clean(Literal(name))
  BY <1>4, FitsViews, LeafClean
<1>6. Fits(Object(ta, "any"), x)
  OBVIOUS
<1>7. Differ(tb)
  <2>1. Differ(ta)
    OBVIOUS
  <2> HIDE DEF ta, tb
  <2> QED BY <1>3, <2>1 DEF Differ, Aligned
<1> HIDE DEF ta, tb
<1>8. \A i \in DOMAIN tb \ DOMAIN fields : i = 0
  BY <1>1
<1>9. ObjectOf(fields, o, ta, tb, x)
  BY <1>1, <1>2, <1>4, <1>5, <1>6, <1>7, <1>8 DEF ObjectOf
<1> QED BY <1>9 DEF ta, tb

LEMMA VariantObject ==
    ASSUME Unfolds, NEW v, VariantIs(v), v.payload = "struct", NEW o, NEW tag,
           \A f \in ToSet(v.fields) : AlikeField(f, o),
           Differ(Tagged(tag, v.ident, TsPayload(IrVariant(v), o))),
           NEW x, Fits(TsVariant(tag, IrVariant(v), o), x), Ordinary(x)
    PROVE  \E a, b : /\ ObjectOf(v.fields, o, a, b, x)
                     /\ SchemaVariant(tag, IrVariant(v), o) = Object(b, "any")
<1> DEFINE a == TsFields(IrFields(v.fields), o)
           b == SchemaFields(IrFields(v.fields), o)
<1>1. TsPayload(IrVariant(v), o) = a /\ SchemaPayload(IrVariant(v), o) = b
  BY PayloadsAre
<1>2. /\ TsVariant(tag, IrVariant(v), o) = Object(Tagged(tag, v.ident, a), "any")
      /\ SchemaVariant(tag, IrVariant(v), o) = Object(Tagged(tag, v.ident, b), "any")
  BY <1>1 DEF TsVariant, SchemaVariant, IrVariant
<1>3. /\ DOMAIN a = DOMAIN v.fields /\ DOMAIN b = DOMAIN v.fields
      /\ \A i \in DOMAIN v.fields : /\ a[i] = TsField(IrField(v.fields[i]), o)
                                    /\ b[i] = SchemaField(IrField(v.fields[i]), o)
  BY FieldPartsAre
<1>4. 0 \notin DOMAIN v.fields /\ \A i \in DOMAIN v.fields : v.fields[i] \in ToSet(v.fields)
  BY ListIs, VariantParts DEF VariantIs
<1>5. Aligned(a, b)
  BY FieldsAligned
<1>6. Differ(Tagged(tag, v.ident, a)) /\ Fits(Object(Tagged(tag, v.ident, a), "any"), x)
  BY <1>1, <1>2
<1> HIDE DEF a, b
<1>7. ObjectOf(v.fields, o, Tagged(tag, v.ident, a), Tagged(tag, v.ident, b), x)
  BY <1>3, <1>4, <1>5, <1>6, TaggedObject
<1> QED BY <1>2, <1>7

\* What the type t asks of its parts.
AlikeParts(t, o) ==
    /\ \A f \in FieldsOf(t) : AlikeField(f, o)
    /\ \A p \in PartsOf(t) : TakenType(p, o) /\ SoundType(p, o) /\ Clean(Schema(p, o))
    /\ \A p \in Unchecked(t) : Open(p, o)

LEMMA VariantAgrees ==
    ASSUME Unfolds, NEW t, NEW o, PlainIn(t, o), t.k = "enum", AlikeParts(t, o),
           NEW k \in DOMAIN t.variants, NEW x, Ordinary(x),
           Fits(TsVariant(IrTag(t), IrVariant(t.variants[k]), o), x)
    PROVE  LET w == SchemaVariant(IrTag(t), IrVariant(t.variants[k]), o) IN
           /\ Errors(t, Json(x)) = {} => Fits(w, x)
           /\ Fits(w, x) => Errors(t, Json(Through(w, x))) = {}
           /\ (\A f \in FieldsOf(t) : f.wire = f.ident) =>
                 Issues(w, x) = PathsOf(Errors(t, Json(x)))
<1> DEFINE v == t.variants[k]
           u == TsVariant(IrTag(t), IrVariant(v), o)
           w == SchemaVariant(IrTag(t), IrVariant(v), o)
           c == SerdeVariant(t, v, "in")
<1>1. /\ v \in ToSet(t.variants) /\ VariantIs(v) /\ PlainVariant(t, v)
      /\ \A f \in ToSet(v.fields) : SerdeField(f)
  BY PlainHas
<1>2. TypesIn(v) \subseteq PartsOf(t)
  BY <1>1, PartsAre
<1>3. ToSet(v.fields) \subseteq FieldsOf(t) /\ ToSet(v.elems) \subseteq Unchecked(t)
  BY <1>1 DEF FieldsOf, Unchecked
<1>4. Differ(Tagged(IrTag(t), v.ident, TsPayload(IrVariant(v), o)))
  BY NamesApart DEF PlainIn
<1>5. \A s \in TypesIn(v) : TakenType(s, o) /\ Sound(TsType(s, o), Schema(s, o)) /\ Clean(Schema(s, o))
  BY <1>2 DEF AlikeParts, SoundType
<1>6. /\ \A f \in ToSet(v.fields) : AlikeField(f, o)
      /\ \A s \in ToSet(v.elems) : Open(s, o)
  BY <1>3 DEF AlikeParts
<1>7. \A y : Fits(c, y) =>
         Errors(t, y) = IF v.payload = "struct" THEN FieldErrors(v.fields, y.o) ELSE {}
  BY VariantErrors
<1>8. Fits(u, x)
  OBVIOUS
<1> HIDE DEF v
<1>9. Tame(u, w) /\ Enters(u, c)
  BY <1>1, <1>4, <1>5, VariantTaken
<1>10. Sound(u, w)
  BY <1>1, <1>4, <1>5, VariantSound
<1>11. Clean(w)
  BY <1>1, <1>5, VariantClean
<1> USE DEF v
<1> HIDE DEF v, u, w, c
<1>12. Fits(c, Json(x))
  BY <1>8, <1>9 DEF Enters
<1>13. Fits(w, x) => Fits(c, Json(Through(w, x)))
  BY <1>8, <1>9, <1>10 DEF Tame, Sound, Enters
<1>14. CASE v.payload = "struct"
  <2>1. PICK a, b : ObjectOf(v.fields, o, a, b, x) /\ w = Object(b, "any")
    BY <1>1, <1>4, <1>6, <1>8, <1>14, VariantObject DEF u, w
  <2>2. /\ FieldErrors(v.fields, Json(x).o) = {} => Fits(w, x)
        /\ Fits(w, x) => FieldErrors(v.fields, Json(Through(w, x)).o) = {}
    BY <2>1, ObjectAdmitted
  <2>3. Errors(t, Json(x)) = FieldErrors(v.fields, Json(x).o)
    BY <1>7, <1>12, <1>14
  <2>4. Fits(w, x) => Errors(t, Json(Through(w, x))) = FieldErrors(v.fields, Json(Through(w, x)).o)
    BY <1>7, <1>13, <1>14
  <2>5. ASSUME \A f \in FieldsOf(t) : f.wire = f.ident
        PROVE  Issues(w, x) = PathsOf(Errors(t, Json(x)))
    <3>1. \A i \in DOMAIN v.fields : v.fields[i].wire = v.fields[i].ident
      BY <1>1, <1>3, <2>5, VariantParts
    <3> QED BY <2>1, <2>3, <3>1, ObjectNamed
  <2> QED BY <2>2, <2>3, <2>4, <2>5 DEF v, w
<1>15. CASE v.payload # "struct"
  <2>1. Within(u, w)
    BY <1>1, <1>6, <1>15, BareVariant DEF u, w
  <2>2. Fits(w, x) /\ Issues(w, x) = {}
    BY <1>8, <1>11, <2>1 DEF Within, Clean
  <2>3. Errors(t, Json(x)) = {} /\ Errors(t, Json(Through(w, x))) = {}
    BY <1>7, <1>12, <1>13, <1>15, <2>2
  <2>4. PathsOf({}) = {}
    BY DEF PathsOf
  <2> QED BY <2>2, <2>3, <2>4 DEF v, w
<1> QED BY <1>14, <1>15

LEMMA EnumAgrees ==
    ASSUME Unfolds, NEW t, NEW o, PlainIn(t, o), t.k = "enum", AlikeParts(t, o)
    PROVE  /\ Agrees(t, o)
           /\ (\A f \in FieldsOf(t) : f.wire = f.ident) => Named(t, o)
<1> DEFINE a == [i \in DOMAIN t.variants |-> TsVariant(IrTag(t), IrVariant(t.variants[i]), o)]
           b == [i \in DOMAIN t.variants |-> SchemaVariant(IrTag(t), IrVariant(t.variants[i]), o)]
<1>1. TsType(t, o) = Union(a)
  BY TsReads DEF TsEnum
<1>2. /\ DOMAIN a = DOMAIN t.variants /\ DOMAIN b = DOMAIN t.variants
      /\ \A i \in DOMAIN t.variants : /\ a[i] = TsVariant(IrTag(t), IrVariant(t.variants[i]), o)
                                      /\ b[i] = SchemaVariant(IrTag(t), IrVariant(t.variants[i]), o)
  OBVIOUS
<1>3. Alone(a, b)
  BY VariantsAlone
<1>4. Schema(t, o) = Union(b) \/ t.variants = <<>>
  BY EnumSchema
<1> HIDE DEF a, b
<1>5. ASSUME NEW x, Fits(TsType(t, o), x), Ordinary(x)
      PROVE  /\ Errors(t, Json(x)) = {} => Fits(Schema(t, o), x)
             /\ Fits(Schema(t, o), x) => Errors(t, Json(Through(Schema(t, o), x))) = {}
             /\ (\A f \in FieldsOf(t) : f.wire = f.ident) =>
                   Issues(Schema(t, o), x) = PathsOf(Errors(t, Json(x)))
  <2>1. PICK k \in DOMAIN t.variants : Fits(a[k], x)
    BY <1>1, <1>2, <1>5, FitsViews
  <2>2. t.variants # <<>>
    <3>1. DOMAIN << >> = {}
      OBVIOUS
    <3> QED BY <2>1, <3>1, Zenon
  <2>3. Schema(t, o) = Union(b)
    BY <1>4, <2>2
  <2>4. /\ Errors(t, Json(x)) = {} => Fits(b[k], x)
        /\ Fits(b[k], x) => Errors(t, Json(Through(b[k], x))) = {}
        /\ (\A f \in FieldsOf(t) : f.wire = f.ident) => Issues(b[k], x) = PathsOf(Errors(t, Json(x)))
    BY <1>2, <1>5, <2>1, VariantAgrees
  <2>5. Errors(t, Json(x)) = {} => Fits(Schema(t, o), x)
    BY <1>2, <2>3, <2>4, FitsViews
  <2>6. ASSUME Fits(Schema(t, o), x) PROVE Errors(t, Json(Through(Schema(t, o), x))) = {}
    <3>1. PICK j \in DOMAIN b : Fits(b[j], x) /\ Through(Union(b), x) = Through(b[j], x)
      BY <2>3, <2>6, MemberIs
    <3>2. j = k
      BY <1>2, <1>3, <2>1, <3>1 DEF Alone
    <3> QED BY <2>3, <2>4, <3>1, <3>2
  <2>7. Issues(Schema(t, o), x) = Issues(b[k], x)
    <3>1. a[k] = Object(Tagged(IrTag(t), t.variants[k].ident, TsPayload(IrVariant(t.variants[k]), o)), "any")
      BY <1>2 DEF TsVariant, IrVariant
    <3>2. IrTag(t) \in DOMAIN x.o /\ x.o[IrTag(t)] = Str(t.variants[k].ident)
      BY <2>1, <3>1, TagIs
    <3>3. x.j = "obj"
      <4>1. \E D, f : x = Obj(f) /\ On(f, D)
        BY <2>1, <3>1, ObjectAt
      <4> QED BY <4>1, ObjIs
    <3> QED BY <1>2, <3>2, <3>3, IssuesVariant
  <2> QED BY <2>4, <2>5, <2>6, <2>7
<1>6. Agrees(t, o)
  BY <1>5 DEF Agrees
<1>7. (\A f \in FieldsOf(t) : f.wire = f.ident) => Named(t, o)
  BY <1>5 DEF Named
<1> QED BY <1>6, <1>7

LEMMA AgreesStep ==
    ASSUME Unfolds, NEW t, NEW o, PlainIn(t, o), AlikeParts(t, o)
    PROVE  /\ (\A p \in PartsOf(t) : Agrees(p, o)) => Agrees(t, o)
           /\ (\A p \in PartsOf(t) : Named(p, o)) /\ t.k \notin {"map", "tuple"}
                /\ (\A f \in FieldsOf(t) : f.wire = f.ident) => Named(t, o)
<1>1. CASE t.k \in {"prim", "array", "tupleStruct"}
  <2>1. Clean(Schema(t, o))
    BY CleanStep DEF AlikeParts
  <2>2. CASE t.k = "prim"
    <3>1. PartsOf(t) = {} /\ FieldsOf(t) = {}
      BY <2>2, PartsAre DEF FieldsOf
    <3>2. Open(t, o)
      BY <3>1, OpenStep DEF Loose
    <3> QED BY <2>1, <2>2, <3>2, OpenAgrees
  <2>3. CASE t.k = "array"
    <3>1. Open(t.of, o)
      BY <2>3 DEF AlikeParts, Unchecked
    <3> QED BY <2>1, <2>3, <3>1, OpenWrapped, OpenAgrees
  <2>4. CASE t.k = "tupleStruct"
    <3>1. \A p \in ToSet(t.elems) : Open(p, o)
      BY <2>4 DEF AlikeParts, Unchecked
    <3> QED BY <2>1, <2>4, <3>1, OpenSequence, OpenAgrees
  <2> QED BY <1>1, <2>2, <2>3, <2>4
<1>2. CASE t.k \in {"option", "vec", "map"}
  <2>1. t.of \in PartsOf(t)
    BY <1>2, PartsAre
  <2>2. Defined(TsType(t.of, o))
    BY <2>1 DEF AlikeParts, TakenType
  <2> QED BY <1>2, <2>1, <2>2, OptionAgrees, VecAgrees, MapAgrees
<1>3. CASE t.k = "tuple"
  BY <1>3, PartsAre, TupleAgrees
<1>4. CASE t.k = "struct"
  BY <1>4, StructAgrees DEF AlikeParts
<1>5. CASE t.k = "enum"
  BY <1>5, EnumAgrees
<1>6. t.k # "unitStruct"
  BY PlainHas
<1> QED BY <1>1, <1>2, <1>3, <1>4, <1>5, <1>6 DEF Typed, PlainIn

LEMMA PartsIn ==
    ASSUME NEW t
    PROVE  /\ Unchecked(t) \subseteq PartsOf(t)
           /\ \A f \in FieldsOf(t) : f.ty \in PartsOf(t)
<1>1. CASE t.k = "struct"
  BY <1>1, PartsAre DEF FieldsOf, Unchecked
<1>2. CASE t.k = "enum"
  <2>1. PartsOf(t) = UNION {TypesIn(v) : v \in ToSet(t.variants)}
    BY <1>2, PartsAre
  <2>2. Unchecked(t) = UNION {ToSet(v.elems) : v \in ToSet(t.variants)}
    BY <1>2 DEF Unchecked
  <2>3. FieldsOf(t) = UNION {ToSet(v.fields) : v \in ToSet(t.variants)}
    BY <1>2 DEF FieldsOf
  <2> QED BY <2>1, <2>2, <2>3 DEF TypesIn
<1>3. CASE t.k \notin {"struct", "enum"}
  BY <1>3, PartsAre DEF FieldsOf, Unchecked
<1> QED BY <1>1, <1>2, <1>3

\* The fields of a type and of its parts are there, and their checks compile.
AllPresent(t) == \A s \in SubTypes(t) : \A f \in FieldsOf(s) : Present(f)
AllCompile(t) == \A s \in SubTypes(t) : \A f \in FieldsOf(s) : ChecksCompile(f)

\* What holds of every type that is plain in all its parts.
Claim(t, o) ==
    /\ TakenType(t, o) /\ SoundType(t, o) /\ Clean(Schema(t, o))
    /\ Unconstrained(t) /\ AllPresent(t) => Open(t, o)
    /\ PlainChecks(t) /\ AllCompile(t) =>
          Agrees(t, o) /\ (PlainPaths(t) => Named(t, o))

LEMMA ChecksOfParts ==
    ASSUME Unfolds, NEW t, NEW p \in PartsOf(t)
    PROVE  /\ Unconstrained(t) => Unconstrained(p)
           /\ AllPresent(t) => AllPresent(p)
           /\ AllCompile(t) => AllCompile(p)
           /\ PlainChecks(t) => PlainChecks(p)
           /\ PlainPaths(t) => PlainPaths(p)
<1>1. SubTypes(p) \subseteq SubTypes(t)
  BY SubTypesAre
<1>2. Unconstrained(t) => Unconstrained(p)
  BY <1>1 DEF Unconstrained
<1>3. AllPresent(t) => AllPresent(p)
  BY <1>1 DEF AllPresent
<1>4. AllCompile(t) => AllCompile(p)
  BY <1>1 DEF AllCompile
<1>5. PlainChecks(t) => PlainChecks(p)
  BY <1>1 DEF PlainChecks
<1>6. PlainPaths(t) => PlainPaths(p)
  BY <1>1 DEF PlainPaths
<1> QED BY <1>2, <1>3, <1>4, <1>5, <1>6

LEMMA PartsAlike ==
    ASSUME Unfolds, NEW t \in AllTypes, NEW o, PlainIn(t, o),
           \A p \in PartsOf(t) : PlainPart(p, o) /\ ~IsUnit(p) /\ Claim(p, o),
           PlainChecks(t), AllCompile(t)
    PROVE  AlikeParts(t, o)
<1>1. t \in SubTypes(t)
  BY SubTypesAre
<1>2. AllPresent(t)
  BY DEF PlainChecks, AllPresent, Present
<1>3. ASSUME NEW p \in Unchecked(t) \cup {f.ty : f \in FieldsOf(t)}
      PROVE  Open(p, o)
  <2>1. p \in PartsOf(t)
    BY PartsIn
  <2>2. Unconstrained(p)
    BY <1>1 DEF PlainChecks
  <2>3. AllPresent(p)
    BY <1>2, <2>1, ChecksOfParts
  <2> QED BY <2>1, <2>2, <2>3 DEF Claim
<1>4. ASSUME NEW f \in FieldsOf(t) PROVE AlikeField(f, o)
  <2>1. \E S : f.attrs \in AttributesOver(S)
    BY FieldAttributes
  <2>2. ChecksCompile(f)
    BY <1>1 DEF AllCompile
  <2>3. PlainField(f)
    BY <1>1 DEF PlainChecks
  <2>4. Present(f)
    BY <1>1, <1>2 DEF AllPresent
  <2>5. SerdeField(f) /\ o.bigint \in Bigints
    BY DEF PlainIn, PlainPart
  <2>6. f.ty \in PartsOf(t)
    BY PartsIn
  <2>7. Open(f.ty, o)
    BY <1>3
  <2>8. Clean(Schema(f.ty, o)) /\ Defined(TsType(f.ty, o))
    BY <2>6 DEF Claim, TakenType
  <2>9. f.ty.k = "prim" => PlainPrimitive(f.ty.p, o.bigint) /\ f.ty.p # "unit"
    BY <2>6 DEF PlainPart, IsUnit
  <2> QED BY <2>1, <2>2, <2>3, <2>4, <2>5, <2>7, <2>8, <2>9 DEF AlikeField
<1>5. \A p \in PartsOf(t) : TakenType(p, o) /\ SoundType(p, o) /\ Clean(Schema(p, o))
  BY DEF Claim
<1> QED BY <1>3, <1>4, <1>5 DEF AlikeParts

LEMMA ClaimStep ==
    ASSUME Unfolds, NEW t \in AllTypes, NEW o, PlainIn(t, o),
           \A p \in PartsOf(t) : PlainPart(p, o) /\ ~IsUnit(p) /\ Claim(p, o)
    PROVE  Claim(t, o)
<1>1. \A p \in PartsOf(t) : TakenType(p, o) /\ SoundType(p, o) /\ Clean(Schema(p, o))
  BY DEF Claim
<1>2. TakenType(t, o)
  BY <1>1, TakenStep
<1>3. SoundType(t, o)
  BY <1>1, SoundStep DEF PlainIn
<1>4. Clean(Schema(t, o))
  BY <1>1, CleanStep
<1>5. t \in SubTypes(t)
  BY SubTypesAre
<1>6. ASSUME Unconstrained(t), AllPresent(t) PROVE Open(t, o)
  <2>1. \A p \in PartsOf(t) : Open(p, o)
    BY <1>6, ChecksOfParts DEF Claim
  <2>2. Loose(t) /\ \A f \in FieldsOf(t) : Present(f)
    BY <1>5, <1>6 DEF Unconstrained, AllPresent, Loose
  <2> QED BY <2>1, <2>2, OpenStep
<1>7. ASSUME PlainChecks(t), AllCompile(t)
      PROVE  Agrees(t, o) /\ (PlainPaths(t) => Named(t, o))
  <2>1. AlikeParts(t, o)
    BY <1>7, PartsAlike
  <2>2. \A p \in PartsOf(t) : PlainChecks(p) /\ AllCompile(p) /\ (PlainPaths(t) => PlainPaths(p))
    BY <1>7, ChecksOfParts
  <2>3. \A p \in PartsOf(t) : Agrees(p, o) /\ (PlainPaths(t) => Named(p, o))
    BY <2>2 DEF Claim
  <2>4. PlainPaths(t) => t.k \notin {"map", "tuple"} /\ \A f \in FieldsOf(t) : f.wire = f.ident
    BY <1>5 DEF PlainPaths
  <2> QED BY <2>1, <2>3, <2>4, AgreesStep
<1> QED BY <1>2, <1>3, <1>4, <1>6, <1>7 DEF Claim

LEMMA EveryTypeAgrees ==
    ASSUME Unfolds, NEW o, o.bigint \in Bigints
    PROVE  \A t \in TypesTo[Depth] : Apart(t, o) /\ Nested(t, o) => Claim(t, o)
<1> DEFINE S == {t \in AllTypes : Apart(t, o) /\ Nested(t, o) => Claim(t, o)}
<1>1. ASSUME NEW t \in AllTypes, Typed(t), PartsOf(t) \subseteq S PROVE t \in S
  <2> SUFFICES ASSUME Apart(t, o), Nested(t, o) PROVE Claim(t, o)
    OBVIOUS
  <2>1. PlainIn(t, o)
    BY <1>1, SubTypesAre DEF Apart, Nested, PlainIn
  <2>2. \A p \in PartsOf(t) : Apart(p, o) /\ Nested(p, o)
    BY SubTypesAre DEF Apart, Nested
  <2>3. \A p \in PartsOf(t) : Claim(p, o)
    BY <1>1, <2>2
  <2>4. \A p \in PartsOf(t) : PlainPart(p, o) /\ ~IsUnit(p)
    BY <2>2, SubTypesAre DEF Nested
  <2> QED BY <2>1, <2>3, <2>4, ClaimStep
<1> HIDE DEF S
<1>2. TypesTo[Depth] \subseteq S
  BY <1>1, TypeInduction
<1> QED BY <1>2 DEF S

LEMMA UnitChecks ==
    ASSUME Unfolds, NEW t, IsUnit(t), NEW o, NEW x, Fits(TsType(t, o), x)
    PROVE  /\ Fits(Schema(t, o), Passed(x))
           /\ Errors(t, Json(Through(Schema(t, o), Passed(x)))) = {}
<1>1. TsType(t, o) = Leaf("void") /\ Schema(t, o) = Leaf("null")
  BY UnitReads
<1>2. x = Null \/ x = Undef
  BY <1>1, UnitValues
<1>3. Passed(x) = Null
  BY <1>2 DEF Passed
<1>4. Errors(t, Json(Through(Schema(t, o), Passed(x)))) = {}
  BY ErrorsAre DEF IsUnit
<1> QED BY <1>1, <1>3, <1>4, UnitValues

\* What the client and the server say of an input.
LEMMA InputChecks ==
    ASSUME Unfolds, NEW o, o.bigint \in Bigints, NEW t \in TypesTo[Depth], Apart(t, o),
           PlainType(t, o), PlainChecks(t), AllCompile(t),
           NEW x, Ordinary(x), Fits(TsType(t, o), x)
    PROVE  LET w == Schema(t, o) IN
           /\ ~Fits(w, Passed(x)) =>
                 /\ Errors(t, Json(x)) # {}
                 /\ PlainPaths(t) => Issues(w, Passed(x)) = PathsOf(Errors(t, Json(x)))
           /\ Fits(w, Passed(x)) => Errors(t, Json(Through(w, Passed(x)))) = {}
<1>1. CASE IsUnit(t)
  BY <1>1, UnitChecks
<1>2. CASE ~IsUnit(t)
  <2>1. Claim(t, o)
    BY <1>2, PlainIsNested, EveryTypeAgrees
  <2>2. Agrees(t, o) /\ (PlainPaths(t) => Named(t, o))
    BY <2>1 DEF Claim
  <2>3. x.j # "undef"
    BY <2>1 DEF Claim, TakenType, Defined
  <2>4. Passed(x) = x
    BY <2>3 DEF Passed, Undef
  <2> QED BY <2>2, <2>4 DEF Agrees, Named
<1> QED BY <1>1, <1>2

LEMMA InputsCompile ==
    ASSUME IInv, phase \notin {"declared", "refused"}
    PROVE  AllCompile(Input)
BY DEF IInv, Compiles, AllCompile

\* codegen.rs:632-770, derive_validate.rs:218-359, index.ts:200-261: of an input
\* with plain checks the client refuses nothing that the server would take, the
\* server refuses nothing that the client has let through, and both name the
\* same fields.
THEOREM ChecksMeet ==
    ASSUME Unfolds
    PROVE  Spec => []ChecksAgree
<1>1. ASSUME IInv PROVE ChecksAgree
  <2> SUFFICES ASSUME PlainType(Input, opts), PlainChecks(Input), Ordinary(given)
               PROVE  /\ phase = "refusedByClient" =>
                            /\ Errors(Input, Json(given)) # {}
                            /\ PlainPaths(Input) => value.at = PathsOf(Errors(Input, Json(given)))
                      /\ phase = "validationError" => caller = "agent" \/ ~Validating
    BY DEF ChecksAgree
  <2>1. opts.bigint \in Bigints /\ Input \in TypesTo[Depth]
    BY <1>1, SettingsAre
  <2>2. phase \notin {"declared", "refused"} => Apart(Input, opts) /\ AllCompile(Input)
    BY <1>1, SettingsAre, InputsCompile
  <2> DEFINE w == Schema(Input, opts)
  <2>3. ASSUME phase \in {"refusedByClient", "validationError"}, Fits(TsType(Input, opts), given)
        PROVE  /\ ~Fits(w, Passed(given)) =>
                     /\ Errors(Input, Json(given)) # {}
                     /\ PlainPaths(Input) =>
                           Issues(w, Passed(given)) = PathsOf(Errors(Input, Json(given)))
               /\ Fits(w, Passed(given)) => Errors(Input, Json(Through(w, Passed(given)))) = {}
    BY <2>1, <2>2, <2>3, InputChecks
  <2> HIDE DEF w
  <2>4. ASSUME phase = "refusedByClient"
        PROVE  /\ Errors(Input, Json(given)) # {}
               /\ PlainPaths(Input) => value.at = PathsOf(Errors(Input, Json(given)))
    <3>1. Fits(TsType(Input, opts), given)
      BY <1>1, <2>4 DEF IInv, InputInv
    <3>2. ~Fits(w, Passed(given)) /\ value = Refusal(Issues(w, Passed(given)))
      BY <1>1, <2>4 DEF IInv, ArrivalInv, Refuses, w
    <3>3. value.at = Issues(w, Passed(given))
      BY <3>2 DEF Refusal
    <3> QED BY <2>3, <2>4, <3>1, <3>2, <3>3
  <2>5. ASSUME phase = "validationError", caller # "agent", Validating PROVE FALSE
    <3>1. Fits(TsType(Input, opts), given) /\ Fits(w, Passed(given))
      BY <1>1, <2>5 DEF IInv, InputInv, Refuses, w
    <3>2. Sent = Json(Through(w, Passed(given)))
      BY <2>5 DEF Sent, Parse, w
    <3>3. Errors(Input, Sent) # {}
      BY <1>1, <2>5 DEF IInv, ArrivalInv
    <3> QED BY <2>3, <2>5, <3>1, <3>2, <3>3
  <2> QED BY <2>4, <2>5
<1> QED BY <1>1, Invariance, PTL
=============================================================================
