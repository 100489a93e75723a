------------------------ MODULE RouterAssemblyProofs ------------------------
(***************************************************************************)
(* For every program, not only the one TLC has: the IR is exact, no        *)
(* request gets around a layer, the client calls what is mounted, only     *)
(* reserved names make into_axum panic, and only types that contain        *)
(* themselves overflow the stack.                                          *)
(***************************************************************************)
EXTENDS RouterAssemblyInv, TLAPS, WellFoundedInduction, FiniteSetTheorems

-----------------------------------------------------------------------------
(* Reachability.                                                           *)

\* A type reaches itself and the parts of what it reaches.
LEMMA ReachIsClosed ==
    ASSUME NEW n \in Nodes
    PROVE  /\ n \in Reach[n]
           /\ Reach[n] \subseteq Nodes
           /\ \A m \in Reach[n] : RangeOf(Children(m)) \subseteq Reach[n]
<1>1. n \in Reach[n] /\ Reach[n] \subseteq Nodes
  BY DEF Reach
<1>2. ASSUME NEW m \in Reach[n], NEW c \in RangeOf(Children(m))
      PROVE  c \in Reach[n]
  <2>1. m \in Nodes /\ Children(m) \in Seq(Nodes)
    BY <1>1, AsmAssumption
  <2>2. c \in Nodes
    BY <2>1 DEF RangeOf
  <2>3. \A S \in ClosedSets : n \in S => m \in S
    BY DEF Reach
  <2>4. \A S \in ClosedSets : m \in S => c \in S
    BY DEF ClosedSets
  <2> QED BY <2>2, <2>3, <2>4 DEF Reach
<1> QED BY <1>1, <1>2

\* So do several types.
LEMMA ReachableFromIsClosed ==
    ASSUME NEW roots \in SUBSET Nodes
    PROVE  /\ roots \subseteq ReachableFrom(roots)
           /\ ReachableFrom(roots) \subseteq Nodes
           /\ \A m \in ReachableFrom(roots) :
                 RangeOf(Children(m)) \subseteq ReachableFrom(roots)
  BY ReachIsClosed DEF ReachableFrom

\* Nothing closed that has the roots is smaller.
LEMMA ReachableFromIsLeast ==
    ASSUME NEW roots \in SUBSET Nodes, NEW S \in SUBSET Nodes, roots \subseteq S,
           \A n \in S : RangeOf(Children(n)) \subseteq S
    PROVE  ReachableFrom(roots) \subseteq S
<1>1. S \in ClosedSets
  BY DEF ClosedSets
<1> QED BY <1>1 DEF ReachableFrom, Reach

-----------------------------------------------------------------------------
(* Lists of definitions, and the stack.                                    *)

\* AddDef adds the name if it is new, and keeps the names apart.
LEMMA AddDefAdds ==
    ASSUME NEW T, NEW defs \in Seq(T), NEW name, NEW of, [name |-> name, of |-> of] \in T
    PROVE  /\ AddDef(defs, name, of) \in Seq(T)
           /\ \A m : HasName(AddDef(defs, name, of), m) <=> HasName(defs, m) \/ m = name
           /\ \A i \in DOMAIN AddDef(defs, name, of) :
                 \/ \E j \in DOMAIN defs : AddDef(defs, name, of)[i] = defs[j]
                 \/ /\ AddDef(defs, name, of)[i] = [name |-> name, of |-> of]
                    /\ ~HasName(defs, name)
           /\ UniqueNames(defs) => UniqueNames(AddDef(defs, name, of))
<1>1. CASE HasName(defs, name)
  <2>1. AddDef(defs, name, of) = defs
    BY <1>1 DEF AddDef
  <2> QED BY <1>1, <2>1
<1>2. CASE ~HasName(defs, name)
  <2> DEFINE d == [name |-> name, of |-> of]
             a == Append(defs, d)
  <2>1. AddDef(defs, name, of) = a
    BY <1>2 DEF AddDef
  <2>2. a \in Seq(T)
    OBVIOUS
  <2>3. DOMAIN a = DOMAIN defs \cup {Len(defs) + 1}
    OBVIOUS
  <2>4. \A i \in DOMAIN defs : a[i] = defs[i]
    OBVIOUS
  <2>5. a[Len(defs) + 1] = d /\ Len(defs) + 1 \notin DOMAIN defs
    OBVIOUS
  <2>6. \A m : HasName(a, m) <=> HasName(defs, m) \/ m = name
    <3> HIDE DEF a
    <3> QED BY <2>3, <2>4, <2>5 DEF HasName
  <2>7. UniqueNames(defs) => UniqueNames(a)
    <3> HIDE DEF a
    <3> QED BY <1>2, <2>3, <2>4, <2>5 DEF HasName, UniqueNames
  <2>8. \A i \in DOMAIN a : (\E j \in DOMAIN defs : a[i] = defs[j]) \/ a[i] = d
    <3> HIDE DEF a
    <3> QED BY <2>3, <2>4, <2>5
  <2> QED BY <1>2, <2>1, <2>2, <2>6, <2>7, <2>8
<1> QED BY <1>1, <1>2

\* What a list has: its head and what its tail has.
LEMMA RangeOfTail ==
    ASSUME NEW T, NEW s \in Seq(T), s # <<>>
    PROVE  /\ RangeOf(s) = {Head(s)} \cup RangeOf(Tail(s))
           /\ Head(s) \in T /\ Tail(s) \in Seq(T)
<1>1. Head(s) \in T /\ Tail(s) \in Seq(T) /\ Len(s) \in Nat \ {0}
  OBVIOUS
<1>2. \A i \in DOMAIN Tail(s) : Tail(s)[i] = s[i + 1] /\ i + 1 \in DOMAIN s
  OBVIOUS
<1>3. \A i \in DOMAIN s : i = 1 \/ (i - 1 \in DOMAIN Tail(s) /\ Tail(s)[i - 1] = s[i])
  OBVIOUS
<1>4. Head(s) = s[1] /\ 1 \in DOMAIN s
  OBVIOUS
<1>5. RangeOf(s) \subseteq {Head(s)} \cup RangeOf(Tail(s))
  BY <1>3, <1>4 DEF RangeOf
<1>6. {Head(s)} \cup RangeOf(Tail(s)) \subseteq RangeOf(s)
  BY <1>2, <1>4 DEF RangeOf
<1> QED BY <1>1, <1>5, <1>6

LEMMA PendingTail ==
    ASSUME NEW s \in Seq(Seq(Nodes)), s # <<>>
    PROVE  Pending(s) = RangeOf(Head(s)) \cup Pending(Tail(s))
<1>1. Len(s) \in Nat \ {0} /\ Head(s) = s[1] /\ 1 \in DOMAIN s
  OBVIOUS
<1>2. \A i \in DOMAIN Tail(s) : Tail(s)[i] = s[i + 1] /\ i + 1 \in DOMAIN s
  OBVIOUS
<1>3. \A i \in DOMAIN s : i = 1 \/ (i - 1 \in DOMAIN Tail(s) /\ Tail(s)[i - 1] = s[i])
  OBVIOUS
<1> QED BY <1>1, <1>2, <1>3 DEF Pending

LEMMA PendingPush ==
    ASSUME NEW s \in Seq(Seq(Nodes)), NEW f \in Seq(Nodes)
    PROVE  /\ Pending(<<f>> \o s) = RangeOf(f) \cup Pending(s)
           /\ <<f>> \o s \in Seq(Seq(Nodes))
<1> DEFINE t == <<f>> \o s
<1>1. t \in Seq(Seq(Nodes)) /\ Len(t) = Len(s) + 1
  OBVIOUS
<1>2. t # <<>> /\ Head(t) = f
  BY <1>1
<1>3. Tail(t) = s
  <2>1. Len(Tail(t)) = Len(s) /\ Tail(t) \in Seq(Seq(Nodes))
    BY <1>1
  <2>2. \A i \in 1..Len(s) : Tail(t)[i] = s[i]
    OBVIOUS
  <2> QED BY <2>1, <2>2
<1> QED BY <1>1, <1>2, <1>3, PendingTail

-----------------------------------------------------------------------------
(* The macro.                                                              *)

\* A set of positions has a last one.
LEMMA LastOf ==
    ASSUME NEW n \in Nat, NEW S \in SUBSET (1..n), S # {}
    PROVE  \E i \in S : \A j \in S : j <= i
<1> DEFINE T == {n - i : i \in S}
<1>1. T \subseteq Nat /\ T # {}
  <2>1. \A i \in S : n - i \in Nat /\ n - i \in T
    OBVIOUS
  <2>2. PICK i \in S : TRUE
    OBVIOUS
  <2> QED BY <2>1, <2>2
<1>2. PICK x \in T : \A y \in T : ~(<<y, x>> \in OpToRel(<, Nat))
  <2>1. \E x \in T : \A y \in T : ~(<<y, x>> \in OpToRel(<, Nat))
    BY <1>1, NatLessThanWellFounded, WFMin, Zenon
  <2> QED BY <2>1
<1>3. \A y \in T : ~(y < x)
  BY <1>1, <1>2 DEF OpToRel
<1>4. PICK i \in S : x = n - i
  OBVIOUS
<1>5. ASSUME NEW j \in S PROVE j <= i
  <2>1. n - j \in T
    OBVIOUS
  <2>2. ~(n - j < n - i)
    BY <2>1, <1>3, <1>4
  <2>3. i \in Int /\ j \in Int
    OBVIOUS
  <2> QED BY <2>2, <2>3
<1> QED BY <1>5

\* What parses names a kind.
LEMMA KindIsKind ==
    ASSUME NEW f \in Functions
    PROVE  KindOf(f) \in KindArgs
<1> DEFINE kinds == {i \in DOMAIN f.args : f.args[i] \in KindArgs}
<1>1. CASE kinds = {}
  BY <1>1 DEF KindOf, KindArgs
<1>2. CASE kinds # {}
  <2>1. PICK n \in Nat : DOMAIN f.args = 1..n
    BY AsmAssumption
  <2>2. \E i \in kinds : \A j \in kinds : j <= i
    <3>1. kinds \in SUBSET (1..n)
      BY <2>1
    <3> QED BY <1>2, <3>1, LastOf
  <2>3. (CHOOSE i \in kinds : \A j \in kinds : j <= i) \in kinds
    BY <2>2
  <2>4. KindOf(f) = f.args[CHOOSE i \in kinds : \A j \in kinds : j <= i]
    BY <1>2 DEF KindOf
  <2> HIDE DEF kinds
  <2>5. \A i \in kinds : f.args[i] \in KindArgs
    BY DEF kinds
  <2> QED BY <2>3, <2>4, <2>5
<1> QED BY <1>1, <1>2

LEMMA SignatureIs ==
    ASSUME NEW f \in Functions, Compiles(f)
    PROVE  /\ Signature(f) \in Seq(Nodes)
           /\ RangeOf(Signature(f)) = {InputOf(f), OutputOf(f)} \cup RangeOf(ErrorsOf(f))
<1>1. /\ InputOf(f) \in Nodes /\ OutputOf(f) \in Nodes
      /\ ErrorsOf(f) \in Seq(Nodes)
  BY AsmAssumption
<1> DEFINE s == <<InputOf(f), OutputOf(f)>> \o ErrorsOf(f)
<1>2. s \in Seq(Nodes)
  BY <1>1
<1>3. RangeOf(s) \subseteq {InputOf(f), OutputOf(f)} \cup RangeOf(ErrorsOf(f))
  <2>1. \A i \in DOMAIN s : s[i] = InputOf(f) \/ s[i] = OutputOf(f)
            \/ (i - 2 \in DOMAIN ErrorsOf(f) /\ s[i] = ErrorsOf(f)[i - 2])
    BY <1>1
  <2> HIDE DEF s
  <2> QED BY <2>1 DEF RangeOf
<1>4. {InputOf(f), OutputOf(f)} \cup RangeOf(ErrorsOf(f)) \subseteq RangeOf(s)
  <2>1. /\ 1 \in DOMAIN s /\ s[1] = InputOf(f) /\ 2 \in DOMAIN s /\ s[2] = OutputOf(f)
        /\ \A i \in DOMAIN ErrorsOf(f) : i + 2 \in DOMAIN s /\ s[i + 2] = ErrorsOf(f)[i]
    BY <1>1
  <2> HIDE DEF s
  <2> QED BY <2>1 DEF RangeOf
<1> QED BY <1>2, <1>3, <1>4 DEF Signature

\* The kind decides the method and the body.
LEMMA DescriptorTyped ==
    ASSUME NEW d \in [fn : Functions, stack : Seq(Seq(Nodes)),
                      types : Seq(TypeDefs), seen : SUBSET Nodes],
           Compiles(d.fn)
    PROVE  /\ Descriptor(d) \in Descriptors
           /\ Descriptor(d).name = d.fn.name
           /\ Descriptor(d).ir.name = d.fn.name
           /\ Descriptor(d).ir.method = MethodOf(Descriptor(d).kind)
           /\ Descriptor(d).body = BodyOf(Descriptor(d).kind)
           /\ SignatureOf(Descriptor(d)) = RangeOf(Signature(d.fn))
           /\ Descriptor(d).types = d.types
           /\ Descriptor(d).seen = d.seen
<1>1. KindOf(d.fn) \in KindArgs
  BY KindIsKind
<1>2. d.fn.name \in FnNames
  BY DEF FnNames
<1>3. /\ InputOf(d.fn) \in Nodes /\ OutputOf(d.fn) \in Nodes
      /\ ErrorsOf(d.fn) \in Seq(Nodes)
  BY AsmAssumption
<1> DEFINE kind == KindOf(d.fn)
           p == [name |-> d.fn.name, kind |-> kind,
                 method |-> IF kind = "stream" THEN "GET" ELSE "POST",
                 input |-> InputOf(d.fn), output |-> OutputOf(d.fn),
                 errors |-> ErrorsOf(d.fn)]
<1>4. p \in ProcIrs
  BY <1>1, <1>2, <1>3 DEF ProcIrs
<1>5. Descriptor(d) = [name |-> d.fn.name, kind |-> kind,
                       body |-> IF kind = "stream" THEN "stream" ELSE "unary",
                       ir |-> p, types |-> d.types, seen |-> d.seen]
  BY DEF Descriptor
<1>6. p.name = d.fn.name /\ p.method = MethodOf(kind)
      /\ {p.input, p.output} \cup RangeOf(p.errors) = RangeOf(Signature(d.fn))
  BY SignatureIs DEF MethodOf
<1> HIDE DEF p, kind
<1>7. Descriptor(d) \in Descriptors
  BY <1>1, <1>2, <1>4, <1>5 DEF Descriptors, kind
<1> QED BY <1>5, <1>6, <1>7 DEF SignatureOf, BodyOf

-----------------------------------------------------------------------------
(* Types.                                                                  *)

Drafts == [fn : Functions, stack : Seq(Seq(Nodes)),
           types : Seq(TypeDefs), seen : SUBSET Nodes]
Irs == [goal : {"none", "dump", "mount"}, proc : Nat \ {0}, type : Nat \ {0},
        procs : Seq(ProcIrs), types : Seq(TypeDefs)]

\* What each action writes is what it says, field by field.
LEMMA NoDraftTyped == NoDraft \in Drafts
  BY AsmAssumption DEF NoDraft, Drafts

LEMMA NoIrTyped == NoIr \in Irs /\ NoIr.goal = "none"
  BY DEF NoIr, Irs

\* The state is well typed and a descriptor in the making is of a function
\* that compiles.
TypesAndDraft == AsmTypeOK /\ (phase = "collecting" => Compiles(draft.fn))

LEMMA AsmTypeInit == AsmInit => TypesAndDraft
<1> SUFFICES ASSUME AsmInit PROVE TypesAndDraft
  OBVIOUS
<1>1. draft \in Drafts /\ ir \in Irs
  BY NoDraftTyped, NoIrTyped DEF AsmInit
<1>2. phase \in Phases /\ phase # "collecting"
  BY DEF AsmInit, Phases
<1>3. /\ procedures \in Seq(Descriptors) /\ layers \in Seq(Layers)
      /\ mounted \in 0..Len(procedures) /\ applied \in 0..Len(layers)
  BY DEF AsmInit
<1>4. DOMAIN service = {}
  BY DEF AsmInit
<1> QED BY <1>1, <1>2, <1>3, <1>4 DEF AsmTypeOK, TypesAndDraft, Drafts, Irs

LEMMA AddDefTyped ==
    ASSUME NEW types \in Seq(TypeDefs), NEW n \in Derived
    PROVE  AddDef(types, IrName[n], n) \in Seq(TypeDefs)
<1>1. [name |-> IrName[n], of |-> n] \in TypeDefs
  BY DEF TypeDefs
<1> QED BY <1>1, AddDefAdds

\* Each action leaves the state well typed.
LEMMA AsmTypeStep == TypesAndDraft /\ [AsmNext]_asmVars => TypesAndDraft'
<1> SUFFICES ASSUME TypesAndDraft, [AsmNext]_asmVars PROVE TypesAndDraft'
  OBVIOUS
<1>0. /\ phase \in Phases /\ draft \in Drafts /\ procedures \in Seq(Descriptors)
      /\ layers \in Seq(Layers) /\ ir \in Irs
      /\ DOMAIN service \subseteq Endpoints
      /\ \A e \in DOMAIN service : service[e] \in Seq(Layers)
      /\ mounted \in 0..Len(procedures) /\ applied \in 0..Len(layers)
      /\ phase = "collecting" => Compiles(draft.fn)
  BY DEF TypesAndDraft, AsmTypeOK, Drafts, Irs
<1> USE DEF Phases
<1>a. ASSUME phase' \in Phases, draft' \in Drafts,
             phase' = "collecting" => Compiles(draft'.fn),
             UNCHANGED <<procedures, layers, ir, service, mounted, applied>>
      PROVE  TypesAndDraft'
  BY <1>0, <1>a DEF TypesAndDraft, AsmTypeOK, Drafts, Irs
<1>b. ASSUME phase' \in Phases, phase' # "collecting", ir' \in Irs,
             UNCHANGED <<draft, procedures, layers, service, mounted, applied>>
      PROVE  TypesAndDraft'
  BY <1>0, <1>b DEF TypesAndDraft, AsmTypeOK, Drafts, Irs
<1>c. ASSUME phase' \in Phases, phase' # "collecting",
             DOMAIN service' \subseteq Endpoints,
             \A e \in DOMAIN service' : service'[e] \in Seq(Layers),
             mounted' \in 0..Len(procedures), applied' \in 0..Len(layers),
             UNCHANGED <<draft, procedures, layers, ir>>
      PROVE  TypesAndDraft'
  BY <1>0, <1>c DEF TypesAndDraft, AsmTypeOK, Drafts, Irs
<1>1. ASSUME NEW f \in Functions, Describe(f) PROVE TypesAndDraft'
  <2>1. Signature(f) \in Seq(Nodes)
    BY <1>1, SignatureIs DEF Describe
  <2>2. draft' \in Drafts /\ draft'.fn = f
    BY <1>1, <2>1 DEF Describe, Drafts
  <2> QED BY <1>1, <2>2, <1>a DEF Describe
<1>2. CASE Visit
  <2> DEFINE n == Head(Head(draft.stack))
             rest == <<Tail(Head(draft.stack))>> \o Tail(draft.stack)
  <2>1. /\ draft.stack \in Seq(Seq(Nodes)) /\ draft.stack # <<>>
        /\ Head(draft.stack) # <<>>
    BY <1>0, <1>2 DEF Visit, Drafts
  <2>2. Head(draft.stack) \in Seq(Nodes) /\ Tail(draft.stack) \in Seq(Seq(Nodes))
    BY <2>1, RangeOfTail
  <2>3. n \in Nodes /\ Tail(Head(draft.stack)) \in Seq(Nodes)
    BY <2>1, <2>2, RangeOfTail
  <2>4. rest \in Seq(Seq(Nodes))
    BY <2>2, <2>3, PendingPush
  <2>5. <<Children(n)>> \o rest \in Seq(Seq(Nodes))
    BY <2>3, <2>4, AsmAssumption, PendingPush
  <2>6. n \in Derived => AddDef(draft.types, IrName[n], n) \in Seq(TypeDefs)
    BY <1>0, AddDefTyped DEF Drafts
  <2>7. CASE Len(draft.stack) < MaxDepth
    <3>1. draft' = [fn |-> draft.fn, stack |-> <<Children(n)>> \o rest,
                    types |-> IF n \in Derived
                              THEN AddDef(draft.types, IrName[n], n)
                              ELSE draft.types,
                    seen |-> draft.seen \cup {n}]
      BY <1>2, <2>7 DEF Visit
    <3>2. draft' \in Drafts /\ draft'.fn = draft.fn
      <4> HIDE DEF n, rest
      <4> QED BY <1>0, <2>3, <2>5, <2>6, <3>1 DEF Drafts
    <3>3. phase' = "collecting" /\ Compiles(draft'.fn)
      BY <1>0, <1>2, <2>7, <3>2 DEF Visit
    <3> QED BY <1>2, <3>2, <3>3, <1>a DEF Visit
  <2>8. CASE ~(Len(draft.stack) < MaxDepth)
    BY <1>0, <1>2, <2>8, <1>a DEF Visit
  <2> QED BY <2>7, <2>8
<1>3. CASE Return
  <2>1. Tail(draft.stack) \in Seq(Seq(Nodes))
    BY <1>0, <1>3, RangeOfTail DEF Return, Drafts
  <2>2. draft' \in Drafts /\ draft'.fn = draft.fn
    BY <1>0, <1>3, <2>1 DEF Return, Drafts
  <2> QED BY <1>0, <1>3, <2>2, <1>a DEF Return
<1>4. CASE Register
  <2>1. Compiles(draft.fn)
    BY <1>0, <1>4 DEF Register
  <2>2. CASE HasName(procedures, draft.fn.name)
    BY <1>0, <1>4, <2>2, <1>a DEF Register
  <2>3. CASE ~HasName(procedures, draft.fn.name)
    <3>1. Descriptor(draft) \in Descriptors
      BY <1>0, <2>1, DescriptorTyped DEF Drafts
    <3>2. procedures' \in Seq(Descriptors) /\ Len(procedures') = Len(procedures) + 1
      BY <1>0, <1>4, <2>3, <3>1 DEF Register
    <3>3. draft' \in Drafts /\ phase' = "building"
      BY <1>4, <2>3, NoDraftTyped DEF Register
    <3>4. mounted' \in 0..Len(procedures')
      BY <1>0, <1>4, <3>2 DEF Register
    <3> QED
      BY <1>0, <1>4, <3>2, <3>3, <3>4 DEF Register, TypesAndDraft, AsmTypeOK, Drafts, Irs
  <2> QED BY <2>2, <2>3
<1>5. ASSUME NEW l \in Layers, AddLayer(l) PROVE TypesAndDraft'
  <2>1. layers' \in Seq(Layers) /\ Len(layers') = Len(layers) + 1
    BY <1>0, <1>5 DEF AddLayer
  <2>2. applied' \in 0..Len(layers')
    BY <1>0, <1>5, <2>1 DEF AddLayer
  <2> QED BY <1>0, <1>5, <2>1, <2>2 DEF AddLayer, TypesAndDraft, AsmTypeOK, Drafts, Irs
<1>6. ASSUME NEW goal \in {"dump", "mount"}, StartExport(goal) PROVE TypesAndDraft'
  <2>1. ir' \in Irs
    BY <1>6, NoIrTyped DEF StartExport, Irs
  <2> QED BY <1>6, <2>1, <1>b DEF StartExport
<1>7. CASE ExportType
  <2> DEFINE d == procedures[ir.proc].types[ir.type]
  <2>1. ir.proc \in DOMAIN procedures /\ procedures[ir.proc] \in Descriptors
    BY <1>0, <1>7 DEF ExportType, Irs
  <2>2. procedures[ir.proc].types \in Seq(TypeDefs)
    BY <2>1 DEF Descriptors
  <2>3. d \in TypeDefs
    BY <1>0, <1>7, <2>2 DEF ExportType, Irs
  <2>4. d = [name |-> d.name, of |-> d.of]
    BY <2>3 DEF TypeDefs
  <2>5. AddDef(ir.types, d.name, d.of) \in Seq(TypeDefs)
    <3> HIDE DEF d
    <3> QED BY <1>0, <2>3, <2>4, AddDefAdds DEF Irs
  <2>6. ir' \in Irs
    BY <1>0, <1>7, <2>5 DEF ExportType, Irs
  <2> QED BY <1>7, <2>6, <1>b DEF ExportType
<1>8. CASE ExportProcedure
  <2>1. ir.proc \in DOMAIN procedures /\ procedures[ir.proc] \in Descriptors
    BY <1>0, <1>8 DEF ExportProcedure, Irs
  <2>2. procedures[ir.proc].ir \in ProcIrs
    BY <2>1 DEF Descriptors
  <2>3. ir' \in Irs
    BY <1>0, <1>8, <2>2 DEF ExportProcedure, Irs
  <2> QED BY <1>8, <2>3, <1>b DEF ExportProcedure
<1>9. CASE ExportEnds
  <2>1. CASE ir.goal = "dump"
    BY <1>0, <1>9, <2>1, <1>c DEF ExportEnds
  <2>2. CASE ir.goal # "dump"
    <3>1. /\ phase' = "mounting"
          /\ service' = [e \in {Endpoint(b, "GET") : b \in Builtins} |-> <<>>]
      BY <1>9, <2>2 DEF ExportEnds
    <3>2. DOMAIN service' \subseteq Endpoints
      BY <3>1 DEF Endpoints, Endpoint
    <3>3. \A e \in DOMAIN service' : service'[e] \in Seq(Layers)
      BY <3>1
    <3> QED BY <1>0, <1>9, <3>1, <3>2, <3>3, <1>c DEF ExportEnds
  <2> QED BY <2>1, <2>2
<1>10. CASE MountProcedure
  <2> DEFINE d == procedures[mounted + 1]
             e == Endpoint(d.name, MethodOf(d.kind))
  <2>1. CASE d.body # BodyOf(d.kind) \/ e \in DOMAIN service
    BY <1>0, <1>10, <2>1, <1>c DEF MountProcedure
  <2>2. CASE ~(d.body # BodyOf(d.kind) \/ e \in DOMAIN service)
    <3>1. AddEndpoint(e) /\ mounted' = mounted + 1
      BY <1>10, <2>2 DEF MountProcedure
    <3>2. mounted + 1 \in DOMAIN procedures
      BY <1>0, <1>10 DEF MountProcedure
    <3>3. d \in Descriptors
      BY <1>0, <3>2
    <3>4. e \in Endpoints
      <4> HIDE DEF d
      <4> QED BY <3>3 DEF Descriptors, Endpoints, Endpoint, MethodOf
    <3>5. mounted' \in 0..Len(procedures)
      BY <1>0, <1>10, <3>1 DEF MountProcedure
    <3>6. /\ DOMAIN service' \subseteq Endpoints
          /\ \A x \in DOMAIN service' : service'[x] \in Seq(Layers)
      <4> HIDE DEF e
      <4> QED BY <1>0, <3>1, <3>4 DEF AddEndpoint
    <3> QED BY <1>0, <1>10, <2>2, <3>5, <3>6, <1>c DEF MountProcedure
  <2> QED BY <2>1, <2>2
<1>11. CASE MountFallback
  <2>1. /\ DOMAIN service' \subseteq Endpoints
        /\ \A x \in DOMAIN service' : service'[x] \in Seq(Layers)
    BY <1>0, <1>11 DEF MountFallback, AddEndpoint, Endpoints
  <2> QED BY <1>0, <1>11, <2>1, <1>c DEF MountFallback
<1>12. CASE ApplyLayer
  <2>1. layers[applied + 1] \in Layers /\ applied' \in 0..Len(layers)
    BY <1>0, <1>12 DEF ApplyLayer
  <2>2. ASSUME NEW x \in DOMAIN service
        PROVE  <<layers[applied + 1]>> \o service[x] \in Seq(Layers)
    <3>1. service[x] \in Seq(Layers)
      BY <1>0
    <3> QED BY <2>1, <3>1
  <2>3. service' = [e \in DOMAIN service |-> <<layers[applied + 1]>> \o service[e]]
    BY <1>12 DEF ApplyLayer
  <2>4. /\ DOMAIN service' = DOMAIN service
        /\ \A x \in DOMAIN service' : service'[x] \in Seq(Layers)
    BY <2>2, <2>3
  <2> QED BY <1>0, <1>12, <2>1, <2>4, <1>c DEF ApplyLayer
<1>13. CASE Serve
  BY <1>0, <1>13, <1>c DEF Serve
<1>14. CASE UNCHANGED asmVars
  BY <1>0, <1>14, <1>a DEF asmVars
<1> QED
  BY <1>1, <1>2, <1>3, <1>4, <1>5, <1>6, <1>7, <1>8, <1>9, <1>10, <1>11, <1>12,
     <1>13, <1>14 DEF AsmNext

\* The router's state is always well typed.
THEOREM AsmTypeCorrect == AsmSpec => []AsmTypeOK
<1>1. AsmSpec => []TypesAndDraft
  BY AsmTypeInit, AsmTypeStep, PTL DEF AsmSpec
<1>2. TypesAndDraft => AsmTypeOK
  BY DEF TypesAndDraft
<1> QED BY <1>1, <1>2, PTL

-----------------------------------------------------------------------------
(* Collecting.                                                             *)

CollectInv ==
    /\ DraftInv
    /\ \A i \in DOMAIN procedures : DescriptorInv(procedures[i])
    /\ UniqueNames(procedures)

\* One more type visited: its parts are on the stack, its definition is there.
LEMMA VisitKeeps ==
    ASSUME AsmTypeOK, DraftInv, Visit, Len(draft.stack) < MaxDepth
    PROVE  DraftInv'
<1> DEFINE n == Head(Head(draft.stack))
           rest == <<Tail(Head(draft.stack))>> \o Tail(draft.stack)
           sig == RangeOf(Signature(draft.fn))
<1>1. /\ draft \in Drafts /\ phase = "collecting"
      /\ draft.stack \in Seq(Seq(Nodes)) /\ draft.stack # <<>>
      /\ Head(draft.stack) # <<>> /\ draft.seen \in SUBSET Nodes
  BY DEF Visit, AsmTypeOK, Drafts
<1>2. Head(draft.stack) \in Seq(Nodes) /\ Tail(draft.stack) \in Seq(Seq(Nodes))
  BY <1>1, RangeOfTail
<1>3. /\ n \in Nodes /\ Tail(Head(draft.stack)) \in Seq(Nodes)
      /\ RangeOf(Head(draft.stack)) = {n} \cup RangeOf(Tail(Head(draft.stack)))
  BY <1>1, <1>2, RangeOfTail
<1>4. Children(n) \in Seq(Nodes)
  BY <1>3, AsmAssumption
<1>5. /\ rest \in Seq(Seq(Nodes))
      /\ Pending(rest) = RangeOf(Tail(Head(draft.stack))) \cup Pending(Tail(draft.stack))
  BY <1>2, <1>3, PendingPush
<1>6. Pending(<<Children(n)>> \o rest) = RangeOf(Children(n)) \cup Pending(rest)
  <2> HIDE DEF n, rest
  <2> QED BY <1>4, <1>5, PendingPush
<1>7. Pending(draft.stack) = {n} \cup Pending(rest)
  <2>1. Pending(draft.stack) = RangeOf(Head(draft.stack)) \cup Pending(Tail(draft.stack))
    BY <1>1, PendingTail
  <2> HIDE DEF n, rest
  <2> QED BY <2>1, <1>3, <1>5
<1>8. /\ draft'.fn = draft.fn
      /\ draft'.stack = <<Children(n)>> \o rest
      /\ draft'.seen = draft.seen \cup {n}
      /\ draft'.types = IF n \in Derived
                        THEN AddDef(draft.types, IrName[n], n) ELSE draft.types
  <2>1. draft' = [fn |-> draft.fn, stack |-> <<Children(n)>> \o rest,
                  types |-> IF n \in Derived
                            THEN AddDef(draft.types, IrName[n], n)
                            ELSE draft.types,
                  seen |-> draft.seen \cup {n}]
    BY DEF Visit
  <2> HIDE DEF n, rest
  <2> QED BY <2>1
<1>9. /\ Compiles(draft.fn) /\ sig \subseteq draft.seen \cup Pending(draft.stack)
      /\ \A m \in draft.seen :
            RangeOf(Children(m)) \subseteq draft.seen \cup Pending(draft.stack)
      /\ draft.seen \cup Pending(draft.stack) \subseteq ReachableFrom(sig)
      /\ DefinesOf(draft.types, draft.seen)
  BY <1>1 DEF DraftInv
<1>10. sig \in SUBSET Nodes
  BY <1>1, <1>9, SignatureIs DEF RangeOf, Drafts
<1>11. RangeOf(Children(n)) \subseteq ReachableFrom(sig)
  BY <1>7, <1>9, <1>10, ReachableFromIsClosed
<1>12. DefinesOf(draft'.types, draft'.seen)
  <2>1. CASE n \notin Derived
    <3> HIDE DEF n
    <3> QED BY <1>8, <1>9, <2>1 DEF DefinesOf
  <2>2. CASE n \in Derived
    <3>0. [name |-> IrName[n], of |-> n] \in TypeDefs
      BY <2>2 DEF TypeDefs
    <3> HIDE DEF n
    <3> DEFINE t == AddDef(draft.types, IrName[n], n)
    <3>1. /\ \A m : HasName(t, m) <=> HasName(draft.types, m) \/ m = IrName[n]
          /\ \A i \in DOMAIN t :
                \/ \E j \in DOMAIN draft.types : t[i] = draft.types[j]
                \/ t[i] = [name |-> IrName[n], of |-> n]
      <4>1. draft.types \in Seq(TypeDefs)
        BY <1>1 DEF Drafts
      <4> HIDE DEF t
      <4>2. t = AddDef(draft.types, IrName[n], n)
        BY DEF t
      <4> QED BY <4>1, <4>2, <3>0, AddDefAdds
    <3>2. draft'.types = t
      BY <1>8, <2>2
    <3> HIDE DEF t
    <3> QED BY <1>8, <1>9, <3>1, <3>2 DEF DefinesOf
  <2> QED BY <2>1, <2>2
<1> HIDE DEF n, rest
<1>13. \A m \in draft'.seen :
          RangeOf(Children(m)) \subseteq draft'.seen \cup Pending(draft'.stack)
  BY <1>6, <1>7, <1>8, <1>9
<1>14. sig \subseteq draft'.seen \cup Pending(draft'.stack)
  BY <1>6, <1>7, <1>8, <1>9
<1>15. draft'.seen \cup Pending(draft'.stack) \subseteq ReachableFrom(sig)
  BY <1>6, <1>7, <1>8, <1>9, <1>11
<1> QED BY <1>8, <1>9, <1>12, <1>13, <1>14, <1>15 DEF DraftInv

LEMMA PendingEmpty == Pending(<<>>) = {}
  BY DEF Pending

\* A finished descriptor has what its signature reaches.
LEMMA DescriptorIsExact ==
    ASSUME AsmTypeOK, DraftInv, phase = "collecting", draft.stack = <<>>
    PROVE  DescriptorInv(Descriptor(draft))
<1> DEFINE sig == RangeOf(Signature(draft.fn))
           d == Descriptor(draft)
<1>1. draft \in Drafts /\ draft.seen \in SUBSET Nodes /\ Compiles(draft.fn)
  BY DEF AsmTypeOK, Drafts, DraftInv
<1>2. sig \in SUBSET Nodes
  BY <1>1, SignatureIs DEF RangeOf, Drafts
<1>3. /\ sig \subseteq draft.seen /\ draft.seen \subseteq ReachableFrom(sig)
      /\ \A m \in draft.seen : RangeOf(Children(m)) \subseteq draft.seen
      /\ DefinesOf(draft.types, draft.seen)
  BY PendingEmpty DEF DraftInv
<1>4. ReachableFrom(sig) \subseteq draft.seen
  <2> HIDE DEF sig
  <2> QED BY <1>1, <1>2, <1>3, ReachableFromIsLeast
<1>5. /\ d.ir.name = d.name /\ d.ir.method = MethodOf(d.kind)
      /\ d.body = BodyOf(d.kind) /\ SignatureOf(d) = sig
      /\ d.types = draft.types /\ d.seen = draft.seen
  BY <1>1, DescriptorTyped DEF Drafts
<1> HIDE DEF sig, d
<1>6. DescriptorInv(d)
  BY <1>3, <1>4, <1>5 DEF DescriptorInv
<1> QED BY <1>6 DEF d

LEMMA CollectStep ==
    AsmTypeOK /\ AsmTypeOK' /\ CollectInv /\ [AsmNext]_asmVars => CollectInv'
<1> SUFFICES ASSUME AsmTypeOK, AsmTypeOK', CollectInv, [AsmNext]_asmVars
             PROVE  CollectInv'
  OBVIOUS
<1>1. ASSUME DraftInv', UNCHANGED procedures PROVE CollectInv'
  BY <1>1 DEF CollectInv, DescriptorInv
<1>2. ASSUME phase' # "collecting", UNCHANGED procedures PROVE CollectInv'
  BY <1>1, <1>2 DEF DraftInv
<1>3. ASSUME NEW f \in Functions, Describe(f) PROVE CollectInv'
  <2> DEFINE sig == Signature(f)
  <2>1. sig \in Seq(Nodes) /\ RangeOf(sig) \in SUBSET Nodes
    BY <1>3, SignatureIs DEF Describe, RangeOf
  <2>2. Pending(<<sig>>) = RangeOf(sig)
    BY DEF Pending
  <2>3. RangeOf(sig) \subseteq ReachableFrom(RangeOf(sig))
    BY <2>1, ReachableFromIsClosed
  <2>4. /\ draft'.fn = f /\ draft'.stack = <<sig>> /\ draft'.seen = {}
        /\ draft'.types = <<>> /\ Compiles(f) /\ UNCHANGED procedures
    BY <1>3 DEF Describe
  <2>5. DefinesOf(draft'.types, draft'.seen)
    BY <2>4 DEF DefinesOf
  <2> HIDE DEF sig
  <2>6. RangeOf(Signature(draft'.fn)) = RangeOf(sig)
    BY <2>4 DEF sig
  <2> QED BY <2>2, <2>3, <2>4, <2>5, <2>6, <1>1 DEF DraftInv
<1>4. CASE Visit
  <2>1. CASE Len(draft.stack) < MaxDepth
    BY <1>4, <2>1, <1>1, VisitKeeps DEF CollectInv, Visit
  <2>2. CASE ~(Len(draft.stack) < MaxDepth)
    BY <1>4, <2>2, <1>2 DEF Visit
  <2> QED BY <2>1, <2>2
<1>5. CASE Return
  <2>1. draft.stack \in Seq(Seq(Nodes)) /\ draft.stack # <<>> /\ draft \in Drafts
    BY <1>5 DEF Return, AsmTypeOK, Drafts
  <2>2. Pending(draft.stack) = Pending(Tail(draft.stack))
    <3>1. RangeOf(<<>>) = {}
      BY DEF RangeOf
    <3> QED BY <1>5, <2>1, <3>1, PendingTail DEF Return
  <2>3. /\ draft'.fn = draft.fn /\ draft'.stack = Tail(draft.stack)
        /\ draft'.types = draft.types /\ draft'.seen = draft.seen
        /\ UNCHANGED <<phase, procedures>>
    BY <1>5, <2>1 DEF Return, Drafts
  <2> QED BY <1>1, <2>2, <2>3 DEF CollectInv, DraftInv
<1>6. CASE Register
  <2>1. CASE HasName(procedures, draft.fn.name)
    BY <1>6, <2>1, <1>2 DEF Register
  <2>2. CASE ~HasName(procedures, draft.fn.name)
    <3> DEFINE d == Descriptor(draft)
    <3>1. DescriptorInv(d) /\ d.name = draft.fn.name /\ d \in Descriptors
      <4>1. draft \in Drafts /\ Compiles(draft.fn)
        BY <1>6 DEF AsmTypeOK, Drafts, CollectInv, DraftInv, Register
      <4> QED BY <1>6, <4>1, DescriptorIsExact, DescriptorTyped
              DEF CollectInv, Register, Drafts
    <3>2. procedures' = Append(procedures, d) /\ procedures \in Seq(Descriptors)
          /\ phase' # "collecting"
      BY <1>6, <2>2 DEF Register, AsmTypeOK
    <3> HIDE DEF d
    <3>3. /\ DOMAIN procedures' = DOMAIN procedures \cup {Len(procedures) + 1}
          /\ \A i \in DOMAIN procedures : procedures'[i] = procedures[i]
          /\ procedures'[Len(procedures) + 1] = d
      BY <3>1, <3>2
    <3>4. \A i \in DOMAIN procedures' : DescriptorInv(procedures'[i])
      BY <3>1, <3>3 DEF CollectInv
    <3>5. UniqueNames(procedures')
      BY <2>2, <3>1, <3>3 DEF CollectInv, UniqueNames, HasName
    <3> QED BY <3>2, <3>4, <3>5 DEF CollectInv, DraftInv, DescriptorInv
  <2> QED BY <2>1, <2>2
<1>7. ASSUME NEW l \in Layers, AddLayer(l) PROVE CollectInv'
  BY <1>7, <1>2 DEF AddLayer
<1>8. ASSUME NEW goal \in {"dump", "mount"}, StartExport(goal) PROVE CollectInv'
  BY <1>8, <1>2 DEF StartExport
<1>9. CASE ExportType \/ ExportProcedure \/ ExportEnds \/ MountProcedure
           \/ MountFallback \/ ApplyLayer \/ Serve
  BY <1>9, <1>2
     DEF ExportType, ExportProcedure, ExportEnds, MountProcedure, MountFallback,
         ApplyLayer, Serve
<1>10. CASE UNCHANGED asmVars
  BY <1>10, <1>1 DEF asmVars, CollectInv, DraftInv
<1> QED
  BY <1>3, <1>4, <1>5, <1>6, <1>7, <1>8, <1>9, <1>10 DEF AsmNext

LEMMA CollectInit == AsmInit => CollectInv
  BY DEF AsmInit, CollectInv, DraftInv, UniqueNames

LEMMA CollectAlways == AsmSpec => []CollectInv
  BY CollectInit, CollectStep, AsmTypeCorrect, PTL DEF AsmSpec

-----------------------------------------------------------------------------
(* Exporting.                                                              *)

IrInv == GoalInv /\ ExportInv

\* ExportInv of an IR, once the export has begun.
IrSoFar ==
    /\ ir.proc <= Len(procedures) + 1
    /\ Len(ir.procs) = ir.proc - 1
    /\ \A i \in DOMAIN ir.procs : ir.procs[i] = procedures[i].ir
    /\ \A i \in DOMAIN procedures : \A j \in DOMAIN procedures[i].types :
          Covered(i, j) => HasName(ir.types, procedures[i].types[j].name)
    /\ \A k \in DOMAIN ir.types : \E i \in DOMAIN procedures :
          /\ \E j \in DOMAIN procedures[i].types :
                ir.types[k] = procedures[i].types[j]
          /\ \A h \in 1..(i - 1) :
                ~HasName(procedures[h].types, ir.types[k].name)
    /\ UniqueNames(ir.types)

\* A definition of a procedure is merged into those of the IR.
LEMMA MergeAdds ==
    ASSUME NEW defs \in Seq(TypeDefs), NEW d \in TypeDefs,
           NEW t, t = AddDef(defs, d.name, d.of)
    PROVE  /\ \A m : HasName(t, m) <=> HasName(defs, m) \/ m = d.name
           /\ \A i \in DOMAIN t :
                 \/ \E j \in DOMAIN defs : t[i] = defs[j]
                 \/ t[i] = d /\ ~HasName(defs, d.name)
           /\ UniqueNames(defs) => UniqueNames(t)
<1>1. d = [name |-> d.name, of |-> d.of]
  BY DEF TypeDefs
<1> QED BY <1>1, AddDefAdds

\* One definition more.
LEMMA ExportTypeKeeps ==
    ASSUME AsmTypeOK, IrSoFar, ExportType
    PROVE  IrSoFar'
<1> DEFINE d == procedures[ir.proc].types[ir.type]
           t == AddDef(ir.types, d.name, d.of)
<1>1. /\ ir \in Irs /\ procedures \in Seq(Descriptors) /\ ir.proc <= Len(procedures)
      /\ ir.type \in Nat \ {0} /\ ir.proc \in Nat \ {0}
      /\ ir.types \in Seq(TypeDefs)
  BY DEF AsmTypeOK, Irs, ExportType
<1>2. ir.proc \in DOMAIN procedures /\ procedures[ir.proc] \in Descriptors
  BY <1>1
<1>3. procedures[ir.proc].types \in Seq(TypeDefs)
  BY <1>2 DEF Descriptors
<1>4. ir.type \in DOMAIN procedures[ir.proc].types /\ d \in TypeDefs
  BY <1>1, <1>3 DEF ExportType
<1>5. d = [name |-> d.name, of |-> d.of]
  BY <1>4 DEF TypeDefs
<1>6. /\ ir'.proc = ir.proc /\ ir'.type = ir.type + 1 /\ ir'.procs = ir.procs
      /\ ir'.types = t /\ procedures' = procedures
  BY DEF ExportType
<1>7. /\ \A m : HasName(t, m) <=> HasName(ir.types, m) \/ m = d.name
      /\ \A i \in DOMAIN t :
            \/ \E j \in DOMAIN ir.types : t[i] = ir.types[j]
            \/ t[i] = d /\ ~HasName(ir.types, d.name)
      /\ UniqueNames(ir.types) => UniqueNames(t)
  <2> HIDE DEF d
  <2>1. t = AddDef(ir.types, d.name, d.of)
    OBVIOUS
  <2> HIDE DEF t
  <2>2. PICK defs \in Seq(TypeDefs), e \in TypeDefs : defs = ir.types /\ e = d
    BY <1>1, <1>4
  <2>3. t = AddDef(defs, e.name, e.of)
    BY <2>1, <2>2
  <2> HIDE DEF t
  <2>4. /\ \A m : HasName(t, m) <=> HasName(defs, m) \/ m = e.name
        /\ \A i \in DOMAIN t :
              \/ \E j \in DOMAIN defs : t[i] = defs[j]
              \/ t[i] = e /\ ~HasName(defs, e.name)
        /\ UniqueNames(defs) => UniqueNames(t)
    BY <2>3, MergeAdds
  <2> QED BY <2>2, <2>4
<1> HIDE DEF t
<1>8. ASSUME NEW i \in DOMAIN procedures, NEW j \in DOMAIN procedures[i].types,
             Covered(i, j)'
      PROVE  HasName(t, procedures[i].types[j].name)
  <2>0. procedures[i] \in Descriptors
    BY <1>1
  <2>1. j \in Nat /\ i \in Nat
    BY <1>1, <2>0 DEF Descriptors
  <2>2. Covered(i, j) \/ (i = ir.proc /\ j = ir.type)
    BY <1>1, <1>6, <1>8, <2>1 DEF Covered
  <2> QED BY <1>7, <2>2 DEF IrSoFar
<1>9. ASSUME NEW k \in DOMAIN t
      PROVE  \E i \in DOMAIN procedures :
                 /\ \E j \in DOMAIN procedures[i].types : t[k] = procedures[i].types[j]
                 /\ \A h \in 1..(i - 1) : ~HasName(procedures[h].types, t[k].name)
  <2>1. CASE \E j \in DOMAIN ir.types : t[k] = ir.types[j]
    BY <2>1 DEF IrSoFar
  <2>2. CASE t[k] = d /\ ~HasName(ir.types, d.name)
    \* A procedure before this one has no definition of the name: it would be in.
    <3>1. ASSUME NEW h \in 1..(ir.proc - 1), HasName(procedures[h].types, d.name)
          PROVE  FALSE
      <4>1. PICK j \in DOMAIN procedures[h].types : procedures[h].types[j].name = d.name
        BY <3>1 DEF HasName
      <4>2. h \in DOMAIN procedures /\ Covered(h, j)
        BY <1>1 DEF Covered
      <4> QED BY <2>2, <4>1, <4>2 DEF IrSoFar
    <3>2. \A h \in 1..(ir.proc - 1) : ~HasName(procedures[h].types, t[k].name)
      BY <2>2, <3>1
    <3> QED BY <1>2, <1>4, <2>2, <3>2
  <2> QED BY <1>7, <2>1, <2>2
<1> QED BY <1>6, <1>7, <1>8, <1>9 DEF IrSoFar

\* One procedure more.
LEMMA ExportProcedureKeeps ==
    ASSUME AsmTypeOK, IrSoFar, ExportProcedure
    PROVE  IrSoFar'
<1>1. /\ ir \in Irs /\ procedures \in Seq(Descriptors) /\ ir.proc <= Len(procedures)
      /\ ir.type \in Nat \ {0} /\ ir.proc \in Nat \ {0}
      /\ ir.procs \in Seq(ProcIrs) /\ ir.type > Len(procedures[ir.proc].types)
  BY DEF AsmTypeOK, Irs, ExportProcedure
<1>2. ir.proc \in DOMAIN procedures /\ procedures[ir.proc] \in Descriptors
  BY <1>1
<1>3. procedures[ir.proc].types \in Seq(TypeDefs) /\ procedures[ir.proc].ir \in ProcIrs
  BY <1>2 DEF Descriptors
<1>4. /\ ir'.proc = ir.proc + 1 /\ ir'.type = 1
      /\ ir'.procs = Append(ir.procs, procedures[ir.proc].ir)
      /\ ir'.types = ir.types /\ procedures' = procedures
  BY DEF ExportProcedure
<1>5. ASSUME NEW i \in DOMAIN procedures, NEW j \in DOMAIN procedures[i].types,
             Covered(i, j)'
      PROVE  Covered(i, j)
  <2>0. procedures[i] \in Descriptors
    BY <1>1
  <2>1. j \in 1..Len(procedures[i].types) /\ i \in Nat /\ Len(procedures[i].types) \in Nat
    BY <1>1, <2>0 DEF Descriptors
  <2> QED BY <1>1, <1>4, <1>5, <2>1 DEF Covered
<1>6. Len(ir.procs) = ir.proc - 1
  BY DEF IrSoFar
<1>7. /\ Len(ir'.procs) = ir'.proc - 1
      /\ \A i \in DOMAIN ir'.procs : ir'.procs[i] = procedures[i].ir
  <2>1. Len(ir'.procs) = Len(ir.procs) + 1
    BY <1>1, <1>3, <1>4
  <2>2. \A i \in DOMAIN ir'.procs :
            \/ i \in DOMAIN ir.procs /\ ir'.procs[i] = ir.procs[i]
            \/ i = Len(ir.procs) + 1 /\ ir'.procs[i] = procedures[ir.proc].ir
    BY <1>1, <1>3, <1>4
  <2> QED BY <1>1, <1>4, <1>6, <2>1, <2>2 DEF IrSoFar
<1>8. ir'.proc <= Len(procedures) + 1
  BY <1>1, <1>4
<1> QED BY <1>4, <1>5, <1>7, <1>8 DEF IrSoFar

LEMMA IrStep ==
    AsmTypeOK /\ AsmTypeOK' /\ IrInv /\ [AsmNext]_asmVars => IrInv'
<1> SUFFICES ASSUME AsmTypeOK, AsmTypeOK', IrInv, [AsmNext]_asmVars
             PROVE  IrInv'
  OBVIOUS
<1>0. ir \in Irs /\ procedures \in Seq(Descriptors) /\ Len(procedures) \in Nat
  BY DEF AsmTypeOK, Irs
<1>a. ASSUME phase \notin {"building", "collecting"}, ir.goal # "none" PROVE IrSoFar
  BY <1>a DEF IrInv, ExportInv, IrSoFar
<1>b. ASSUME IrSoFar', GoalInv' PROVE IrInv'
  BY <1>b DEF IrInv, ExportInv, IrSoFar
<1>1. ASSUME phase \in {"building", "collecting"}, UNCHANGED ir,
             phase' \in {"building", "collecting", "panicked", "aborted"}
      PROVE  IrInv'
  <2>1. ir' = NoIr /\ ir'.goal = "none"
    BY <1>1, NoIrTyped DEF IrInv, GoalInv
  <2> QED BY <1>1, <2>1 DEF IrInv, GoalInv, ExportInv, Exported
<1>2. ASSUME UNCHANGED <<ir, procedures>>, phase \in Exported,
             phase' \in Exported \cup {"panicked"}
      PROVE  IrInv'
  <2>1. IrSoFar /\ ir.proc = Len(procedures) + 1 /\ ir.goal # "none"
    BY <1>2, <1>a DEF IrInv, GoalInv, Exported
  <2>2. IrSoFar'
    BY <1>2, <2>1 DEF IrSoFar, Covered
  <2>3. GoalInv'
    BY <1>2, <2>1 DEF GoalInv, Exported
  <2> QED BY <2>2, <2>3, <1>b
<1>3. CASE (\E f \in Functions : Describe(f)) \/ Visit \/ Return \/ Register
           \/ (\E l \in Layers : AddLayer(l))
  <2>1. phase \in {"building", "collecting"} /\ UNCHANGED ir
    BY <1>3 DEF Describe, Visit, Return, Register, AddLayer
  <2>2. phase' \in {"building", "collecting", "panicked", "aborted"}
    BY <1>3 DEF Describe, Visit, Return, Register, AddLayer
  <2> QED BY <2>1, <2>2, <1>1
<1>4. ASSUME NEW goal \in {"dump", "mount"}, StartExport(goal) PROVE IrInv'
  <2>1. /\ ir'.goal = goal /\ ir'.proc = 1 /\ ir'.type = 1
        /\ ir'.procs = <<>> /\ ir'.types = <<>> /\ procedures' = procedures
        /\ phase' = "exporting"
    BY <1>4 DEF StartExport, NoIr
  <2>2. ASSUME NEW i \in DOMAIN procedures, NEW j \in DOMAIN procedures[i].types
        PROVE  ~Covered(i, j)'
    <3>1. procedures[i] \in Descriptors
      BY <1>0
    <3>2. j \in 1..Len(procedures[i].types) /\ i \in 1..Len(procedures)
          /\ Len(procedures[i].types) \in Nat
      BY <1>0, <3>1 DEF Descriptors
    <3> QED BY <1>0, <2>1, <3>2 DEF Covered
  <2>3. IrSoFar'
    BY <1>0, <2>1, <2>2 DEF IrSoFar, UniqueNames
  <2>4. GoalInv'
    BY <2>1 DEF GoalInv, Exported
  <2> QED BY <2>3, <2>4, <1>b
<1>5. CASE ExportType
  <2>1. IrSoFar'
    BY <1>5, <1>a, ExportTypeKeeps DEF ExportType, IrInv, GoalInv
  <2>2. phase' = "exporting" /\ ir'.goal = ir.goal /\ ir.goal # "none"
    BY <1>5 DEF ExportType, IrInv, GoalInv
  <2> QED BY <2>1, <2>2, <1>b DEF GoalInv, Exported
<1>6. CASE ExportProcedure
  <2>1. IrSoFar'
    BY <1>6, <1>a, ExportProcedureKeeps DEF ExportProcedure, IrInv, GoalInv
  <2>2. phase' = "exporting" /\ ir'.goal = ir.goal /\ ir.goal # "none"
    BY <1>6 DEF ExportProcedure, IrInv, GoalInv
  <2> QED BY <2>1, <2>2, <1>b DEF GoalInv, Exported
<1>7. CASE ExportEnds
  <2>1. IrSoFar /\ ir.goal # "none" /\ UNCHANGED <<ir, procedures>>
        /\ ir.proc > Len(procedures) /\ phase' \in {"dumped", "mounting"}
    BY <1>7, <1>a DEF ExportEnds, IrInv, GoalInv
  <2>2. ir.proc = Len(procedures) + 1
    BY <1>0, <2>1 DEF IrSoFar, Irs
  <2>3. IrSoFar'
    BY <2>1 DEF IrSoFar, Covered
  <2> QED BY <2>1, <2>2, <2>3, <1>b DEF GoalInv, Exported
<1>8. CASE MountProcedure \/ MountFallback \/ ApplyLayer \/ Serve
  <2>1. phase \in Exported /\ UNCHANGED <<ir, procedures>>
    BY <1>8 DEF MountProcedure, MountFallback, ApplyLayer, Serve, Exported
  <2>2. phase' \in Exported \cup {"panicked"}
    BY <1>8 DEF MountProcedure, MountFallback, ApplyLayer, Serve, Exported
  <2> QED BY <2>1, <2>2, <1>2
<1>9. CASE UNCHANGED asmVars
  BY <1>9 DEF asmVars, IrInv, GoalInv, ExportInv, Covered
<1> QED
  BY <1>3, <1>4, <1>5, <1>6, <1>7, <1>8, <1>9 DEF AsmNext

LEMMA IrAlways == AsmSpec => []IrInv
<1>1. AsmInit => IrInv
  BY NoIrTyped DEF AsmInit, IrInv, GoalInv, ExportInv, Exported
<1> QED BY <1>1, IrStep, AsmTypeCorrect, PTL DEF AsmSpec

\* What a finished export has.
LEMMA ExactWhenExported ==
    ASSUME AsmTypeOK, CollectInv, IrInv, phase \in Exported
    PROVE  /\ IrIsExact
           /\ \A k \in DOMAIN ir.types :
                 /\ ir.types[k].of \in ReachableFrom(SignatureTypes) \cap Derived
                 /\ ir.types[k].name = IrName[ir.types[k].of]
<1> DEFINE all == ReachableFrom(SignatureTypes)
           By(i) == ReachableFrom(SignatureOf(procedures[i])) \cap Derived
<1>1. IrSoFar /\ ir.proc = Len(procedures) + 1
  BY DEF IrInv, GoalInv, ExportInv, IrSoFar, Exported
<1>2. procedures \in Seq(Descriptors) /\ Len(procedures) \in Nat
  BY DEF AsmTypeOK
<1>3. \A i \in DOMAIN procedures :
         /\ procedures[i].seen = ReachableFrom(SignatureOf(procedures[i]))
         /\ DefinesOf(procedures[i].types, procedures[i].seen)
  BY DEF CollectInv, DescriptorInv
<1>4. \A m : m \in all <=> \E i \in DOMAIN procedures : m \in procedures[i].seen
  BY <1>3 DEF SignatureTypes, SignatureOf, ReachableFrom
<1> HIDE DEF all, By
<1>5. ASSUME NEW n \in all \cap Derived PROVE HasName(ir.types, IrName[n])
  <2>1. PICK i \in DOMAIN procedures : n \in procedures[i].seen
    BY <1>4
  <2>2. PICK j \in DOMAIN procedures[i].types : procedures[i].types[j].name = IrName[n]
    BY <1>3, <2>1 DEF DefinesOf, HasName
  <2>3. Covered(i, j)
    BY <1>1, <1>2 DEF Covered
  <2> QED BY <1>1, <2>2, <2>3 DEF IrSoFar
<1>6. ASSUME NEW k \in DOMAIN ir.types
      PROVE  /\ ir.types[k].of \in all \cap Derived
             /\ ir.types[k].name = IrName[ir.types[k].of]
             /\ \E i \in DOMAIN procedures :
                   /\ ir.types[k].of \in By(i)
                   /\ \A h \in 1..(i - 1), m \in Derived :
                         m \in By(h) => IrName[m] # ir.types[k].name
  <2>1. PICK i \in DOMAIN procedures :
            /\ \E j \in DOMAIN procedures[i].types :
                  ir.types[k] = procedures[i].types[j]
            /\ \A h \in 1..(i - 1) : ~HasName(procedures[h].types, ir.types[k].name)
    BY <1>1 DEF IrSoFar
  <2>2. PICK j \in DOMAIN procedures[i].types :
            ir.types[k] = procedures[i].types[j]
    BY <2>1
  <2>3. procedures[i].types \in Seq(TypeDefs)
    <3>1. procedures[i] \in Descriptors
      BY <1>2
    <3> QED BY <3>1 DEF Descriptors
  <2>4. procedures[i].types[j] \in TypeDefs
    BY <2>3
  <2>5. procedures[i].types[j].of \in Derived
    BY <2>4 DEF TypeDefs
  <2>6. /\ procedures[i].types[j].of \in procedures[i].seen
        /\ procedures[i].types[j].name = IrName[procedures[i].types[j].of]
    BY <1>3 DEF DefinesOf
  <2>7. ir.types[k].of \in By(i)
    BY <1>3, <2>2, <2>5, <2>6 DEF By
  <2>8. ASSUME NEW h \in 1..(i - 1), NEW m \in Derived, m \in By(h)
        PROVE  IrName[m] # ir.types[k].name
    <3>1. h \in DOMAIN procedures
      BY <1>2
    <3>2. HasName(procedures[h].types, IrName[m])
      BY <1>3, <2>8, <3>1 DEF DefinesOf, By
    <3> QED BY <2>1, <3>2
  <2> QED BY <1>4, <2>2, <2>5, <2>6, <2>7, <2>8
<1>7. UniqueNames(ir.types)
  BY <1>1 DEF IrSoFar
<1> QED BY <1>5, <1>6, <1>7 DEF IrIsExact, all, By

\* The IR is exact.
THEOREM IrExact == AsmSpec => []IrIsExact
<1>1. AsmTypeOK /\ CollectInv /\ IrInv => IrIsExact
  BY ExactWhenExported DEF IrIsExact
<1> QED
  BY <1>1, AsmTypeCorrect, CollectAlways, IrAlways, PTL DEF AsmSpec

-----------------------------------------------------------------------------
(* Mounting.                                                               *)

RouteInv == MountInv /\ OnlyReservedNamesPanic

BuiltinEndpoints == {Endpoint(b, "GET") : b \in Builtins}

\* A descriptor's endpoint is taken only by a built-in route.
LEMMA TakenIsReserved ==
    ASSUME AsmTypeOK, CollectInv, MountInv, phase = "mounting",
           mounted < Len(procedures),
           EndpointOf(procedures[mounted + 1]) \in DOMAIN service
    PROVE  /\ procedures[mounted + 1].ir.method = "GET"
           /\ procedures[mounted + 1].name \in Builtins
<1> DEFINE d == procedures[mounted + 1]
<1>1. mounted \in Nat /\ mounted + 1 \in DOMAIN procedures /\ 1..mounted \subseteq DOMAIN procedures
  BY DEF AsmTypeOK
<1>2. \A i \in 1..mounted : procedures[i].name # d.name
  BY <1>1 DEF CollectInv, UniqueNames
<1>3. DOMAIN service = {EndpointOf(procedures[i]) : i \in 1..mounted} \cup BuiltinEndpoints
  BY DEF MountInv, BuiltinEndpoints
<1>4. \A i \in 1..mounted : EndpointOf(procedures[i]) # EndpointOf(d)
  BY <1>2 DEF EndpointOf, Endpoint
<1>5. PICK b \in Builtins : EndpointOf(d) = Endpoint(b, "GET")
  BY <1>3, <1>4 DEF BuiltinEndpoints
<1>6. d.name = b /\ MethodOf(d.kind) = "GET"
  BY <1>5 DEF EndpointOf, Endpoint
<1>7. d.ir.method = MethodOf(d.kind)
  BY <1>1 DEF CollectInv, DescriptorInv
<1> QED BY <1>6, <1>7

LEMMA RouteStep ==
    AsmTypeOK /\ AsmTypeOK' /\ CollectInv /\ IrInv /\ RouteInv /\ [AsmNext]_asmVars
        => RouteInv'
<1> SUFFICES ASSUME AsmTypeOK, AsmTypeOK', CollectInv, IrInv, RouteInv,
                    [AsmNext]_asmVars
             PROVE  RouteInv'
  OBVIOUS
<1>0. /\ procedures \in Seq(Descriptors) /\ Len(procedures) \in Nat
      /\ mounted \in 0..Len(procedures) /\ applied \in 0..Len(layers)
      /\ layers \in Seq(Layers)
  BY DEF AsmTypeOK
<1>1. CASE (\E f \in Functions : Describe(f)) \/ Visit \/ Return \/ Register
           \/ (\E l \in Layers : AddLayer(l))
  <2>1. /\ phase \in {"building", "collecting"}
        /\ phase' \in {"building", "collecting", "panicked", "aborted"}
        /\ UNCHANGED <<ir, mounted, applied>>
    BY <1>1 DEF Describe, Visit, Return, Register, AddLayer
  <2>2. ir.goal = "none"
    BY <2>1, NoIrTyped DEF IrInv, GoalInv
  <2> QED BY <2>1, <2>2 DEF RouteInv, MountInv, OnlyReservedNamesPanic
<1>2. CASE (\E goal \in {"dump", "mount"} : StartExport(goal)) \/ ExportType
           \/ ExportProcedure
  <2>1. /\ phase \in {"building", "exporting"} /\ phase' = "exporting"
        /\ UNCHANGED <<mounted, applied>>
    BY <1>2 DEF StartExport, ExportType, ExportProcedure
  <2> QED BY <2>1 DEF RouteInv, MountInv, OnlyReservedNamesPanic
<1>3. CASE ExportEnds
  <2>1. mounted = 0 /\ applied = 0 /\ UNCHANGED <<procedures, layers, mounted, applied>>
    BY <1>3 DEF ExportEnds, RouteInv, MountInv
  <2>2. CASE ir.goal = "dump"
    BY <1>3, <2>1, <2>2 DEF ExportEnds, RouteInv, MountInv, OnlyReservedNamesPanic
  <2>3. CASE ir.goal # "dump"
    <3>1. phase' = "mounting" /\ service' = [e \in BuiltinEndpoints |-> <<>>]
      BY <1>3, <2>3 DEF ExportEnds, BuiltinEndpoints
    <3>2. 1..mounted' = {} /\ LayersAround(applied)' = <<>>
      BY <2>1 DEF LayersAround
    <3>3. DOMAIN service' = {EndpointOf(procedures[i])' : i \in 1..mounted'}
                            \cup BuiltinEndpoints
      BY <3>1, <3>2
    <3>4. \A e \in DOMAIN service' : service'[e] = LayersAround(applied)'
      BY <3>1, <3>2
    <3> QED
      BY <2>1, <3>1, <3>2, <3>3, <3>4
      DEF RouteInv, MountInv, OnlyReservedNamesPanic, BuiltinEndpoints
  <2> QED BY <2>2, <2>3
<1>4. CASE MountProcedure
  <2> DEFINE d == procedures[mounted + 1]
             e == EndpointOf(d)
  <2>1. /\ phase = "mounting" /\ mounted < Len(procedures)
        /\ UNCHANGED <<procedures, layers, ir, applied>>
        /\ mounted + 1 \in DOMAIN procedures
    BY <1>0, <1>4 DEF MountProcedure
  <2>2. d.body = BodyOf(d.kind)
    BY <2>1 DEF CollectInv, DescriptorInv
  <2>3. CASE e \in DOMAIN service
    <3>1. d.ir.method = "GET" /\ d.name \in Builtins
      BY <2>1, <2>3, TakenIsReserved DEF RouteInv
    <3>2. phase' = "panicked" /\ UNCHANGED <<service, mounted>>
      BY <1>4, <2>3 DEF MountProcedure, EndpointOf
    <3> QED BY <2>1, <3>1, <3>2 DEF RouteInv, MountInv, OnlyReservedNamesPanic
  <2>4. CASE e \notin DOMAIN service
    <3>1. AddEndpoint(e) /\ mounted' = mounted + 1 /\ UNCHANGED phase
      BY <1>4, <2>2, <2>4 DEF MountProcedure, EndpointOf
    <3>2. /\ DOMAIN service = {EndpointOf(procedures[i]) : i \in 1..mounted}
                              \cup BuiltinEndpoints
          /\ \A i \in 1..mounted : EndpointOf(procedures[i]) \notin BuiltinEndpoints
          /\ \A x \in DOMAIN service : service[x] = LayersAround(applied)
          /\ applied = 0
      BY <2>1 DEF RouteInv, MountInv, BuiltinEndpoints
    <3>3. 1..mounted' = 1..mounted \cup {mounted + 1}
      BY <1>0, <3>1
    <3>4. DOMAIN service' = DOMAIN service \cup {e}
      <4> HIDE DEF e
      <4> QED BY <3>1 DEF AddEndpoint
    <3>5. DOMAIN service' = {EndpointOf(procedures[i]) : i \in 1..mounted'}
                            \cup BuiltinEndpoints
      BY <3>2, <3>3, <3>4
    <3>6. LayersAround(0) = <<>>
      BY DEF LayersAround
    <3>7. \A x \in DOMAIN service' : service'[x] = LayersAround(applied)
      <4> HIDE DEF e
      <4> QED BY <3>1, <3>2, <3>4, <3>6 DEF AddEndpoint
    <3>8. \A i \in 1..mounted' : EndpointOf(procedures[i]) \notin BuiltinEndpoints
      BY <2>4, <3>2, <3>3
    <3>9. LayersAround(applied)' = LayersAround(applied)
      BY <2>1 DEF LayersAround
    <3> QED
      BY <2>1, <3>1, <3>2, <3>5, <3>7, <3>8, <3>9
      DEF RouteInv, MountInv, OnlyReservedNamesPanic, BuiltinEndpoints, EndpointOf
  <2> QED BY <2>3, <2>4
<1>5. CASE MountFallback
  <2>1. /\ phase = "mounting" /\ phase' = "layering" /\ mounted = Len(procedures)
        /\ UNCHANGED <<procedures, layers, ir, mounted, applied>>
        /\ AddEndpoint(Fallback)
    BY <1>5 DEF MountFallback
  <2>2. /\ DOMAIN service = {EndpointOf(procedures[i]) : i \in 1..mounted}
                            \cup BuiltinEndpoints
        /\ \A i \in 1..mounted : EndpointOf(procedures[i]) \notin BuiltinEndpoints
        /\ \A x \in DOMAIN service : service[x] = LayersAround(applied)
        /\ applied = 0
    BY <2>1 DEF RouteInv, MountInv, BuiltinEndpoints
  <2>3. DOMAIN service' = DOMAIN service \cup {Fallback}
    BY <2>1 DEF AddEndpoint
  <2>4. LayersAround(0) = <<>> /\ LayersAround(applied)' = LayersAround(applied)
    BY <2>1 DEF LayersAround
  <2>5. \A x \in DOMAIN service' : service'[x] = LayersAround(applied)
    BY <2>1, <2>2, <2>3, <2>4 DEF AddEndpoint
  <2> QED
    BY <2>1, <2>2, <2>3, <2>4, <2>5
    DEF RouteInv, MountInv, OnlyReservedNamesPanic, BuiltinEndpoints, EndpointOf
<1>6. CASE ApplyLayer
  <2>1. /\ phase = "layering" /\ phase' = phase /\ applied < Len(layers)
        /\ applied' = applied + 1 /\ UNCHANGED <<procedures, layers, ir, mounted>>
        /\ service' = [e \in DOMAIN service |-> <<layers[applied + 1]>> \o service[e]]
    BY <1>6 DEF ApplyLayer
  <2>2. \A x \in DOMAIN service : service[x] = LayersAround(applied)
    BY <2>1 DEF RouteInv, MountInv
  <2>3. <<layers[applied + 1]>> \o LayersAround(applied) = LayersAround(applied + 1)
    <3>1. applied \in Nat /\ applied + 1 \in DOMAIN layers
      BY <1>0, <2>1
    <3>2. /\ LayersAround(applied) \in Seq(Layers)
          /\ LayersAround(applied + 1) \in Seq(Layers)
          /\ Len(LayersAround(applied)) = applied
          /\ Len(LayersAround(applied + 1)) = applied + 1
      <4>1. \A k \in 0..Len(layers) :
               LayersAround(k) \in Seq(Layers) /\ Len(LayersAround(k)) = k
        <5> SUFFICES ASSUME NEW k \in 0..Len(layers)
                     PROVE  LayersAround(k) \in Seq(Layers) /\ Len(LayersAround(k)) = k
          OBVIOUS
        <5>1. \A i \in 1..k : layers[k + 1 - i] \in Layers
          BY <1>0
        <5> QED BY <5>1 DEF LayersAround
      <4> QED BY <1>0, <2>1, <4>1
    <3> DEFINE s == <<layers[applied + 1]>> \o LayersAround(applied)
    <3>3. s \in Seq(Layers) /\ Len(s) = applied + 1
      BY <1>0, <3>1, <3>2
    <3>4. ASSUME NEW i \in 1..(applied + 1) PROVE s[i] = LayersAround(applied + 1)[i]
      <4>1. CASE i = 1
        BY <3>1, <3>2, <4>1 DEF LayersAround
      <4>2. CASE i # 1
        <5>1. s[i] = LayersAround(applied)[i - 1] /\ i - 1 \in 1..applied
          BY <3>1, <3>2, <4>2
        <5> QED BY <3>1, <5>1 DEF LayersAround
      <4> QED BY <4>1, <4>2
    <3> HIDE DEF s
    <3>5. s = LayersAround(applied + 1)
      BY <3>2, <3>3, <3>4
    <3> QED BY <3>5 DEF s
  <2>4. DOMAIN service' = DOMAIN service
        /\ \A x \in DOMAIN service' : service'[x] = LayersAround(applied + 1)
    BY <2>1, <2>2, <2>3
  <2>5. LayersAround(applied)' = LayersAround(applied + 1)
    BY <2>1 DEF LayersAround
  <2> QED BY <2>1, <2>4, <2>5 DEF RouteInv, MountInv, OnlyReservedNamesPanic, EndpointOf
<1>7. CASE Serve
  <2>1. /\ phase = "layering" /\ phase' = "serving" /\ applied = Len(layers)
        /\ UNCHANGED <<procedures, layers, ir, service, mounted, applied>>
    BY <1>7 DEF Serve
  <2>2. mounted = Len(procedures)
    BY <2>1 DEF RouteInv, MountInv
  <2>3. ASSUME NEW i \in DOMAIN procedures, procedures[i].ir.method = "GET"
        PROVE  procedures[i].name \notin Builtins
    <3>1. i \in 1..mounted
      BY <1>0, <2>2
    <3>2. EndpointOf(procedures[i]) \notin BuiltinEndpoints
      BY <2>1, <3>1 DEF RouteInv, MountInv, BuiltinEndpoints
    <3>3. procedures[i].ir.method = MethodOf(procedures[i].kind)
      BY DEF CollectInv, DescriptorInv
    <3> QED BY <2>3, <3>2, <3>3 DEF EndpointOf, Endpoint, BuiltinEndpoints
  <2>4. OnlyReservedNamesPanic'
    BY <2>1, <2>3 DEF OnlyReservedNamesPanic
  <2>5. LayersAround(applied)' = LayersAround(applied)
    BY <2>1 DEF LayersAround
  <2>6. MountInv'
    BY <2>1, <2>5 DEF RouteInv, MountInv, EndpointOf
  <2> QED BY <2>4, <2>6 DEF RouteInv
<1>8. CASE UNCHANGED asmVars
  BY <1>8 DEF asmVars, RouteInv, MountInv, OnlyReservedNamesPanic, EndpointOf, LayersAround
<1> QED
  BY <1>1, <1>2, <1>3, <1>4, <1>5, <1>6, <1>7, <1>8 DEF AsmNext

LEMMA RouteAlways == AsmSpec => []RouteInv
<1>1. AsmInit => RouteInv
  BY DEF AsmInit, RouteInv, MountInv, OnlyReservedNamesPanic
<1> QED
  BY <1>1, RouteStep, AsmTypeCorrect, CollectAlways, IrAlways, PTL DEF AsmSpec

\* Only reserved names make into_axum panic.
THEOREM OnlyReservedPanic == AsmSpec => []OnlyReservedNamesPanic
<1>1. RouteInv => OnlyReservedNamesPanic
  BY DEF RouteInv
<1> QED BY <1>1, RouteAlways, PTL DEF AsmSpec

\* No request gets around a layer.
THEOREM LayersApply == AsmSpec => []EveryRequestPassesEveryLayer
<1>1. RouteInv => EveryRequestPassesEveryLayer
  BY DEF RouteInv, MountInv, EveryRequestPassesEveryLayer
<1> QED BY <1>1, RouteAlways, PTL DEF AsmSpec

\* A serving router has the endpoints that the IR names.
LEMMA ClientCallsWhatIsMounted ==
    AsmTypeOK /\ CollectInv /\ IrInv /\ RouteInv => ClientMatchesServer
<1> SUFFICES ASSUME AsmTypeOK, CollectInv, IrInv, RouteInv, phase = "serving"
             PROVE  ClientMatchesServer
  BY DEF ClientMatchesServer
<1>1. IrSoFar /\ ir.proc = Len(procedures) + 1
  BY DEF IrInv, GoalInv, ExportInv, IrSoFar, Exported
<1>2. /\ procedures \in Seq(Descriptors) /\ Len(procedures) \in Nat
      /\ ir.procs \in Seq(ProcIrs)
  BY DEF AsmTypeOK
<1>3. DOMAIN ir.procs = DOMAIN procedures
  BY <1>1, <1>2 DEF IrSoFar
<1>4. \A i \in DOMAIN ir.procs :
          Endpoint(ir.procs[i].name, ir.procs[i].method) = EndpointOf(procedures[i])
  <2>1. \A i \in DOMAIN procedures :
            /\ procedures[i].ir.name = procedures[i].name
            /\ procedures[i].ir.method = MethodOf(procedures[i].kind)
    BY DEF CollectInv, DescriptorInv
  <2> QED BY <1>1, <1>3, <2>1 DEF IrSoFar, EndpointOf
<1>5. DOMAIN service = {EndpointOf(procedures[i]) : i \in 1..mounted}
                       \cup BuiltinEndpoints \cup {Fallback}
      /\ 1..mounted = DOMAIN procedures
  BY <1>2 DEF RouteInv, MountInv, BuiltinEndpoints
<1>6. {EndpointOf(procedures[i]) : i \in 1..mounted} =
      {Endpoint(ir.procs[i].name, ir.procs[i].method) : i \in DOMAIN ir.procs}
  BY <1>3, <1>4, <1>5
<1> QED BY <1>5, <1>6 DEF ClientMatchesServer, BuiltinEndpoints

\* The client calls what is mounted.
THEOREM ClientMatches == AsmSpec => []ClientMatchesServer
  BY ClientCallsWhatIsMounted, AsmTypeCorrect, CollectAlways, IrAlways, RouteAlways, PTL
  DEF AsmSpec

-----------------------------------------------------------------------------
(* The stack of collect_type_defs.                                         *)

\* What can be reached from parts of reachable types can be reached.
LEMMA ReachesOn ==
    ASSUME NEW roots \in SUBSET Nodes, NEW m \in ReachableFrom(roots),
           NEW c \in RangeOf(Children(m))
    PROVE  c \in ReachableFrom(roots)
  BY ReachableFromIsClosed

\* The parts of a type are types.
LEMMA PartsAreTypes ==
    ASSUME NEW n \in Nodes
    PROVE  RangeOf(Children(n)) \in SUBSET Nodes
  BY AsmAssumption DEF RangeOf

\* The types of k frames when n is called from the topmost of path.
Above(n, path, k) == [i \in 1..k |-> IF i = 1 THEN n ELSE path[i - 1]]

\* A stack that is about to make a call.
Calling(stack, sig, path, done) ==
    /\ stack \in Seq(Seq(Nodes)) /\ stack # <<>> /\ Head(stack) # <<>>
    /\ sig \in SUBSET Nodes
    /\ path \in [1..(Len(stack) - 1) -> Nodes]
    /\ \A i \in DOMAIN stack : FrameInv(stack, sig, path, done, i)
    /\ NestInv(sig, path, Len(stack) - 1)

\* What is called is part of what calls it.
LEMMA CallNests ==
    ASSUME NEW stack, NEW sig, NEW path, NEW done,
           Calling(stack, sig, path, done),
           NEW n, n = Head(Head(stack)),
           NEW k, k = Len(stack),
           NEW longer, longer = Above(n, path, k)
    PROVE  /\ n \in Nodes
           /\ longer \in [1..k -> Nodes]
           /\ NestInv(sig, longer, k)
<1>1. /\ stack \in Seq(Seq(Nodes)) /\ stack # <<>> /\ Head(stack) # <<>>
      /\ sig \in SUBSET Nodes /\ path \in [1..(k - 1) -> Nodes]
      /\ \A i \in DOMAIN stack : FrameInv(stack, sig, path, done, i)
      /\ NestInv(sig, path, k - 1)
  BY DEF Calling
<1>2. /\ k \in Nat \ {0} /\ Head(stack) = stack[1] /\ stack[1] \in Seq(Nodes)
      /\ DOMAIN stack = 1..k
  BY <1>1
<1>3. n \in Nodes /\ n \in RangeOf(stack[1])
  BY <1>1, <1>2, RangeOfTail
<1>a. k \in Nat /\ k > 0
  BY <1>2
<1>b. path \in [1..(k - 1) -> Nodes] /\ sig \in SUBSET Nodes
  BY <1>1
<1>4. \A i \in 1..k : longer[i] = IF i = 1 THEN n ELSE path[i - 1]
  BY DEF Above
<1>5. longer \in [1..k -> Nodes]
  <2>1. ASSUME NEW i \in 1..k, i # 1 PROVE path[i - 1] \in Nodes
    BY <1>a, <1>b, <2>1
  <2> QED BY <1>3, <2>1 DEF Above
<1>6. n \in PartsOf(stack, sig, path, 1)
  <2>1. FrameInv(stack, sig, path, done, 1)
    BY <1>1, <1>2
  <2> QED BY <2>1, <1>3 DEF FrameInv
<1>7. k > 1 => 1 \in 1..(k - 1) /\ path[1] \in Nodes /\ n \in RangeOf(Children(path[1]))
<2> SUFFICES ASSUME k > 1
             PROVE  1 \in 1..(k - 1) /\ path[1] \in Nodes /\ n \in RangeOf(Children(path[1]))
  OBVIOUS
<2>1. 1 \in 1..(k - 1) /\ 1 < Len(stack)
  BY <1>a
<2> QED BY <1>b, <1>6, <2>1 DEF PartsOf
<1>8. /\ \A i \in 1..(k - 1) : path[i] \in ReachableFrom(sig)
      /\ \A i, j \in 1..(k - 1) :
            i < j => path[i] \in ReachableFrom(RangeOf(Children(path[j])))
  BY <1>1 DEF NestInv
<1>9. n \in ReachableFrom(sig)
  <2>1. CASE k = 1
    <3>1. n \in sig
      BY <1>6, <2>1 DEF PartsOf
    <3> QED BY <1>1, <3>1, ReachableFromIsClosed
  <2>2. CASE k > 1
    BY <1>1, <1>7, <1>8, <2>2, ReachesOn
  <2> QED BY <1>2, <2>1, <2>2
<1>10. ASSUME NEW i \in 1..k PROVE longer[i] \in ReachableFrom(sig)
  <2>1. i # 1 => i - 1 \in 1..(k - 1)
    BY <1>2
  <2> QED BY <1>4, <1>8, <1>9, <2>1
<1>11. ASSUME NEW j \in 1..(k - 1)
       PROVE  n \in ReachableFrom(RangeOf(Children(path[j])))
  <2>1. /\ k > 1 /\ path[j] \in Nodes /\ RangeOf(Children(path[j])) \in SUBSET Nodes
    BY <1>a, <1>b, PartsAreTypes
  <2>2. CASE j = 1
    BY <1>7, <2>1, <2>2, ReachableFromIsClosed
  <2>3. CASE j # 1
    <3>1. path[1] \in ReachableFrom(RangeOf(Children(path[j])))
      BY <1>2, <1>7, <1>8, <2>1, <2>3
    <3> QED BY <1>7, <2>1, <3>1, ReachesOn
  <2> QED BY <2>2, <2>3
<1>12. ASSUME NEW i \in 1..k, NEW j \in 1..k, i < j
       PROVE  longer[i] \in ReachableFrom(RangeOf(Children(longer[j])))
  <2>1. longer[j] = path[j - 1] /\ j - 1 \in 1..(k - 1)
    BY <1>2, <1>4, <1>12
  <2>2. CASE i = 1
    BY <1>4, <1>11, <2>1, <2>2
  <2>3. CASE i # 1
    <3>1. i - 1 \in 1..(k - 1) /\ i - 1 < j - 1 /\ longer[i] = path[i - 1]
      BY <1>2, <1>4, <1>12, <2>3
    <3> QED BY <1>8, <2>1, <3>1
  <2> QED BY <2>2, <2>3
<1> QED BY <1>3, <1>5, <1>10, <1>12 DEF NestInv

\* The frames below a call keep what they had, but for the call.
LEMMA CallKeepsFrames ==
    ASSUME NEW stack, NEW sig, NEW path, NEW done,
           Calling(stack, sig, path, done),
           NEW n, n = Head(Head(stack)),
           NEW k, k = Len(stack),
           NEW longer, longer = Above(n, path, k),
           NEW higher,
           higher = <<Children(n)>> \o (<<Tail(Head(stack))>> \o Tail(stack))
    PROVE  /\ Len(higher) - 1 = k
           /\ \A i \in DOMAIN higher : FrameInv(higher, sig, longer, done, i)
<1>1. /\ stack \in Seq(Seq(Nodes)) /\ stack # <<>> /\ Head(stack) # <<>>
      /\ \A i \in DOMAIN stack : FrameInv(stack, sig, path, done, i)
  BY DEF Calling
<1>2. /\ k \in Nat \ {0} /\ Head(stack) = stack[1] /\ stack[1] \in Seq(Nodes)
      /\ DOMAIN stack = 1..k
  BY <1>1
<1>a. k \in Nat /\ k > 0
  BY <1>2
<1>3. /\ RangeOf(stack[1]) = {n} \cup RangeOf(Tail(stack[1]))
      /\ Tail(stack[1]) \in Seq(Nodes) /\ n \in Nodes
  <2>1. stack[1] \in Seq(Nodes) /\ stack[1] # <<>> /\ n = Head(stack[1])
    BY <1>1, <1>2
  <2> QED BY <2>1, RangeOfTail
<1>4. Children(n) \in Seq(Nodes)
  BY <1>3, AsmAssumption
<1>5. /\ Len(higher) = k + 1 /\ DOMAIN higher = 1..(k + 1)
      /\ higher[1] = Children(n) /\ higher[2] = Tail(stack[1])
      /\ \A i \in 3..(k + 1) : higher[i] = stack[i - 1]
  <2> DEFINE rest == <<Tail(Head(stack))>> \o Tail(stack)
  <2>1. /\ rest \in Seq(Seq(Nodes)) /\ Len(rest) = k /\ rest[1] = Tail(stack[1])
        /\ \A i \in 2..k : rest[i] = stack[i]
    <3>1. /\ Tail(stack) \in Seq(Seq(Nodes)) /\ Len(Tail(stack)) = k - 1
          /\ \A i \in 1..(k - 1) : Tail(stack)[i] = stack[i + 1]
      BY <1>1, <1>2
    <3> DEFINE t == Tail(stack)
               h == Tail(Head(stack))
    <3>2. h \in Seq(Nodes) /\ h = Tail(stack[1])
      BY <1>2, <1>3
    <3> HIDE DEF t, h
    <3>3. /\ <<h>> \o t \in Seq(Seq(Nodes)) /\ Len(<<h>> \o t) = k
          /\ (<<h>> \o t)[1] = h /\ \A i \in 2..k : (<<h>> \o t)[i] = t[i - 1]
      BY <1>2, <3>1, <3>2 DEF t
    <3>4. \A i \in 2..k : t[i - 1] = stack[i]
      BY <1>2, <3>1 DEF t
    <3> QED BY <3>2, <3>3, <3>4 DEF t, h
  <2> HIDE DEF rest
  <2>2. higher = <<Children(n)>> \o rest
    BY DEF rest
  <2>3. /\ Len(higher) = k + 1 /\ DOMAIN higher = 1..(k + 1)
        /\ higher[1] = Children(n)
        /\ \A i \in 2..(k + 1) : higher[i] = rest[i - 1]
    <3> DEFINE c == Children(n)
    <3>1. c \in Seq(Nodes) /\ rest \in Seq(Seq(Nodes)) /\ Len(rest) = k
      BY <1>4, <2>1
    <3> HIDE DEF c
    <3>2. /\ Len(<<c>> \o rest) = k + 1 /\ DOMAIN (<<c>> \o rest) = 1..(k + 1)
          /\ (<<c>> \o rest)[1] = c
      BY <1>a, <3>1
    <3>3. \A i \in 2..(k + 1) : (<<c>> \o rest)[i] = rest[i - 1]
      BY <1>a, <3>1
    <3> QED BY <2>2, <3>2, <3>3 DEF c
  <2>4. higher[2] = Tail(stack[1])
    BY <1>a, <2>1, <2>3
  <2>5. \A i \in 3..(k + 1) : higher[i] = stack[i - 1]
    BY <1>a, <2>1, <2>3
  <2> QED BY <2>3, <2>4, <2>5
<1>6. \A i \in 1..k : longer[i] = IF i = 1 THEN n ELSE path[i - 1]
  BY DEF Above
<1>7. /\ PartsOf(higher, sig, longer, 1) = RangeOf(Children(n))
      /\ \A i \in 2..(k + 1) :
            PartsOf(higher, sig, longer, i) = PartsOf(stack, sig, path, i - 1)
  <2>1. longer[1] = n /\ 1 < Len(higher)
    BY <1>a, <1>5, <1>6
  <2>2. ASSUME NEW i \in 2..(k + 1)
        PROVE  PartsOf(higher, sig, longer, i) = PartsOf(stack, sig, path, i - 1)
    <3>1. i < Len(higher) <=> i - 1 < Len(stack)
      BY <1>a, <1>5
    <3>2. i < Len(higher) => longer[i] = path[i - 1]
      BY <1>a, <1>5, <1>6
    <3> QED BY <3>1, <3>2 DEF PartsOf
  <2> QED BY <2>1, <2>2 DEF PartsOf
<1>8. FrameInv(higher, sig, longer, done, 1)
  <2>1. RangeOf(higher[1]) = PartsOf(higher, sig, longer, 1)
    BY <1>5, <1>7
  <2>2. ~(1 > 1)
    OBVIOUS
  <2> QED BY <2>1, <2>2, Zenon DEF FrameInv
<1>9. FrameInv(higher, sig, longer, done, 2)
  <2>1. 1 \in 1..k /\ 2 \in 2..(k + 1) /\ 2 - 1 = 1
    BY <1>a
  <2>2. FrameInv(stack, sig, path, done, 1) /\ longer[1] = n
    BY <1>1, <1>2, <1>6, <2>1
  <2>3. PartsOf(higher, sig, longer, 2) = PartsOf(stack, sig, path, 1)
    BY <1>7, <2>1
  <2>4. /\ RangeOf(stack[1]) \subseteq PartsOf(stack, sig, path, 1)
        /\ \A m \in PartsOf(stack, sig, path, 1) : m \in done \/ m \in RangeOf(stack[1])
    BY <2>2 DEF FrameInv
  <2>5. RangeOf(higher[2]) = RangeOf(Tail(stack[1])) /\ longer[2 - 1] = n
    BY <1>5, <2>1, <2>2
  <2>6. /\ RangeOf(higher[2]) \subseteq PartsOf(higher, sig, longer, 2)
        /\ longer[2 - 1] \in PartsOf(higher, sig, longer, 2)
        /\ \A m \in PartsOf(higher, sig, longer, 2) :
              m \in done \/ m \in RangeOf(higher[2]) \/ m = longer[2 - 1]
    BY <1>3, <2>3, <2>4, <2>5
  <2>7. 2 > 1
    OBVIOUS
  <2> QED BY <2>6, <2>7, Zenon DEF FrameInv
<1>10. ASSUME NEW i \in 3..(k + 1) PROVE FrameInv(higher, sig, longer, done, i)
  <2>0. i - 1 \in 1..k /\ i - 1 > 1 /\ i > 1 /\ i \in 2..(k + 1) /\ i - 1 # 1
    BY <1>a
  <2>1. /\ longer[i - 1] = path[(i - 1) - 1]
        /\ PartsOf(higher, sig, longer, i) = PartsOf(stack, sig, path, i - 1)
        /\ higher[i] = stack[i - 1]
    BY <1>5, <1>6, <1>7, <2>0
  <2>2. FrameInv(stack, sig, path, done, i - 1)
    BY <1>1, <1>2, <2>0
  <2> QED BY <2>0, <2>1, <2>2 DEF FrameInv
<1>11. \A i \in 1..(k + 1) : i = 1 \/ i = 2 \/ i \in 3..(k + 1)
  BY <1>a
<1>12. Len(higher) - 1 = k
  BY <1>a, <1>5
<1> QED BY <1>5, <1>8, <1>9, <1>10, <1>11, <1>12

\* A call whose type has no more parts to call returns: its type is done.
LEMMA ReturnKeepsCalls ==
    ASSUME NEW stack \in Seq(Seq(Nodes)), stack # <<>>, Head(stack) = <<>>,
           NEW sig \in SUBSET Nodes,
           NEW path \in [1..(Len(stack) - 1) -> Nodes], NEW done \in SUBSET Nodes,
           CallsInv(stack, sig, path, done),
           NEW lower, lower = Tail(stack)
    PROVE  \E p \in [1..(Len(lower) - 1) -> Nodes], d \in SUBSET Nodes :
               CallsInv(lower, sig, p, d)
<1> DEFINE k == Len(stack)
<1>1. /\ k \in Nat /\ k > 0 /\ stack[1] = <<>> /\ 1 \in DOMAIN stack
      /\ DOMAIN stack = 1..k
  OBVIOUS
<1>2. /\ Len(lower) = k - 1 /\ DOMAIN lower = 1..(k - 1)
      /\ \A i \in 1..(k - 1) : lower[i] = stack[i + 1]
  OBVIOUS
<1>3. path \in [1..(k - 1) -> Nodes]
  OBVIOUS
<1>4. /\ DoneInv(done) /\ NestInv(sig, path, k - 1)
      /\ \A i \in 1..k : FrameInv(stack, sig, path, done, i)
  BY <1>1 DEF CallsInv
<1>a. k \in Nat /\ k > 0 /\ k = Len(stack) /\ Len(lower) = k - 1
  BY <1>1, <1>2
<1> HIDE DEF k
<1>5. PartsOf(stack, sig, path, 1) \subseteq done
  <2>1. FrameInv(stack, sig, path, done, 1) /\ ~(1 > 1) /\ RangeOf(stack[1]) = {}
    BY <1>1, <1>4 DEF RangeOf
  <2> QED BY <2>1, Zenon DEF FrameInv
<1>6. CASE k = 1
  <2> DEFINE p == [i \in 1..(Len(lower) - 1) |-> i]
  <2>1. sig \subseteq done
    BY <1>5, <1>6 DEF PartsOf, k
  <2>2. /\ Len(lower) = 0 /\ DOMAIN lower = {} /\ 1..(Len(lower) - 1) = {}
    BY <1>2, <1>6
  <2>3. p \in [1..(Len(lower) - 1) -> Nodes]
    BY <2>2
  <2>4. NestInv(sig, p, Len(lower) - 1)
    BY <2>2 DEF NestInv
  <2>5. CallsInv(lower, sig, p, done)
    BY <1>4, <2>1, <2>2, <2>4 DEF CallsInv
  <2> QED BY <2>3, <2>5
<1>7. CASE k > 1
  <2> DEFINE n == path[1]
             p == [i \in 1..(Len(lower) - 1) |-> path[i + 1]]
             d == done \cup {n}
  <2>1. 1 \in 1..(k - 1) /\ n \in Nodes /\ Len(lower) - 1 = k - 2 /\ lower # <<>>
    <3>1. 1 \in 1..(k - 1)
      BY <1>a, <1>7
    <3>2. Len(lower) - 1 = k - 2
      BY <1>a
    <3>3. lower # <<>>
      <4>1. k - 1 \in Nat /\ k - 1 > 0
        BY <1>a, <1>7
      <4>3. ~(0 > 0)
        OBVIOUS
      <4>2. Len(<<>>) = 0
        OBVIOUS
      <4> QED BY <1>a, <4>1, <4>2, <4>3, Zenon
    <3> QED BY <1>3, <3>1, <3>2, <3>3
  <2>2. \A i \in 1..(k - 2) : i + 1 \in 1..(k - 1) /\ p[i] = path[i + 1]
    BY <1>1, <2>1
  <2>3. p \in [1..(Len(lower) - 1) -> Nodes]
    <3>1. \A i \in 1..(Len(lower) - 1) : path[i + 1] \in Nodes
      BY <1>1, <1>3, <2>1
    <3> QED BY <3>1
  <2>4. RangeOf(Children(n)) \subseteq done
    <3>1. 1 < Len(stack)
      BY <1>7 DEF k
    <3> QED BY <1>5, <3>1 DEF PartsOf
  <2>5. DoneInv(d)
    <3>1. ReachableFrom(RangeOf(Children(n))) \subseteq done
      BY <1>4, <2>1, <2>4, PartsAreTypes, ReachableFromIsLeast DEF DoneInv
    <3>2. ~Recursive(n)
      BY <1>4, <3>1 DEF DoneInv, Recursive
    <3> QED BY <1>4, <2>4, <3>2 DEF DoneInv
  <2> HIDE DEF p, d
  <2>6. ASSUME NEW i \in 1..(k - 1) PROVE FrameInv(lower, sig, p, d, i)
    <3>1. /\ i + 1 \in 1..k /\ lower[i] = stack[i + 1] /\ i + 1 > 1
          /\ (i + 1) - 1 = i /\ (i > 1 => i - 1 \in 1..(k - 2))
      BY <1>1, <1>2
    <3>2. FrameInv(stack, sig, path, done, i + 1)
      BY <1>4, <3>1
    <3>3. PartsOf(lower, sig, p, i) = PartsOf(stack, sig, path, i + 1)
      <4>1. i < Len(lower) <=> i + 1 < Len(stack)
        BY <1>a
      <4>2. i < Len(lower) => p[i] = path[i + 1]
        <5>1. i < Len(lower) => i \in 1..(k - 2)
          BY <1>a
        <5> QED BY <2>2, <5>1
      <4> QED BY <4>1, <4>2 DEF PartsOf
    <3>4. i > 1 => p[i - 1] = path[i]
      <4> SUFFICES ASSUME i > 1 PROVE p[i - 1] = path[i]
        OBVIOUS
      <4>1. i - 1 \in 1..(k - 2) /\ (i - 1) + 1 = i
        BY <3>1, <1>a
      <4>2. p[i - 1] = path[(i - 1) + 1]
        BY <2>2, <4>1
      <4> QED BY <4>1, <4>2
    <3>5. /\ RangeOf(lower[i]) \subseteq PartsOf(lower, sig, p, i)
          /\ path[i] \in PartsOf(lower, sig, p, i)
          /\ \A m \in PartsOf(lower, sig, p, i) :
                m \in done \/ m \in RangeOf(lower[i]) \/ m = path[i]
      BY <3>1, <3>2, <3>3 DEF FrameInv
    <3>6. i = 1 => path[i] \in d
      BY DEF d
    <3>7. i = 1 \/ i > 1
      BY <1>1
    <3> QED BY <3>4, <3>5, <3>6, <3>7 DEF FrameInv, d
  <2>7. NestInv(sig, p, Len(lower) - 1)
    <3>1. /\ \A i \in 1..(k - 1) : path[i] \in ReachableFrom(sig)
          /\ \A i, j \in 1..(k - 1) :
                i < j => path[i] \in ReachableFrom(RangeOf(Children(path[j])))
      BY <1>4 DEF NestInv
    <3>2. \A i, j \in 1..(k - 2) : i < j => i + 1 < j + 1
      BY <1>a
    <3>3. \A i \in 1..(k - 2) : p[i] \in ReachableFrom(sig)
      BY <2>2, <3>1
    <3>4. \A i, j \in 1..(k - 2) :
              i < j => p[i] \in ReachableFrom(RangeOf(Children(p[j])))
      BY <2>2, <3>1, <3>2
    <3> QED BY <2>1, <3>3, <3>4 DEF NestInv
  <2>8. CallsInv(lower, sig, p, d)
    <3>1. \A i \in DOMAIN lower : FrameInv(lower, sig, p, d, i)
      BY <1>2, <2>6
    <3> QED BY <2>1, <2>5, <2>7, <3>1 DEF CallsInv
  <2>9. d \in SUBSET Nodes
    BY <2>1 DEF d
  <2> QED BY <2>3, <2>8, <2>9
<1>8. k = 1 \/ k > 1
  BY <1>a
<1> QED BY <1>6, <1>7, <1>8, Zenon

\* One frame too many is for a type that occurs twice among the frames.
LEMMA OverflowIsRecursion ==
    ASSUME NEW stack, NEW sig, NEW path, NEW done,
           Calling(stack, sig, path, done), ~(Len(stack) < MaxDepth)
    PROVE  \E n \in ReachableFrom(sig) : Recursive(n)
<1> DEFINE k == Len(stack)
           n == Head(Head(stack))
           longer == Above(n, path, k)
<1>1. k \in Nat /\ sig \in SUBSET Nodes
  BY DEF Calling
<1> HIDE DEF k, n, longer
<1>2. longer \in [1..k -> Nodes] /\ NestInv(sig, longer, k)
  BY CallNests DEF k, n, longer
<1>3. IsFiniteSet(1..k) /\ Cardinality(1..k) = k
  <2>1. Cardinality(1..k) = IF 1 > k THEN 0 ELSE k - 1 + 1
    BY <1>1, FS_Interval
  <2>2. (IF 1 > k THEN 0 ELSE k - 1 + 1) = k
    BY <1>1
  <2> QED BY <1>1, <2>1, <2>2, FS_Interval
<1>4. Cardinality(Nodes) < k /\ IsFiniteSet(Nodes)
  <2>1. Cardinality(Nodes) \in Nat
    BY DepthAssumption, FS_CardinalityType
  <2> QED BY <1>1, <2>1, DepthAssumption DEF k
<1>5. PICK x, y \in 1..k : x # y /\ longer[x] = longer[y]
  BY <1>2, <1>3, <1>4, FS_PigeonHole
<1>6. ASSUME NEW i \in 1..k, NEW j \in 1..k, i < j, longer[i] = longer[j]
      PROVE  longer[i] \in ReachableFrom(sig) /\ Recursive(longer[i])
  BY <1>2, <1>6 DEF NestInv, Recursive
<1>7. x < y \/ y < x
  BY <1>1, <1>5
<1> QED BY <1>5, <1>6, <1>7

\* A procedure whose types have all returned mentions no recursive one.
LEMMA FinishedIsFlat ==
    ASSUME NEW sig \in SUBSET Nodes, NEW path, NEW done \in SUBSET Nodes,
           CallsInv(<<>>, sig, path, done)
    PROVE  \A n \in ReachableFrom(sig) : ~Recursive(n)
<1>1. DoneInv(done) /\ sig \subseteq done
  BY DEF CallsInv
<1>2. ReachableFrom(sig) \subseteq done
  BY <1>1, ReachableFromIsLeast DEF DoneInv
<1> QED BY <1>1, <1>2 DEF DoneInv

\* The types of the signatures, procedure by procedure.
LEMMA SignatureTypesAre ==
    ReachableFrom(SignatureTypes) =
        UNION {ReachableFrom(SignatureOf(procedures[i])) : i \in DOMAIN procedures}
  BY DEF ReachableFrom, SignatureTypes, SignatureOf

FlatProcedures ==
    \A i \in DOMAIN procedures :
        \A n \in ReachableFrom(SignatureOf(procedures[i])) : ~Recursive(n)

AbortedOverRecursion ==
    phase = "aborted" =>
        \E n \in ReachableFrom(RangeOf(Signature(draft.fn))) : Recursive(n)

WalkInv == StackInv /\ FlatProcedures /\ AbortedOverRecursion

\* A visit puts its type on top of those it is nested in, and a return moves it
\* to those that are done.
LEMMA WalkStep ==
    AsmTypeOK /\ CollectInv /\ WalkInv /\ [AsmNext]_asmVars => WalkInv'
<1> SUFFICES ASSUME AsmTypeOK, CollectInv, WalkInv, [AsmNext]_asmVars
             PROVE  WalkInv'
  OBVIOUS
<1> DEFINE sig == RangeOf(Signature(draft.fn))
<1>0. draft \in Drafts /\ procedures \in Seq(Descriptors)
  BY DEF AsmTypeOK, Drafts
<1>1. ASSUME UNCHANGED procedures, StackInv', AbortedOverRecursion' PROVE WalkInv'
  BY <1>1 DEF WalkInv, FlatProcedures, SignatureOf
<1>2. ASSUME UNCHANGED procedures, phase' # "collecting", phase' # "aborted"
      PROVE  WalkInv'
  BY <1>1, <1>2 DEF StackInv, AbortedOverRecursion
<1>3. ASSUME phase = "collecting" PROVE sig \in SUBSET Nodes
  BY <1>0, <1>3, SignatureIs DEF CollectInv, DraftInv, RangeOf, Drafts
<1>4. ASSUME phase = "collecting"
      PROVE  \E path \in [1..(Len(draft.stack) - 1) -> Nodes], done \in SUBSET Nodes :
                 CallsInv(draft.stack, sig, path, done)
  BY <1>4 DEF WalkInv, StackInv
<1> HIDE DEF sig
<1>5. ASSUME NEW f \in Functions, Describe(f) PROVE WalkInv'
  <2> DEFINE s == Signature(f)
             path == [i \in 1..(1 - 1) |-> i]
  <2>1. s \in Seq(Nodes)
    BY <1>5, SignatureIs DEF Describe
  <2>2. path \in [1..(1 - 1) -> Nodes]
    OBVIOUS
  <2>3. /\ draft'.fn = f /\ draft'.stack = <<s>> /\ UNCHANGED procedures
        /\ phase' = "collecting"
    BY <1>5 DEF Describe
  <2>4. Len(<<s>>) = 1 /\ DOMAIN <<s>> = {1} /\ <<s>>[1] = s /\ <<s>> # <<>>
    OBVIOUS
  <2> HIDE DEF s, path
  <2>5. FrameInv(<<s>>, RangeOf(s), path, {}, 1)
    <3>1. ~(1 > 1) /\ ~(1 < 1)
      OBVIOUS
    <3> QED BY <2>4, <3>1, Zenon DEF FrameInv, PartsOf
  <2>6. NestInv(RangeOf(s), path, 1 - 1)
    BY DEF NestInv
  <2>7. CallsInv(<<s>>, RangeOf(s), path, {})
    BY <2>4, <2>5, <2>6 DEF CallsInv, DoneInv
  <2>8. RangeOf(Signature(draft'.fn)) = RangeOf(s)
    BY <2>3 DEF s
  <2>9. StackInv'
    <3>1. path \in [1..(Len(draft'.stack) - 1) -> Nodes]
      BY <2>2, <2>3, <2>4
    <3> QED BY <2>3, <2>7, <2>8, <3>1 DEF StackInv
  <2> QED BY <1>1, <2>3, <2>9 DEF AbortedOverRecursion
<1>6. CASE Visit
  <2>1. /\ phase = "collecting" /\ draft.stack \in Seq(Seq(Nodes))
        /\ draft.stack # <<>> /\ Head(draft.stack) # <<>> /\ UNCHANGED procedures
    BY <1>0, <1>6 DEF Visit, Drafts
  <2>2. PICK path \in [1..(Len(draft.stack) - 1) -> Nodes], done \in SUBSET Nodes :
                 CallsInv(draft.stack, sig, path, done)
    BY <1>4, <2>1
  <2>3. Calling(draft.stack, sig, path, done) /\ DoneInv(done)
    BY <1>3, <2>1, <2>2 DEF Calling, CallsInv
  <2>4. CASE Len(draft.stack) < MaxDepth
    <3> DEFINE n == Head(Head(draft.stack))
               higher == <<Children(n)>> \o
                         (<<Tail(Head(draft.stack))>> \o Tail(draft.stack))
               longer == Above(n, path, Len(draft.stack))
    <3>1. draft'.fn = draft.fn /\ draft'.stack = higher /\ UNCHANGED phase
      <4>1. draft' = [fn |-> draft.fn, stack |-> higher,
                      types |-> IF n \in Derived
                                THEN AddDef(draft.types, IrName[n], n)
                                ELSE draft.types,
                      seen |-> draft.seen \cup {n}]
        BY <1>6, <2>4 DEF Visit
      <4> HIDE DEF n, higher
      <4> QED BY <1>6, <2>4, <4>1 DEF Visit
    <3> HIDE DEF n, higher, longer
    <3>2. longer \in [1..Len(draft.stack) -> Nodes]
          /\ NestInv(sig, longer, Len(draft.stack))
      BY <2>3, CallNests DEF n, longer
    <3>3. /\ Len(higher) - 1 = Len(draft.stack)
          /\ \A i \in DOMAIN higher : FrameInv(higher, sig, longer, done, i)
      BY <2>3, CallKeepsFrames DEF n, longer, higher
    <3>4. higher # <<>>
      <4>1. Len(draft.stack) \in Nat /\ Len(<<>>) = 0
        BY <2>1
      <4>2. Len(higher) # 0
        BY <3>3, <4>1
      <4> QED BY <4>1, <4>2
    <3>5. CallsInv(higher, sig, longer, done)
      BY <2>3, <3>2, <3>3, <3>4 DEF CallsInv
    <3>6. StackInv'
      BY <3>1, <3>2, <3>3, <3>5 DEF StackInv, sig
    <3> QED BY <1>1, <2>1, <3>1, <3>6 DEF AbortedOverRecursion
  <2>5. CASE ~(Len(draft.stack) < MaxDepth)
    <3>1. phase' = "aborted" /\ UNCHANGED draft
      BY <1>6, <2>5 DEF Visit
    <3>2. \E n \in ReachableFrom(sig) : Recursive(n)
      BY <2>3, <2>5, OverflowIsRecursion
    <3> QED BY <1>1, <2>1, <3>1, <3>2 DEF StackInv, AbortedOverRecursion, sig
  <2> QED BY <2>4, <2>5
<1>7. CASE Return
  <2>1. /\ phase = "collecting" /\ draft.stack \in Seq(Seq(Nodes))
        /\ draft.stack # <<>> /\ Head(draft.stack) = <<>>
        /\ draft'.fn = draft.fn /\ draft'.stack = Tail(draft.stack)
        /\ UNCHANGED <<procedures, phase>>
    BY <1>0, <1>7 DEF Return, Drafts
  <2>2. PICK path \in [1..(Len(draft.stack) - 1) -> Nodes], done \in SUBSET Nodes :
                 CallsInv(draft.stack, sig, path, done)
    BY <1>4, <2>1
  <2>3. sig \in SUBSET Nodes
    BY <1>3, <2>1
  <2>4. \E p \in [1..(Len(draft'.stack) - 1) -> Nodes], d \in SUBSET Nodes :
            CallsInv(draft'.stack, sig, p, d)
    BY <2>1, <2>2, <2>3, ReturnKeepsCalls
  <2>5. StackInv'
    BY <2>1, <2>4 DEF StackInv, sig
  <2> QED BY <1>1, <2>1, <2>5 DEF AbortedOverRecursion
<1>8. CASE Register
  <2>1. CASE HasName(procedures, draft.fn.name)
    BY <1>2, <1>8, <2>1 DEF Register
  <2>2. CASE ~HasName(procedures, draft.fn.name)
    <3> DEFINE d == Descriptor(draft)
    <3>1. phase = "collecting" /\ draft.stack = <<>> /\ Compiles(draft.fn)
      BY <1>8 DEF Register, CollectInv, DraftInv
    <3>2. SignatureOf(d) = sig /\ d \in Descriptors
      BY <1>0, <3>1, DescriptorTyped DEF Drafts, sig
    <3>3. procedures' = Append(procedures, d) /\ phase' = "building"
      BY <1>8, <2>2 DEF Register
    <3> HIDE DEF d
    <3>4. \A n \in ReachableFrom(SignatureOf(d)) : ~Recursive(n)
      <4>1. sig \in SUBSET Nodes
        BY <1>3, <3>1
      <4> QED BY <1>4, <3>1, <3>2, <4>1, FinishedIsFlat
    <3>5. \A i \in DOMAIN procedures' :
              procedures'[i] = d \/ (i \in DOMAIN procedures /\ procedures'[i] = procedures[i])
      BY <1>0, <3>2, <3>3
    <3>6. FlatProcedures'
      BY <3>4, <3>5 DEF FlatProcedures, WalkInv, SignatureOf
    <3> QED BY <3>3, <3>6 DEF WalkInv, StackInv, AbortedOverRecursion
  <2> QED BY <2>1, <2>2
<1>9. ASSUME NEW l \in Layers, AddLayer(l) PROVE WalkInv'
  BY <1>2, <1>9 DEF AddLayer
<1>10. ASSUME NEW goal \in {"dump", "mount"}, StartExport(goal) PROVE WalkInv'
  BY <1>2, <1>10 DEF StartExport
<1>11. CASE ExportType \/ ExportProcedure \/ ExportEnds \/ MountProcedure
            \/ MountFallback \/ ApplyLayer \/ Serve
  BY <1>2, <1>11
     DEF ExportType, ExportProcedure, ExportEnds, MountProcedure, MountFallback,
         ApplyLayer, Serve
<1>12. CASE UNCHANGED asmVars
  BY <1>1, <1>12 DEF asmVars, WalkInv, StackInv, AbortedOverRecursion
<1> QED
  BY <1>5, <1>6, <1>7, <1>8, <1>9, <1>10, <1>11, <1>12 DEF AsmNext

\* So it is with every walk.
LEMMA WalkAlways == AsmSpec => []WalkInv
<1>1. AsmInit => WalkInv
  BY DEF AsmInit, WalkInv, StackInv, FlatProcedures, AbortedOverRecursion
<1> QED BY <1>1, WalkStep, AsmTypeCorrect, CollectAlways, PTL DEF AsmSpec

\* What the stack means is what the property asks.
LEMMA WalkMeansRecursion == WalkInv => OnlyRecursionAborts
  BY SignatureTypesAre
  DEF WalkInv, OnlyRecursionAborts, FlatProcedures, AbortedOverRecursion

\* Only a type that contains itself overflows the stack, and no procedure that
\* mentions one is ever registered.
THEOREM OnlyRecursion == AsmSpec => []OnlyRecursionAborts
  BY WalkMeansRecursion, WalkAlways, PTL DEF AsmSpec

-----------------------------------------------------------------------------
\* All properties of the router, for a specification with more variables.
LEMMA RouterIsSafe ==
    AsmSpec => [](/\ AsmTypeOK /\ IrIsExact /\ OnlyRecursionAborts
                    /\ OnlyReservedNamesPanic /\ ClientMatchesServer
                    /\ EveryRequestPassesEveryLayer)
<1>1. AsmTypeOK /\ CollectInv /\ IrInv => IrIsExact
  BY ExactWhenExported DEF IrIsExact
<1>2. RouteInv => OnlyReservedNamesPanic /\ EveryRequestPassesEveryLayer
  BY DEF RouteInv, MountInv, EveryRequestPassesEveryLayer
<1> QED
  BY <1>1, <1>2, ClientCallsWhatIsMounted, WalkMeansRecursion,
     AsmTypeCorrect, CollectAlways, IrAlways, RouteAlways, WalkAlways, PTL
=============================================================================
