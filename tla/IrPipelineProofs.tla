-------------------------- MODULE IrPipelineProofs --------------------------
(***************************************************************************)
(* Proofs about IrPipeline: its types, its inductive invariant, and the    *)
(* safety properties that follow.                                          *)
(***************************************************************************)
EXTENDS IrPipelineInv, TLAPS

-----------------------------------------------------------------------------
(* The operators.                                                          *)

\* A clean diff means the same procedures and types: comparing the names of
\* both and the definitions of the common ones leaves nothing out.
LEMMA CleanMeansEqual ==
    ASSUME NEW base \in Irs, NEW cur \in Irs, IsClean(base, cur)
    PROVE  base.procs = cur.procs /\ base.types = cur.types
<1>1. ASSUME NEW f, NEW g, f = [n \in DOMAIN f |-> f[n]],
             g = [n \in DOMAIN g |-> g[n]],
             Added(f, g) = {}, Removed(f, g) = {}, Changed(f, g) = {}
      PROVE  f = g
  <2>1. DOMAIN f = DOMAIN g
    BY <1>1 DEF Added, Removed
  <2>2. \A n \in DOMAIN f : f[n] = g[n]
    BY <1>1, <2>1 DEF Changed
  <2> QED  BY <1>1, <2>1, <2>2
<1>2. /\ base.procs = [n \in DOMAIN base.procs |-> base.procs[n]]
      /\ cur.procs = [n \in DOMAIN cur.procs |-> cur.procs[n]]
      /\ base.types = [n \in DOMAIN base.types |-> base.types[n]]
      /\ cur.types = [n \in DOMAIN cur.types |-> cur.types[n]]
  BY PipelineAssumption
<1>3. /\ Added(base.procs, cur.procs) = {}
      /\ Removed(base.procs, cur.procs) = {}
      /\ Changed(base.procs, cur.procs) = {}
      /\ Added(base.types, cur.types) = {}
      /\ Removed(base.types, cur.types) = {}
      /\ Changed(base.types, cur.types) = {}
  BY DEF IsClean
<1>4. base.procs = cur.procs
  BY <1>1, <1>2, <1>3
<1>5. base.types = cur.types
  BY <1>1, <1>2, <1>3
<1> QED  BY <1>4, <1>5

LEMMA NoFileTyped == NoFile \in Contents /\ NoFile.state = "absent"
                     /\ NoFile.by = Before
<1>1. NoIr \in Irs
  BY PipelineAssumption DEF NoIr
<1> QED  BY <1>1 DEF NoFile, Contents

\* Truncating or filling a file, or leaving it half-way, changes that file.
LEMMA TruncatedIs ==
    ASSUME files \in [FileNames -> Contents], NEW f \in FileNames
    PROVE  /\ Truncated(f) \in [FileNames -> Contents]
           /\ Truncated(f)[f].state = "empty"
           /\ \A g \in FileNames \ {f} : Truncated(f)[g] = files[g]
<1>1. InState("empty", files[f]) \in Contents
  BY DEF Contents, InState
<1> QED  BY <1>1 DEF Truncated, InState

LEMMA FilledIs ==
    ASSUME files \in [FileNames -> Contents], NEW f \in FileNames,
           NEW i \in Irs, NEW c \in Commands, NEW new \in Filled(f, i, c)
    PROVE  /\ new \in [FileNames -> Contents]
           /\ new[f].ir = i /\ new[f].by = c
           /\ \A g \in FileNames \ {f} : new[g] = files[g]
<1>1. PICK st \in {"whole", "garbled"} :
        new = [files EXCEPT ![f] = [state |-> st, ir |-> i, by |-> c]]
  BY DEF Filled
<1>2. [state |-> st, ir |-> i, by |-> c] \in Contents
  BY DEF Contents, InState
<1> QED  BY <1>1, <1>2

LEMMA AbandonedIs ==
    ASSUME files \in [FileNames -> Contents], NEW f \in FileNames,
           NEW new \in Abandoned(f)
    PROVE  /\ new \in [FileNames -> Contents]
           /\ new[f].state = "whole" => new[f] = files[f]
           /\ \A g \in FileNames \ {f} : new[g] = files[g]
<1>1. InState("garbled", files[f]) \in Contents
  BY DEF Contents, InState
<1>2. CASE new = files
  BY <1>2
<1>3. CASE new = [files EXCEPT ![f] = InState("garbled", files[f])]
  <2>1. new[f].state = "garbled"
    BY <1>3 DEF InState
  <2> QED  BY <1>1, <1>3, <2>1
<1> QED  BY <1>2, <1>3 DEF Abandoned

LEMMA TargetIs ==
    ASSUME NEW k \in DOMAIN Target
    PROVE  Target[k] \in FileNames \ {"ir"}
BY DEF Target, FileNames

LEMMA OnwardIs ==
    ASSUME NEW k \in Kinds, k # "dump"
    PROVE  /\ Onward[k] \in {"opening", "comparing", "done"}
           /\ Onward[k] = "opening" => k \in DOMAIN Target
           /\ Onward[k] = "comparing" <=> k = "check"
           /\ Onward[k] = "done" <=> k = "inspect"
BY DEF Onward, Target, Kinds

-----------------------------------------------------------------------------
(* Types.                                                                  *)

\* Every initial state is typed.
LEMMA InitTypes == Init => TypeOK
<1> SUFFICES ASSUME Init PROVE TypeOK
  OBVIOUS
<1>1. NoFile \in Contents
  BY NoFileTyped
<1>2. Existing \subseteq Contents
  BY PipelineAssumption DEF Contents
<1>3. NoBinary \in Binaries
  BY PipelineAssumption DEF NoBinary
<1>4. files \in [FileNames -> Contents]
  BY <1>1, <1>2 DEF Init
<1> QED  BY <1>1, <1>3, <1>4 DEF Init, TypeOK, InvocationType, Kinds

\* Every step keeps the types; that a dump reads no file is the only part of
\* the invariant it needs.
LEMMA NextTypes == Inv /\ [Next]_vars => TypeOK'
<1> SUFFICES ASSUME Inv, [Next]_vars PROVE TypeOK'
  OBVIOUS
<1>a. TypeOK /\ \A c \in Commands : LoadInv(c)
  BY DEF Inv
<1> USE <1>a DEF TypeOK
<1>t. "ir" \in FileNames /\ "baseline" \in FileNames
  BY DEF FileNames
<1>i. \A f \in FileNames : files[f].ir \in Irs
  BY DEF Contents
<1>l. \A c \in Commands : loaded[c].ir \in Irs
  BY DEF Contents
<1>0. CASE UNCHANGED vars
  BY <1>0 DEF vars
<1>1. ASSUME NEW c \in Commands, Start(c) PROVE TypeOK'
  BY <1>1, PipelineAssumption DEF Start, Go, InvocationType, Kinds
<1>2. ASSUME NEW c \in Commands, Spawn(c) PROVE TypeOK'
  <2>1. PICK b \in Binaries :
          \/ child' = child
          \/ child' = [child EXCEPT ![c] = [at |-> "running", binary |-> b]]
    BY <1>2 DEF Spawn
  <2>2. pc' = [pc EXCEPT ![c] = "failed"] \/ pc' = [pc EXCEPT ![c] = "waiting"]
    BY <1>2 DEF Spawn, Go
  <2>3. child' \in [Commands ->
            [at : {"none", "running", "writing", "serving", "succeeded",
                   "failed"},
             binary : Binaries]]
    <3>1. [at |-> "running", binary |-> b] \in
            [at : {"none", "running", "writing", "serving", "succeeded",
                   "failed"},
             binary : Binaries]
      OBVIOUS
    <3> QED  BY <2>1, <3>1
  <2>4. UNCHANGED <<files, command, loaded, seen, since>>
    BY <1>2 DEF Spawn
  <2> QED  BY <2>2, <2>3, <2>4
<1>3. ASSUME NEW c \in Commands, Reaps(c) PROVE TypeOK'
  BY <1>3 DEF Reaps, Go
<1>4. ASSUME NEW c \in Commands, Loads(c) PROVE TypeOK'
  <2>1. command[c].kind \in Kinds /\ command[c].kind # "dump"
    BY <1>4 DEF InvocationType, Loads, LoadInv
  <2>2. Onward[command[c].kind] \in {"opening", "comparing", "done"}
    BY <2>1, OnwardIs
  <2> QED  BY <1>4, <1>t, <2>2 DEF Loads, Go
<1>5. ASSUME NEW c \in Commands, Opens(c) PROVE TypeOK'
  <2>1. Target[command[c].kind] \in FileNames
    BY <1>5, TargetIs DEF Opens, LoadInv
  <2> QED  BY <1>5, <2>1, TruncatedIs DEF Opens, Go
<1>6. ASSUME NEW c \in Commands, Writes(c) PROVE TypeOK'
  <2>1. Target[command[c].kind] \in FileNames
    BY <1>6, TargetIs DEF Writes, LoadInv
  <2>2. files' \in [FileNames -> Contents]
    BY <1>6, <1>l, <2>1, FilledIs DEF Writes
  <2> QED  BY <1>6, <2>2 DEF Writes, Go
<1>7. ASSUME NEW c \in Commands, Compares(c) PROVE TypeOK'
  BY <1>7, <1>t DEF Compares, Go
<1>8. ASSUME NEW c \in Commands, ChildOpens(c) PROVE TypeOK'
  BY <1>8, <1>t, TruncatedIs DEF ChildOpens, ChildGo
<1>9. ASSUME NEW c \in Commands, ChildWrites(c) PROVE TypeOK'
  <2>1. child[c].binary.ir \in Irs
    BY PipelineAssumption
  <2>2. files' \in [FileNames -> Contents]
    BY <1>9, <1>t, <2>1, FilledIs DEF ChildWrites
  <2>3. since' \in [Commands -> SUBSET Commands]
    BY <1>9 DEF ChildWrites, NotedWrite
  <2> QED  BY <1>9, <2>2, <2>3 DEF ChildWrites, ChildGo
<1>10. ASSUME NEW c \in Commands, ChildFails(c) PROVE TypeOK'
  <2>1. files' \in [FileNames -> Contents]
    BY <1>10, <1>t, AbandonedIs DEF ChildFails
  <2> QED  BY <1>10, <2>1 DEF ChildFails, ChildGo
<1>11. ASSUME NEW c \in Commands, ChildIgnores(c) \/ ChildServes(c)
       PROVE TypeOK'
  BY <1>11 DEF ChildIgnores, ChildServes, ChildGo
<1>12. ASSUME NEW c \in Commands, Dies(c) PROVE TypeOK'
  <2>1. files' \in [FileNames -> Contents]
    <3>1. CASE pc[c] = "writing"
      <4>1. Target[command[c].kind] \in FileNames
        BY <3>1, TargetIs DEF LoadInv
      <4> QED  BY <1>12, <3>1, <4>1, AbandonedIs DEF Dies
    <3> QED  BY <1>12, <3>1 DEF Dies
  <2> QED  BY <1>12, <2>1 DEF Dies, Go
<1> QED
  BY <1>0, <1>1, <1>2, <1>3, <1>4, <1>5, <1>6, <1>7, <1>8, <1>9, <1>10,
     <1>11, <1>12 DEF Next, CommandStep, ChildStep

-----------------------------------------------------------------------------
(* The invariant.                                                          *)

LEMMA InitInv == Init => Inv
<1> SUFFICES ASSUME Init PROVE Inv
  OBVIOUS
<1>1. TypeOK
  BY InitTypes
<1>2. NoFile.state = "absent" /\ NoFile.by = Before
  BY NoFileTyped
<1>3. \A f \in FileNames : files[f].by = Before
  BY <1>2, PipelineAssumption DEF Init
<1>4. IsDumped(files["ir"]) /\ OutputInv
  BY <1>3 DEF IsDumped, OutputInv, FileNames
<1>5. \A c \in Commands : ChildInv(c) /\ LoadInv(c)
  BY <1>2 DEF Init, ChildInv, LoadInv, IsDumped, Holding
<1>6. PassMeansNoDrift
  BY DEF Init, PassMeansNoDrift
<1> QED  BY <1>1, <1>4, <1>5, <1>6 DEF Inv

\* A document stays what its writer's child dumped, as that child keeps its
\* binary.
ChildrenKept ==
    \A d \in Commands : child[d].at # "none" =>
        child'[d].at # "none" /\ child'[d].binary = child[d].binary

LEMMA DumpedKept ==
    ASSUME NEW file \in Contents, IsDumped(file), ChildrenKept
    PROVE  IsDumped(file)'
BY DEF IsDumped, ChildrenKept, Contents

\* A command that starts holds nothing yet and has no child.
LEMMA StartKeeps ==
    ASSUME Inv, NEW c \in Commands, Start(c), TypeOK'
    PROVE  Inv'
<1> USE DEF Inv, TypeOK
<1>t. "ir" \in FileNames /\ "baseline" \in FileNames
  BY DEF FileNames
<1>w. \A f \in FileNames : files[f].by \in Commands \cup {Before}
  BY DEF Contents
<1>k. ChildrenKept
  BY DEF ChildrenKept, ChildInv, Start, Go
<1>3. \A d \in Commands : LoadInv(d)'
  <2> SUFFICES ASSUME NEW d \in Commands PROVE LoadInv(d)'
    OBVIOUS
  <2>1. IsDumped(loaded[d])'
    BY <1>k, DumpedKept DEF Start, LoadInv
  <2> QED  BY <2>1, PipelineAssumption DEF Start, Go, LoadInv, Holding, ChildInv
<1>1. IsDumped(files["ir"])'
  BY <1>t, <1>k, DumpedKept DEF Start, Go
<1>2. \A d \in Commands : ChildInv(d)'
  BY <1>t DEF Start, Go, ChildInv
<1>4. OutputInv'
  BY <1>w DEF Start, Go, OutputInv
<1>5. PassMeansNoDrift'
  BY DEF Start, Go, PassMeansNoDrift, LoadInv
<1> QED  BY <1>1, <1>2, <1>3, <1>4, <1>5

\* A child that starts has written nothing.
LEMMA SpawnKeeps ==
    ASSUME Inv, NEW c \in Commands, Spawn(c), TypeOK'
    PROVE  Inv'
<1> USE DEF Inv, TypeOK
<1>t. "ir" \in FileNames /\ "baseline" \in FileNames
  BY DEF FileNames
<1>w. \A f \in FileNames : files[f].by \in Commands \cup {Before}
  BY DEF Contents
<1>k. ChildrenKept
  BY DEF ChildrenKept, ChildInv, Spawn, Go
<1>1. IsDumped(files["ir"])'
  BY <1>t, <1>k, DumpedKept DEF Spawn, Go
<1>2. \A d \in Commands : ChildInv(d)'
  BY <1>t DEF Spawn, Go, ChildInv
<1>3. \A d \in Commands : LoadInv(d)'
  <2> SUFFICES ASSUME NEW d \in Commands PROVE LoadInv(d)'
    OBVIOUS
  <2>1. IsDumped(loaded[d])'
    BY <1>k, DumpedKept DEF Spawn, Go, LoadInv
  <2> QED  BY <2>1 DEF Spawn, Go, LoadInv, Holding, ChildInv
<1>4. OutputInv'
  BY <1>w DEF Spawn, Go, OutputInv
<1>5. PassMeansNoDrift'
  BY DEF Spawn, Go, PassMeansNoDrift, LoadInv
<1> QED  BY <1>1, <1>2, <1>3, <1>4, <1>5

\* A command goes on to the file only when its child has succeeded.
LEMMA ReapsKeeps ==
    ASSUME Inv, NEW c \in Commands, Reaps(c), TypeOK'
    PROVE  Inv'
<1> USE DEF Inv, TypeOK
<1>t. "ir" \in FileNames /\ "baseline" \in FileNames
  BY DEF FileNames
<1>w. \A f \in FileNames : files[f].by \in Commands \cup {Before}
  BY DEF Contents
<1>k. ChildrenKept
  BY DEF ChildrenKept, ChildInv, Reaps, Go
<1>1. IsDumped(files["ir"])'
  BY <1>t, <1>k, DumpedKept DEF Reaps, Go
<1>2. \A d \in Commands : ChildInv(d)'
  BY <1>t DEF Reaps, Go, ChildInv
<1>3. \A d \in Commands : LoadInv(d)'
  <2> SUFFICES ASSUME NEW d \in Commands PROVE LoadInv(d)'
    OBVIOUS
  <2>1. IsDumped(loaded[d])'
    BY <1>k, DumpedKept DEF Reaps, Go, LoadInv
  <2> QED  BY <2>1 DEF Reaps, Go, LoadInv, Holding, ChildInv
<1>4. OutputInv'
  BY <1>w DEF Reaps, Go, OutputInv
<1>5. PassMeansNoDrift'
  BY DEF Reaps, Go, PassMeansNoDrift, LoadInv
<1> QED  BY <1>1, <1>2, <1>3, <1>4, <1>5

\* What is loaded is fresh because the file is.
LEMMA LoadsKeeps ==
    ASSUME Inv, NEW c \in Commands, Loads(c), TypeOK'
    PROVE  Inv'
<1> USE DEF Inv, TypeOK
<1>t. "ir" \in FileNames /\ "baseline" \in FileNames
  BY DEF FileNames
<1>w. \A f \in FileNames : files[f].by \in Commands \cup {Before}
  BY DEF Contents
<1>k. ChildrenKept
  BY DEF ChildrenKept, ChildInv, Loads, Go
<1>o. /\ command[c].kind \in Kinds /\ command[c].kind # "dump"
      /\ Onward[command[c].kind] \in {"opening", "comparing", "done"}
      /\ Onward[command[c].kind] = "opening" =>
            command[c].kind \in DOMAIN Target
      /\ Onward[command[c].kind] = "comparing" <=> command[c].kind = "check"
      /\ Onward[command[c].kind] = "done" <=> command[c].kind = "inspect"
  <2>1. command[c].kind \in Kinds /\ command[c].kind # "dump"
    BY DEF InvocationType, Loads, LoadInv
  <2> QED  BY <2>1, OnwardIs
<1>2. \A d \in Commands : ChildInv(d)'
  BY <1>t, <1>o DEF Loads, Go, ChildInv
<1>3. \A d \in Commands : LoadInv(d)'
  <2> SUFFICES ASSUME NEW d \in Commands PROVE LoadInv(d)'
    OBVIOUS
  <2>1. CASE d # c
    <3>1. IsDumped(loaded[d])'
      BY <1>k, <2>1, DumpedKept DEF Loads, LoadInv
    <3> QED  BY <2>1, <3>1 DEF Loads, Go, LoadInv, Holding, ChildInv
  <2>2. CASE d = c /\ files["ir"].state = "whole"
    <3>1. loaded'[c] = files["ir"]
      BY <2>2 DEF Loads
    <3>2. IsDumped(loaded[c])'
      BY <1>t, <1>k, <2>2, <3>1, DumpedKept
    <3>3. command[c].fromBinary /\ child[c].binary.main = "dumps" =>
            files["ir"].by \in since[c]
      BY <2>2 DEF Loads, LoadInv, ChildInv
    <3>4. command[c].fromBinary => child[c].at = "succeeded"
      BY DEF Loads, LoadInv
    <3>5. pc'[c] # "failed" => Accepts(c) /\ pc'[c] = Onward[command[c].kind]
      BY DEF Loads, Go
    <3> QED
      BY <1>o, <2>2, <3>1, <3>2, <3>3, <3>4, <3>5 DEF Loads, Go, LoadInv, Holding, Accepts
  <2>3. CASE d = c /\ files["ir"].state # "whole"
    <3>1. loaded'[c] = loaded[c] /\ pc'[c] = "failed"
      BY <2>3 DEF Loads, Go, Accepts
    <3>2. IsDumped(loaded[c])'
      BY <1>k, <3>1, DumpedKept DEF LoadInv
    <3> QED  BY <2>3, <3>1, <3>2 DEF Loads, Go, LoadInv, Holding
  <2> QED  BY <2>1, <2>2, <2>3
<1>4. OutputInv'
  <2>1. pc[c] = "loading"
    BY DEF Loads
  <2> QED  BY <1>w, <2>1 DEF Loads, Go, OutputInv
<1>5. PassMeansNoDrift'
  BY <1>o DEF Loads, Go, PassMeansNoDrift
<1>1. IsDumped(files["ir"])'
  BY <1>t, <1>k, DumpedKept DEF Loads, Go
<1> QED  BY <1>1, <1>2, <1>3, <1>4, <1>5

\* Truncating an output takes it out of OutputInv.
LEMMA OpensKeeps ==
    ASSUME Inv, NEW c \in Commands, Opens(c), TypeOK'
    PROVE  Inv'
<1> USE DEF Inv, TypeOK
<1>t. "ir" \in FileNames /\ "baseline" \in FileNames
  BY DEF FileNames
<1>w. \A f \in FileNames : files[f].by \in Commands \cup {Before}
  BY DEF Contents
<1>k. ChildrenKept
  BY DEF ChildrenKept, ChildInv, Opens, Go
<1>a. Target[command[c].kind] \in FileNames \ {"ir"}
  BY TargetIs DEF Opens, LoadInv
<1>f. /\ files' \in [FileNames -> Contents]
      /\ files'["ir"] = files["ir"]
      /\ \A f \in FileNames \ {Target[command[c].kind]} : files'[f] = files[f]
      /\ files'[Target[command[c].kind]].state = "empty"
  BY <1>t, <1>a, TruncatedIs DEF Opens
<1>1. IsDumped(files["ir"])'
  BY <1>t, <1>k, DumpedKept, <1>f DEF Opens, Go
<1>2. \A d \in Commands : ChildInv(d)'
  BY <1>t, <1>f DEF Opens, Go, ChildInv
<1>3. \A d \in Commands : LoadInv(d)'
  <2> SUFFICES ASSUME NEW d \in Commands PROVE LoadInv(d)'
    OBVIOUS
  <2>1. IsDumped(loaded[d])'
    BY <1>k, DumpedKept DEF Opens, Go, LoadInv
  <2> QED  BY <2>1 DEF Opens, Go, LoadInv, Holding, ChildInv
<1>4. OutputInv'
  BY <1>w, <1>f DEF Opens, Go, OutputInv
<1>5. PassMeansNoDrift'
  BY DEF Opens, Go, PassMeansNoDrift, LoadInv
<1> QED  BY <1>1, <1>2, <1>3, <1>4, <1>5

\* A command writes what it has loaded, and is done.
LEMMA WritesKeeps ==
    ASSUME Inv, NEW c \in Commands, Writes(c), TypeOK'
    PROVE  Inv'
<1> USE DEF Inv, TypeOK
<1>t. "ir" \in FileNames /\ "baseline" \in FileNames
  BY DEF FileNames
<1>w. \A f \in FileNames : files[f].by \in Commands \cup {Before}
  BY DEF Contents
<1>k. ChildrenKept
  BY DEF ChildrenKept, ChildInv, Writes, Go
<1>a. Target[command[c].kind] \in FileNames \ {"ir"}
  BY TargetIs DEF Writes, LoadInv
<1>f. /\ files' \in [FileNames -> Contents]
      /\ files'["ir"] = files["ir"]
      /\ \A f \in FileNames \ {Target[command[c].kind]} : files'[f] = files[f]
      /\ files'[Target[command[c].kind]].ir = loaded[c].ir
      /\ files'[Target[command[c].kind]].by = c
  <2>1. loaded[c].ir \in Irs
    BY DEF Contents
  <2> QED  BY <1>t, <1>a, <2>1, FilledIs DEF Writes
<1>4. OutputInv'
  <2>1. pc[c] = "writing" /\ loaded[c].state = "whole" /\ loaded[c].ir.version = IrVersion
    BY DEF Writes, LoadInv, Holding
  <2> QED  BY <1>w, <1>f, <2>1 DEF Writes, Go, OutputInv
<1>5. PassMeansNoDrift'
  BY DEF Writes, Go, PassMeansNoDrift, LoadInv, Target
<1>1. IsDumped(files["ir"])'
  BY <1>t, <1>k, DumpedKept, <1>f DEF Writes, Go
<1>2. \A d \in Commands : ChildInv(d)'
  BY <1>t, <1>f DEF Writes, Go, ChildInv
<1>3. \A d \in Commands : LoadInv(d)'
  <2> SUFFICES ASSUME NEW d \in Commands PROVE LoadInv(d)'
    OBVIOUS
  <2>1. IsDumped(loaded[d])'
    BY <1>k, DumpedKept DEF Writes, Go, LoadInv
  <2> QED  BY <2>1 DEF Writes, Go, LoadInv, Holding, ChildInv
<1> QED  BY <1>1, <1>2, <1>3, <1>4, <1>5

\* A check that is done has found the diff clean.
LEMMA ComparesKeeps ==
    ASSUME Inv, NEW c \in Commands, Compares(c), TypeOK'
    PROVE  Inv'
<1> USE DEF Inv, TypeOK
<1>t. "ir" \in FileNames /\ "baseline" \in FileNames
  BY DEF FileNames
<1>w. \A f \in FileNames : files[f].by \in Commands \cup {Before}
  BY DEF Contents
<1>k. ChildrenKept
  BY DEF ChildrenKept, ChildInv, Compares, Go
<1>5. PassMeansNoDrift'
  <2>1. ASSUME pc'[c] = "done"
        PROVE  /\ files["baseline"].state = "whole"
               /\ files["baseline"].ir.procs = loaded[c].ir.procs
               /\ files["baseline"].ir.types = loaded[c].ir.types
    <3>1. files["baseline"].ir \in Irs /\ loaded[c].ir \in Irs
      BY <1>t DEF Contents
    <3>2. /\ files["baseline"].state = "whole"
          /\ IsClean(files["baseline"].ir, loaded[c].ir)
      BY <2>1 DEF Compares, Go
    <3> QED  BY <3>1, <3>2, CleanMeansEqual
  <2>2. loaded[c].ir.version = IrVersion
    BY DEF Compares, LoadInv, Holding
  <2> QED  BY <2>1, <2>2 DEF Compares, Go, PassMeansNoDrift
<1>1. IsDumped(files["ir"])'
  BY <1>t, <1>k, DumpedKept DEF Compares, Go
<1>2. \A d \in Commands : ChildInv(d)'
  BY <1>t DEF Compares, Go, ChildInv
<1>3. \A d \in Commands : LoadInv(d)'
  <2> SUFFICES ASSUME NEW d \in Commands PROVE LoadInv(d)'
    OBVIOUS
  <2>1. IsDumped(loaded[d])'
    BY <1>k, DumpedKept DEF Compares, Go, LoadInv
  <2> QED  BY <2>1 DEF Compares, Go, LoadInv, Holding, ChildInv
<1>4. OutputInv'
  BY <1>w DEF Compares, Go, OutputInv
<1> QED  BY <1>1, <1>2, <1>3, <1>4, <1>5

\* Truncating the IR file makes it nobody's.
LEMMA ChildOpensKeeps ==
    ASSUME Inv, NEW c \in Commands, ChildOpens(c), TypeOK'
    PROVE  Inv'
<1> USE DEF Inv, TypeOK
<1>t. "ir" \in FileNames /\ "baseline" \in FileNames
  BY DEF FileNames
<1>w. \A f \in FileNames : files[f].by \in Commands \cup {Before}
  BY DEF Contents
<1>k. ChildrenKept
  BY DEF ChildrenKept, ChildInv, ChildOpens, ChildGo
<1>f. /\ files' \in [FileNames -> Contents]
      /\ files'["ir"].state = "empty"
      /\ \A f \in FileNames \ {"ir"} : files'[f] = files[f]
  BY <1>t, TruncatedIs DEF ChildOpens
<1>1. IsDumped(files["ir"])'
  BY <1>f DEF IsDumped
<1>2. \A d \in Commands : ChildInv(d)'
  BY <1>t, <1>f DEF ChildOpens, ChildGo, ChildInv
<1>3. \A d \in Commands : LoadInv(d)'
  <2> SUFFICES ASSUME NEW d \in Commands PROVE LoadInv(d)'
    OBVIOUS
  <2>1. IsDumped(loaded[d])'
    BY <1>k, DumpedKept DEF ChildOpens, ChildGo, LoadInv
  <2> QED  BY <2>1 DEF ChildOpens, ChildGo, LoadInv, Holding, ChildInv
<1>4. OutputInv'
  BY <1>w, <1>f DEF ChildOpens, ChildGo, OutputInv
<1>5. PassMeansNoDrift'
  BY DEF ChildOpens, ChildGo, PassMeansNoDrift, LoadInv
<1> QED  BY <1>1, <1>2, <1>3, <1>4, <1>5

\* Everyone under way has seen the write.
LEMMA ChildWritesKeeps ==
    ASSUME Inv, NEW c \in Commands, ChildWrites(c), TypeOK'
    PROVE  Inv'
<1> USE DEF Inv, TypeOK
<1>t. "ir" \in FileNames /\ "baseline" \in FileNames
  BY DEF FileNames
<1>w. \A f \in FileNames : files[f].by \in Commands \cup {Before}
  BY DEF Contents
<1>k. ChildrenKept
  BY DEF ChildrenKept, ChildInv, ChildWrites, ChildGo
<1>f. /\ files' \in [FileNames -> Contents]
      /\ files'["ir"].ir = child[c].binary.ir
      /\ files'["ir"].by = c
      /\ \A f \in FileNames \ {"ir"} : files'[f] = files[f]
  <2>1. child[c].binary.ir \in Irs
    BY PipelineAssumption
  <2> QED  BY <1>t, <2>1, FilledIs DEF ChildWrites
<1>s. \A d \in Commands : pc[d] # "idle" => since'[d] = since[d] \cup {c}
  BY DEF ChildWrites, NotedWrite
<1>1. IsDumped(files["ir"])'
  BY <1>f DEF ChildWrites, ChildGo, IsDumped
<1>2. \A d \in Commands : ChildInv(d)'
  BY <1>f, <1>s DEF ChildWrites, ChildGo, ChildInv
<1>3. \A d \in Commands : LoadInv(d)'
  <2> SUFFICES ASSUME NEW d \in Commands PROVE LoadInv(d)'
    OBVIOUS
  <2>1. IsDumped(loaded[d])'
    BY <1>k, DumpedKept DEF ChildWrites, LoadInv
  <2>2. loaded[d].state = "whole" => pc[d] # "idle"
    BY DEF LoadInv
  <2> QED  BY <1>s, <2>1, <2>2 DEF ChildWrites, ChildGo, LoadInv, Holding, ChildInv
<1>4. OutputInv'
  BY <1>w, <1>f DEF ChildWrites, ChildGo, OutputInv
<1>5. PassMeansNoDrift'
  BY DEF ChildWrites, ChildGo, PassMeansNoDrift, LoadInv
<1> QED  BY <1>1, <1>2, <1>3, <1>4, <1>5

\* A child that fails leaves a file that is garbled or as it was.
LEMMA ChildFailsKeeps ==
    ASSUME Inv, NEW c \in Commands, ChildFails(c), TypeOK'
    PROVE  Inv'
<1> USE DEF Inv, TypeOK
<1>t. "ir" \in FileNames /\ "baseline" \in FileNames
  BY DEF FileNames
<1>w. \A f \in FileNames : files[f].by \in Commands \cup {Before}
  BY DEF Contents
<1>k. ChildrenKept
  BY DEF ChildrenKept, ChildInv, ChildFails, ChildGo
<1>f. /\ files' \in [FileNames -> Contents]
      /\ files'["ir"].state = "whole" => files'["ir"] = files["ir"]
      /\ \A f \in FileNames \ {"ir"} : files'[f] = files[f]
  BY <1>t, AbandonedIs DEF ChildFails
<1>1. IsDumped(files["ir"])'
  <2>1. CASE files'["ir"].state = "whole"
    BY <1>t, <1>f, <1>k, <2>1, DumpedKept
  <2> QED  BY <2>1 DEF IsDumped
<1>2. \A d \in Commands : ChildInv(d)'
  BY <1>t, <1>f DEF ChildFails, ChildGo, ChildInv
<1>3. \A d \in Commands : LoadInv(d)'
  <2> SUFFICES ASSUME NEW d \in Commands PROVE LoadInv(d)'
    OBVIOUS
  <2>1. IsDumped(loaded[d])'
    BY <1>k, DumpedKept DEF ChildFails, ChildGo, LoadInv
  <2> QED  BY <2>1 DEF ChildFails, ChildGo, LoadInv, Holding, ChildInv
<1>4. OutputInv'
  BY <1>w, <1>f DEF ChildFails, ChildGo, OutputInv
<1>5. PassMeansNoDrift'
  BY DEF ChildFails, ChildGo, PassMeansNoDrift, LoadInv
<1> QED  BY <1>1, <1>2, <1>3, <1>4, <1>5

\* A main that ignores the request leaves the files alone.
LEMMA ChildIgnoresKeeps ==
    ASSUME Inv, NEW c \in Commands, ChildIgnores(c), TypeOK'
    PROVE  Inv'
<1> USE DEF Inv, TypeOK
<1>t. "ir" \in FileNames /\ "baseline" \in FileNames
  BY DEF FileNames
<1>w. \A f \in FileNames : files[f].by \in Commands \cup {Before}
  BY DEF Contents
<1>k. ChildrenKept
  BY DEF ChildrenKept, ChildInv, ChildIgnores, ChildGo
<1>1. IsDumped(files["ir"])'
  BY <1>t, <1>k, DumpedKept DEF ChildIgnores, ChildGo
<1>2. \A d \in Commands : ChildInv(d)'
  BY <1>t DEF ChildIgnores, ChildGo, ChildInv
<1>3. \A d \in Commands : LoadInv(d)'
  <2> SUFFICES ASSUME NEW d \in Commands PROVE LoadInv(d)'
    OBVIOUS
  <2>1. IsDumped(loaded[d])'
    BY <1>k, DumpedKept DEF ChildIgnores, ChildGo, LoadInv
  <2> QED  BY <2>1 DEF ChildIgnores, ChildGo, LoadInv, Holding, ChildInv
<1>4. OutputInv'
  BY <1>w DEF ChildIgnores, ChildGo, OutputInv
<1>5. PassMeansNoDrift'
  BY DEF ChildIgnores, ChildGo, PassMeansNoDrift, LoadInv
<1> QED  BY <1>1, <1>2, <1>3, <1>4, <1>5

\* A server never succeeds.
LEMMA ChildServesKeeps ==
    ASSUME Inv, NEW c \in Commands, ChildServes(c), TypeOK'
    PROVE  Inv'
<1> USE DEF Inv, TypeOK
<1>t. "ir" \in FileNames /\ "baseline" \in FileNames
  BY DEF FileNames
<1>w. \A f \in FileNames : files[f].by \in Commands \cup {Before}
  BY DEF Contents
<1>k. ChildrenKept
  BY DEF ChildrenKept, ChildInv, ChildServes, ChildGo
<1>1. IsDumped(files["ir"])'
  BY <1>t, <1>k, DumpedKept DEF ChildServes, ChildGo
<1>2. \A d \in Commands : ChildInv(d)'
  BY <1>t DEF ChildServes, ChildGo, ChildInv
<1>3. \A d \in Commands : LoadInv(d)'
  <2> SUFFICES ASSUME NEW d \in Commands PROVE LoadInv(d)'
    OBVIOUS
  <2>1. IsDumped(loaded[d])'
    BY <1>k, DumpedKept DEF ChildServes, ChildGo, LoadInv
  <2> QED  BY <2>1 DEF ChildServes, ChildGo, LoadInv, Holding, ChildInv
<1>4. OutputInv'
  BY <1>w DEF ChildServes, ChildGo, OutputInv
<1>5. PassMeansNoDrift'
  BY DEF ChildServes, ChildGo, PassMeansNoDrift, LoadInv
<1> QED  BY <1>1, <1>2, <1>3, <1>4, <1>5

\* A command that dies has finished no output.
LEMMA DiesKeeps ==
    ASSUME Inv, NEW c \in Commands, Dies(c), TypeOK'
    PROVE  Inv'
<1> USE DEF Inv, TypeOK
<1>t. "ir" \in FileNames /\ "baseline" \in FileNames
  BY DEF FileNames
<1>w. \A f \in FileNames : files[f].by \in Commands \cup {Before}
  BY DEF Contents
<1>k. ChildrenKept
  BY DEF ChildrenKept, ChildInv, Dies, Go
<1>f. /\ files' \in [FileNames -> Contents]
      /\ files'["ir"] = files["ir"]
      /\ \A f \in FileNames \ {"ir"} :
            files'[f].state = "whole" => files'[f] = files[f]
  <2>1. CASE pc[c] = "writing"
    <3>1. Target[command[c].kind] \in FileNames \ {"ir"}
      BY <2>1, TargetIs DEF LoadInv
    <3> QED  BY <1>t, <2>1, <3>1, AbandonedIs DEF Dies
  <2> QED  BY <2>1 DEF Dies
<1>4. OutputInv'
  <2>1. pc[c] # "done" /\ \A d \in Commands \ {c} : pc'[d] = pc[d]
    BY DEF Dies, Go
  <2> QED  BY <1>w, <1>f, <2>1 DEF Dies, OutputInv
<1>1. IsDumped(files["ir"])'
  BY <1>t, <1>k, DumpedKept, <1>f DEF Dies, Go
<1>2. \A d \in Commands : ChildInv(d)'
  BY <1>t, <1>f DEF Dies, Go, ChildInv
<1>3. \A d \in Commands : LoadInv(d)'
  <2> SUFFICES ASSUME NEW d \in Commands PROVE LoadInv(d)'
    OBVIOUS
  <2>1. IsDumped(loaded[d])'
    BY <1>k, DumpedKept DEF Dies, Go, LoadInv
  <2> QED  BY <2>1 DEF Dies, Go, LoadInv, Holding, ChildInv
<1>5. PassMeansNoDrift'
  BY DEF Dies, Go, PassMeansNoDrift, LoadInv
<1> QED  BY <1>1, <1>2, <1>3, <1>4, <1>5

\* The invariant is kept by every step.
LEMMA NextInv == Inv /\ [Next]_vars => Inv'
<1> SUFFICES ASSUME Inv, [Next]_vars PROVE Inv'
  OBVIOUS
<1>1. TypeOK'
  BY NextTypes
<1>2. CASE UNCHANGED vars
  BY <1>2, <1>1 DEF vars, Inv, IsDumped, ChildInv, LoadInv, Holding, OutputInv,
                    PassMeansNoDrift
<1>3. ASSUME NEW c \in Commands, CommandStep(c) PROVE Inv'
  BY <1>1, <1>3, SpawnKeeps, ReapsKeeps, LoadsKeeps, OpensKeeps, WritesKeeps,
     ComparesKeeps DEF CommandStep
<1>4. ASSUME NEW c \in Commands, ChildStep(c) PROVE Inv'
  BY <1>1, <1>4, ChildOpensKeeps, ChildWritesKeeps, ChildIgnoresKeeps,
     ChildServesKeeps DEF ChildStep
<1>5. ASSUME NEW c \in Commands, Start(c) \/ ChildFails(c) \/ Dies(c) PROVE Inv'
  BY <1>1, <1>5, StartKeeps, ChildFailsKeeps, DiesKeeps
<1> QED  BY <1>2, <1>3, <1>4, <1>5 DEF Next

-----------------------------------------------------------------------------
(* The theorems.                                                           *)

\* Inv holds throughout, for any commands, binaries and files.
THEOREM Invariance == Spec => []Inv
BY InitInv, NextInv, PTL DEF Spec

\* The variables of IrPipeline keep their types.
THEOREM TypeCorrect == Spec => []TypeOK
<1>1. Inv => TypeOK
  BY DEF Inv
<1> QED  BY <1>1, Invariance, PTL

\* gen.rs, check.rs: what a command reads after its binary has dumped was
\* written since it started, whatever other commands do with the file.
THEOREM DumpsAreFresh == Spec => []DumpedIrIsFresh
<1>1. Inv => DumpedIrIsFresh
  <2> SUFFICES ASSUME Inv, NEW c \in Commands, command[c].fromBinary,
                      child[c].binary.main = "dumps",
                      loaded[c].state = "whole"
               PROVE  /\ loaded[c].by \in since[c]
                      /\ loaded[c].ir = child[loaded[c].by].binary.ir
    BY DEF DumpedIrIsFresh, Fresh
  <2>1. loaded[c].by \in since[c]
    BY DEF Inv, LoadInv
  <2>2. loaded[c].by # Before
    BY <2>1, PipelineAssumption DEF Inv, TypeOK
  <2> QED  BY <2>1, <2>2 DEF Inv, LoadInv, IsDumped
<1> QED  BY <1>1, Invariance, PTL

\* check.rs: a check that passes has compared two IRs of the same procedures
\* and types.
THEOREM PassesMeanNoDrift == Spec => []PassMeansNoDrift
<1>1. Inv => PassMeansNoDrift
  BY DEF Inv
<1> QED  BY <1>1, Invariance, PTL

\* gen.rs, mcp.rs, check.rs: an output that can be read is rendered from an
\* IR that its command has read whole and accepted.
THEOREM OutputsWereAccepted == Spec => []OutputsAreAccepted
<1>1. Inv => OutputsAreAccepted
  BY DEF Inv, OutputInv, OutputsAreAccepted, FileNames
<1> QED  BY <1>1, Invariance, PTL
=============================================================================
