----------------------------- MODULE IrPipeline -----------------------------
(***************************************************************************)
(* The subcommands of `cargo taut` over the files they share.  With        *)
(* --from-binary a command spawns the user's binary, which writes its IR   *)
(* to target/taut/ir.json and exits, waits for it and reads the file back; *)
(* gen then writes the client, mcp the manifest, check compares with the   *)
(* baseline, or with --write replaces it, and inspect prints.  Any number  *)
(* of commands run at once in one directory, the binary is rebuilt between *)
(* and during them, and commands and binaries may die anywhere.            *)
(*                                                                         *)
(* A file is written as std::fs::write does: it is opened and truncated,   *)
(* then filled.  Paths other than the defaults only keep commands apart.   *)
(***************************************************************************)
EXTENDS Integers, FiniteSets

CONSTANTS
    Commands,      \* invocations of the CLI, and runs of the binary by hand
    Invocations,   \* subcommands: [kind, fromBinary]
    Irs,           \* IR documents: [version, procs, types], where procs and
                   \* types map names to definitions
    IrVersion,     \* taut_rpc::IR_VERSION of the CLI
    Binaries,      \* what cargo build may leave: [main, ir]
    Existing,      \* what earlier commands may have left in a file
    Before         \* the writer of those

ASSUME PipelineAssumption ==
    /\ Invocations \subseteq
        [kind : {"gen", "mcp", "check", "write", "inspect", "dump"},
         fromBinary : BOOLEAN]
    /\ \A i \in Invocations : i.kind = "dump" => i.fromBinary
    /\ \A i \in Irs :
        /\ i.procs = [n \in DOMAIN i.procs |-> i.procs[n]]
        /\ i.types = [n \in DOMAIN i.types |-> i.types[n]]
    /\ Binaries \subseteq
        [main : {"dumps", "ignores", "serves", "missing"}, ir : Irs]
    /\ Irs # {} /\ Binaries # {}
    /\ Existing \subseteq
        [state : {"empty", "garbled", "whole"}, ir : Irs, by : {Before}]
    /\ Before \notin Commands

FileNames == {"ir", "client", "manifest", "baseline"}

\* A file is absent, empty (truncated and not yet filled), garbled (filled by
\* two writers at once, or in part) or whole; then `ir` is the document that
\* it holds or is rendered from, and `by` the command that wrote it.
Contents ==
    [state : {"absent", "empty", "garbled", "whole"},
     ir : Irs, by : Commands \cup {Before}]

Kinds == {"gen", "mcp", "check", "write", "inspect", "dump"}
InvocationType == [kind : Kinds, fromBinary : BOOLEAN]

NoIr == CHOOSE i \in Irs : TRUE
NoBinary == CHOOSE b \in Binaries : TRUE

VARIABLES
    files,      \* the files, by name
    pc,         \* where each command is
    command,    \* its subcommand and whether it was given --from-binary
    child,      \* its child process: where it is and the binary it runs
    loaded,     \* the IR file as the command read it
    seen,       \* the baseline as a check read it
    since       \* history: who has written the IR file since it started

vars == <<files, pc, command, child, loaded, seen, since>>

NoFile == [state |-> "absent", ir |-> NoIr, by |-> Before]

Init ==
    /\ files \in [FileNames -> {NoFile} \cup Existing]
    /\ files["client"] = NoFile /\ files["manifest"] = NoFile
    /\ pc = [c \in Commands |-> "idle"]
    /\ command = [c \in Commands |-> [kind |-> "gen", fromBinary |-> FALSE]]
    /\ child = [c \in Commands |-> [at |-> "none", binary |-> NoBinary]]
    /\ loaded = [c \in Commands |-> NoFile]
    /\ seen = [c \in Commands |-> NoFile]
    /\ since = [c \in Commands |-> {}]

-----------------------------------------------------------------------------
(* Files.                                                                  *)

InState(st, file) == [state |-> st, ir |-> file.ir, by |-> file.by]

\* open(): what was there is gone, and every reader finds an empty file.
Truncated(f) == [files EXCEPT ![f] = InState("empty", files[f])]

\* write(): fills a file that is empty.  In one that another writer has
\* filled since it was truncated, the longer document keeps its tail.
Filled(f, i, c) ==
    {[files EXCEPT ![f] = [state |-> st, ir |-> i, by |-> c]] :
        st \in IF files[f].state = "empty" THEN {"whole"}
               ELSE {"whole", "garbled"}}

\* A write that fails half-way, or whose process dies in it.
Abandoned(f) == 
    {files, [files EXCEPT ![f] = InState("garbled", files[f])]}

\* Every command that is under way has seen c write the IR file.
NotedWrite(c) ==
    [d \in Commands |-> IF pc[d] = "idle" THEN {} ELSE since[d] \cup {c}]

-----------------------------------------------------------------------------
(* The command line interface.                                             *)

Go(c, place) == pc' = [pc EXCEPT ![c] = place]

\* A user, a script or CI runs a command.  A `dump` is the binary run by
\* hand with TAUT_DUMP_IR set.
Start(c) ==
    /\ pc[c] = "idle"
    /\ \E i \in Invocations :
        /\ command' = [command EXCEPT ![c] = i]
        /\ Go(c, IF i.fromBinary THEN "spawning" ELSE "loading")
    /\ UNCHANGED <<files, child, loaded, seen, since>>

\* The process runs what is at the path at this moment: whatever the last
\* cargo build has left there.  The path has to exist.
Spawn(c) ==
    /\ pc[c] = "spawning"
    /\ \E b \in Binaries :
        \/ /\ b.main = "missing"
           /\ Go(c, "failed")
           /\ UNCHANGED child
        \/ /\ b.main # "missing"
           /\ Go(c, "waiting")
           /\ child' = [child EXCEPT ![c] = [at |-> "running", binary |-> b]]
    /\ UNCHANGED <<files, command, loaded, seen, since>>

\* Mutant: the exit status of the child is not looked at.
ReapsAnyStatus(c) ==
    /\ pc[c] = "waiting"
    /\ child[c].at \in {"succeeded", "failed"}
    /\ Go(c, IF command[c].kind = "dump" THEN "done"
             ELSE IF files["ir"].state = "absent" THEN "failed"
             ELSE "loading")
    /\ UNCHANGED <<files, command, child, loaded, seen, since>>

\* Command::output returns when the child has exited.  A status other than 0
\* is an error, and so is a target that does not exist.
Reaps(c) ==
    /\ pc[c] = "waiting"
    /\ child[c].at \in {"succeeded", "failed"}
    /\ Go(c, IF child[c].at = "failed" THEN "failed"
             ELSE IF command[c].kind = "dump" THEN "done"
             ELSE IF files["ir"].state = "absent" THEN "failed"
             ELSE "loading")
    /\ UNCHANGED <<files, command, child, loaded, seen, since>>

\* Where a command goes with an IR it has accepted, by its subcommand.
Onward == [gen |-> "opening", mcp |-> "opening", write |-> "opening",
           check |-> "comparing", inspect |-> "done"]

\* Mutant: the version is not looked at.
AcceptsAny(c) == files["ir"].state = "whole"

\* All subcommands but inspect refuse an IR of another version.
Accepts(c) ==
    /\ files["ir"].state = "whole"
    /\ command[c].kind # "inspect" => files["ir"].ir.version = IrVersion

\* The file is read and parsed; an empty or garbled one is no JSON.
Loads(c) ==
    /\ pc[c] = "loading"
    /\ loaded' = [loaded EXCEPT ![c] =
                    IF files["ir"].state = "whole" THEN files["ir"] ELSE @]
    /\ Go(c, IF Accepts(c) THEN Onward[command[c].kind] ELSE "failed")
    /\ UNCHANGED <<files, command, child, seen, since>>

\* The file a subcommand writes.
Target == [gen |-> "client", mcp |-> "manifest", write |-> "baseline"]

Opens(c) ==
    /\ pc[c] = "opening"
    /\ files' = Truncated(Target[command[c].kind])
    /\ Go(c, "writing")
    /\ UNCHANGED <<command, child, loaded, seen, since>>

Writes(c) ==
    /\ pc[c] = "writing"
    /\ files' \in Filled(Target[command[c].kind], loaded[c].ir, c)
    /\ Go(c, "done")
    /\ UNCHANGED <<command, child, loaded, seen, since>>

-----------------------------------------------------------------------------
(* check.                                                                  *)

\* The parts of a diff, of procedures or of types: both are indexed by name.
Added(base, cur)   == DOMAIN cur \ DOMAIN base
Removed(base, cur) == DOMAIN base \ DOMAIN cur
Changed(base, cur) == {n \in DOMAIN base \cap DOMAIN cur : base[n] # cur[n]}

\* Mutant: the loops go over the current IR only.
IgnoresRemoved(base, cur) ==
    \A part \in {"procs", "types"} :
        /\ Added(base[part], cur[part]) = {}
        /\ Changed(base[part], cur[part]) = {}

IsClean(base, cur) ==
    \A part \in {"procs", "types"} :
        /\ Added(base[part], cur[part]) = {}
        /\ Removed(base[part], cur[part]) = {}
        /\ Changed(base[part], cur[part]) = {}

\* A baseline that is missing or no JSON is an error, drift is one, and the
\* version of the baseline is not compared.
Compares(c) ==
    /\ pc[c] = "comparing"
    /\ seen' = [seen EXCEPT ![c] = files["baseline"]]
    /\ Go(c, IF /\ files["baseline"].state = "whole"
                /\ IsClean(files["baseline"].ir, loaded[c].ir)
             THEN "done" ELSE "failed")
    /\ UNCHANGED <<files, command, child, loaded, since>>

-----------------------------------------------------------------------------
(* The user's binary: dump_if_requested, or a main that never calls it.    *)

ChildGo(c, place) ==
    child' = [child EXCEPT ![c] = [at |-> place, binary |-> child[c].binary]]

\* dump_if_requested creates the directories and opens the target.
ChildOpens(c) ==
    /\ child[c].at = "running"
    /\ child[c].binary.main = "dumps"
    /\ files' = Truncated("ir")
    /\ ChildGo(c, "writing")
    /\ UNCHANGED <<pc, command, loaded, seen, since>>

\* It fills the target and exits with 0.
ChildWrites(c) ==
    /\ child[c].at = "writing"
    /\ files' \in Filled("ir", child[c].binary.ir, c)
    /\ ChildGo(c, "succeeded")
    /\ since' = NotedWrite(c)
    /\ UNCHANGED <<pc, command, loaded, seen>>

\* Mutant: a child that a signal has killed has no exit code, and a match on
\* codes leaves it out.
ChildHasNoCode(c) ==
    /\ child[c].at \in {"running", "writing", "serving"}
    /\ ChildGo(c, "signalled")
    /\ UNCHANGED <<files, pc, command, loaded, seen, since>>

\* Mutant: after an error dump_if_requested returns and main() goes on.
ChildCarriesOn(c) ==
    /\ child[c].at \in {"running", "writing"}
    /\ ChildGo(c, "serving")
    /\ UNCHANGED <<files, pc, command, loaded, seen, since>>

\* Nothing can be created or written: the diagnostic, and exit(2).  Also a
\* panic, a signal, or an exit of the program's own with another status.
ChildFails(c) ==
    /\ child[c].at \in {"running", "writing", "serving"}
    /\ ChildGo(c, "failed")
    /\ files' \in IF child[c].at = "writing" THEN Abandoned("ir") ELSE {files}
    /\ UNCHANGED <<pc, command, loaded, seen, since>>

\* A main that looks at nothing and comes to its end.
ChildIgnores(c) ==
    /\ child[c].at = "running"
    /\ child[c].binary.main = "ignores"
    /\ ChildGo(c, "succeeded")
    /\ UNCHANGED <<files, pc, command, loaded, seen, since>>

\* A main that looks at nothing and binds its port: it does not exit.
ChildServes(c) ==
    /\ child[c].at = "running"
    /\ child[c].binary.main = "serves"
    /\ ChildGo(c, "serving")
    /\ UNCHANGED <<files, pc, command, loaded, seen, since>>

-----------------------------------------------------------------------------
(* The environment.                                                        *)

\* A command is killed, or its own write fails; its child runs on.
Dies(c) ==
    /\ pc[c] \in {"spawning", "waiting", "loading", "opening", "writing",
                  "comparing"}
    /\ Go(c, "failed")
    /\ files' \in IF pc[c] = "writing" THEN Abandoned(Target[command[c].kind]) ELSE {files}
    /\ UNCHANGED <<command, child, loaded, seen, since>>

CommandStep(c) ==
    \/ Spawn(c)
    \/ Reaps(c)
    \/ Loads(c)
    \/ Opens(c)
    \/ Writes(c)
    \/ Compares(c)

ChildStep(c) ==
    \/ ChildOpens(c)
    \/ ChildWrites(c)
    \/ ChildIgnores(c)
    \/ ChildServes(c)

Next ==
    \E c \in Commands :
        \/ Start(c)
        \/ CommandStep(c)
        \/ ChildStep(c)
        \/ ChildFails(c)
        \/ Dies(c)

Spec == Init /\ [][Next]_vars

\* The operating system runs the processes it has.
Fairness ==
    \A c \in Commands : WF_vars(CommandStep(c)) /\ WF_vars(ChildStep(c))

FairSpec == Spec /\ Fairness

-----------------------------------------------------------------------------
(* Properties.                                                             *)

\* The types of the variables.
TypeOK ==
    /\ files \in [FileNames -> Contents]
    /\ pc \in [Commands -> {"idle", "spawning", "waiting", "loading", "opening",
                            "writing", "comparing", "done", "failed"}]
    /\ command \in [Commands -> InvocationType]
    /\ child \in [Commands ->
        [at : {"none", "running", "writing", "serving", "succeeded", "failed"},
         binary : Binaries]]
    /\ loaded \in [Commands -> Contents]
    /\ seen \in [Commands -> Contents]
    /\ since \in [Commands -> SUBSET Commands]

\* What a command read was written while it was under way, by a binary that
\* some command spawned, and is what that binary dumped.
Fresh(c) ==
    loaded[c].state = "whole" =>
        /\ loaded[c].by \in since[c]
        /\ loaded[c].ir = child[loaded[c].by].binary.ir

\* With --from-binary and a binary that calls dump_if_requested no command
\* goes on with an IR from before it began, whoever else dumps, dies or
\* rebuilds meanwhile; when no other command dumps, the IR is its own
\* binary's.
DumpedIrIsFresh ==
    \A c \in Commands :
        command[c].fromBinary /\ child[c].binary.main = "dumps" => Fresh(c)

\* A check that passes has seen a whole baseline with the same procedures and
\* types, by name and definition, as the IR it read, and that is of the
\* version of the CLI.
PassMeansNoDrift ==
    \A c \in Commands :
        pc[c] = "done" /\ command[c].kind = "check" =>
            /\ seen[c].state = "whole"
            /\ seen[c].ir.procs = loaded[c].ir.procs
            /\ seen[c].ir.types = loaded[c].ir.types
            /\ loaded[c].ir.version = IrVersion

\* A client, manifest or baseline that can be read is rendered from what its
\* command read and accepted, however many commands write to it at once.
OutputsAreAccepted ==
    \A f \in {"client", "manifest", "baseline"} :
        files[f].state = "whole" /\ files[f].by # Before =>
            /\ files[f].ir = loaded[files[f].by].ir
            /\ loaded[files[f].by].state = "whole"
            /\ files[f].ir.version = IrVersion

\* A command ends, unless the binary it has spawned is a server that looks
\* at no TAUT_DUMP_IR.
CommandsEnd ==
    \A c \in Commands :
        pc[c] # "idle" ~>
            \/ pc[c] \in {"done", "failed"}
            \/ child[c].at = "serving" /\ child[c].binary.main = "serves"
=============================================================================
