--------------------------- MODULE IrPipelineInv ---------------------------
(***************************************************************************)
(* The inductive invariant of IrPipeline.                                  *)
(***************************************************************************)
EXTENDS IrPipeline

\* A document in a file or in a command's hands is what a child dumped.
IsDumped(file) ==
    file.state = "whole" /\ file.by # Before =>
        /\ child[file.by].at # "none"
        /\ file.ir = child[file.by].binary.ir

\* Once its child has begun to write, whatever a command can find in the IR
\* file was written since the command started.
ChildInv(c) ==
    /\ child[c].at # "none" => pc[c] \notin {"idle", "spawning"}
    /\ child[c].at = "writing" => child[c].binary.main = "dumps"
    /\ /\ child[c].at \in {"writing", "succeeded"}
       /\ child[c].binary.main = "dumps"
       /\ files["ir"].state = "whole"
       => files["ir"].by \in since[c]

Holding == {"opening", "writing", "comparing"}

\* A command that holds an IR has accepted it, after its child was through;
\* one that does not has not read the file.
LoadInv(c) ==
    /\ IsDumped(loaded[c])
    /\ pc[c] \in Holding =>
        loaded[c].state = "whole" /\ loaded[c].ir.version = IrVersion
    /\ pc[c] \in {"idle", "spawning", "waiting", "loading"} =>
        loaded[c].state = "absent"
    /\ pc[c] = "loading" /\ command[c].fromBinary => child[c].at = "succeeded"
    /\ command[c].fromBinary /\ loaded[c].state = "whole" =>
        /\ child[c].at = "succeeded"
        /\ child[c].binary.main = "dumps" => loaded[c].by \in since[c]
    /\ command[c].kind = "dump" => command[c].fromBinary /\ pc[c] # "loading"
    /\ pc[c] = "comparing" => command[c].kind = "check"
    /\ pc[c] \in {"opening", "writing"} => command[c].kind \in DOMAIN Target

\* The writer of an output is through.
OutputInv ==
    \A f \in FileNames \ {"ir"} :
        files[f].state = "whole" /\ files[f].by # Before =>
            /\ pc[files[f].by] = "done"
            /\ files[f].ir = loaded[files[f].by].ir
            /\ loaded[files[f].by].state = "whole"
            /\ files[f].ir.version = IrVersion

Inv ==
    /\ TypeOK
    /\ IsDumped(files["ir"])
    /\ \A c \in Commands : ChildInv(c) /\ LoadInv(c)
    /\ OutputInv
    /\ PassMeansNoDrift
=============================================================================
