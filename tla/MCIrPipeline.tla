---------------------------- MODULE MCIrPipeline ----------------------------
(***************************************************************************)
(* IrPipeline for TLC: a program in three states of its API, one of them   *)
(* built with an older taut-rpc, and what may lie around of earlier runs.  *)
(***************************************************************************)
EXTENDS IrPipelineInv, TLC

CONSTANTS c1, c2

TwoCommands == {c1, c2}

\* One API, the same with a procedure more, and the same by an older macro.
Small == [version |-> 1, procs |-> "ping" :> 1, types |-> "T" :> 1]
Grown == [version |-> 1, procs |-> ("ping" :> 1) @@ ("add" :> 1),
          types |-> "T" :> 1]
Old   == [Small EXCEPT !.version = 0]

ThreeIrs == {Small, Grown, Old}

Runs(main, ir) == [main |-> main, ir |-> ir]
AllBinaries ==
    {Runs("dumps", i) : i \in ThreeIrs} \cup
    {Runs("ignores", Small), Runs("serves", Small), Runs("missing", Small)}
\* Each subcommand once, gen in both ways.
MainInvocations ==
    {[kind |-> k, fromBinary |-> TRUE] : k \in {"gen", "check", "write", "dump"}}
    \cup {[kind |-> k, fromBinary |-> FALSE] : k \in {"gen", "mcp", "inspect"}}

Left(state, ir) == [state |-> state, ir |-> ir, by |-> Before]
Leftovers == {Left("whole", Grown), Left("whole", Old)}
=============================================================================
