---------------------------- MODULE CallContract ----------------------------
(***************************************************************************)
(* What a caller may conclude from the way a query or mutation settles.    *)
(* The procedure body runs at most once.  A call that settles with a value *)
(* or with an error of the procedure has run it to its end.  A call that   *)
(* is refused has not run it and never will.  Of a call that settles in    *)
(* doubt (connection lost, timeout, an answer that cannot be read) the     *)
(* caller knows nothing: the body may not have run, may be running, and    *)
(* may even start later.                                                   *)
(***************************************************************************)
CONSTANT Calls

VARIABLES
    effect,     \* effect[c]: what became of the procedure's body
    verdict     \* verdict[c]: what the caller has been told

vars == <<effect, verdict>>

Effects  == {"none", "running", "done", "cut"}
Verdicts == {"none", "value", "error", "refused", "doubt"}

TypeOK ==
    /\ effect \in [Calls -> Effects]
    /\ verdict \in [Calls -> Verdicts]

Init ==
    /\ effect = [c \in Calls |-> "none"]
    /\ verdict = [c \in Calls |-> "none"]

Starts(c) ==
    /\ effect[c] = "none"
    /\ verdict[c] \in {"none", "doubt"}
    /\ effect' = [effect EXCEPT ![c] = "running"]
    /\ UNCHANGED verdict

Finishes(c) ==
    /\ effect[c] = "running"
    /\ effect' = [effect EXCEPT ![c] = "done"]
    /\ UNCHANGED verdict

\* The body panics, or its future is dropped where it waits.
IsCut(c) ==
    /\ effect[c] = "running"
    /\ effect' = [effect EXCEPT ![c] = "cut"]
    /\ UNCHANGED verdict

Settles(c, v) ==
    /\ verdict[c] = "none"
    /\ v \in {"value", "error"} => effect[c] = "done"
    /\ v = "refused" => effect[c] = "none"
    /\ verdict' = [verdict EXCEPT ![c] = v]
    /\ UNCHANGED effect

Next ==
    \E c \in Calls :
        \/ Starts(c)
        \/ Finishes(c)
        \/ IsCut(c)
        \/ \E v \in Verdicts \ {"none"} : Settles(c, v)

Spec == Init /\ [][Next]_vars
=============================================================================
