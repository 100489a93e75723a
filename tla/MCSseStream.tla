---------------------------- MODULE MCSseStream ----------------------------
(***************************************************************************)
(* SseStream for TLC: the client set-ups of the runs.                      *)
(***************************************************************************)
EXTENDS SseStreamInv

CONSTANT c1

\* Every set-up.
AnyClient == Setups

\* The set-up of the disagreement.
LazyChecked == {c \in Setups : c.lazy /\ c.checked /\ ~c.hasty}
=============================================================================
