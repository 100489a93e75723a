---------------------------- MODULE Subscription ----------------------------
(***************************************************************************)
(* What one taut-rpc subscription promises its client, whatever carries    *)
(* it: the WebSocket multiplexer (WsSocket) and the SSE stream (SseStream) *)
(* are both shown to implement this module.                                *)
(*                                                                         *)
(* A subscription is opened once, hands over frames one at a time, and is  *)
(* over exactly once: either its closing frame arrives (phase "ended") or  *)
(* the connection goes away (phase "lost").  After that nothing more is    *)
(* handed over.  A client that cancels keeps receiving what was already    *)
(* under way, and the closing frame then has to come.                      *)
(***************************************************************************)
EXTENDS Naturals

CONSTANT Subs          \* the subscriptions of one connection

VARIABLES phase,       \* where each subscription is in its life
          count        \* how many frames its client has been handed

absVars == <<phase, count>>

Phases == {"unsent", "open", "closing", "ended", "lost"}

AbsTypeOK ==
    /\ phase \in [Subs -> Phases]
    /\ count \in [Subs -> Nat]

AbsInit ==
    /\ phase = [s \in Subs |-> "unsent"]
    /\ count = [s \in Subs |-> 0]

Open(s) ==
    /\ phase[s] = "unsent"
    /\ phase' = [phase EXCEPT ![s] = "open"]
    /\ UNCHANGED count

\* A data or error frame; it does not end the subscription by itself.
Frame(s) ==
    /\ phase[s] \in {"open", "closing"}
    /\ count' = [count EXCEPT ![s] = @ + 1]
    /\ UNCHANGED phase

Cancel(s) ==
    /\ phase[s] = "open"
    /\ phase' = [phase EXCEPT ![s] = "closing"]
    /\ UNCHANGED count

\* The closing frame.
End(s) ==
    /\ phase[s] \in {"open", "closing"}
    /\ phase' = [phase EXCEPT ![s] = "ended"]
    /\ count' = [count EXCEPT ![s] = @ + 1]

\* The connection is gone: whatever was not over is lost.
Sever ==
    /\ phase' = [s \in Subs |-> IF phase[s] = "ended" THEN "ended" ELSE "lost"]
    /\ UNCHANGED count

AbsNext == Sever \/ \E s \in Subs : Open(s) \/ Frame(s) \/ Cancel(s) \/ End(s)

AbsSafety == AbsInit /\ [][AbsNext]_absVars

\* A cancelled subscription is closed: its frames cannot go on for ever.
ClosingEnds(s) == phase[s] = "closing" ~> phase[s] \in {"ended", "lost"}

AbsSpec == AbsSafety /\ \A s \in Subs : ClosingEnds(s)
=============================================================================
