---------------------------- MODULE MCWsSocket ----------------------------
(***************************************************************************)
(* WsSocket for TLC: model values for subscriptions and ids, and symmetry  *)
(* among the subscriptions for the runs that check safety only.            *)
(***************************************************************************)
EXTENDS WsSocketInv, FiniteSets, TLC

CONSTANTS s1, s2, s3, id1, id2

TwoSubs   == {s1, s2}
ThreeSubs == {s1, s2, s3}
OneId     == {id1}
TwoIds    == {id1, id2}

\* Bound: three subscriptions take turns with one id, or two have two ids, and
\* then every message is for one of them.
Crowd ==
    LET used == {s \in Subs : subId[s] # GlobalId}
    IN  Cardinality({subId[s] : s \in used}) = 2 =>
            Cardinality(used) = 2 /\ noise = 0

SubSymmetry == Permutations(Subs) \cup Permutations(Ids)
=============================================================================
