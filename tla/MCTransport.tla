---------------------------- MODULE MCTransport -----------------------------
(***************************************************************************)
(* Instances of the layerwise transport for TLC.                           *)
(***************************************************************************)
EXTENDS TransportInvariant

\* Layers of 2 and 1 experts, with one host slot: the second expert and the
\* second layer need the slot again.
TwoThenOne == {[epoch |-> 1, layer |-> 1, count |-> 2], [epoch |-> 2, layer |-> 2, count |-> 1]}

\* One layer, which reuses the one host slot.
OneLayer == {[epoch |-> 1, layer |-> 1, count |-> 2]}

\* Layers of 1 and 2 experts: the second layer waits in join's fence, and its
\* second expert for the one slot.
OneThenTwo == {[epoch |-> 1, layer |-> 1, count |-> 1], [epoch |-> 2, layer |-> 2, count |-> 2]}

\* The bound of the runs that close: a rank starts to close before or in the
\* first layer.
CloseInFirstLayer ==
    \A r \in Ranks : life[r] = "open" /\ life'[r] \in {"closing", "closing_claim"} => active_epoch <= 1
=============================================================================
