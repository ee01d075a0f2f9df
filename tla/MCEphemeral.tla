---------------------------- MODULE MCEphemeral -----------------------------
(***************************************************************************)
(* Instances of the ephemeral weights for TLC.                             *)
(***************************************************************************)
EXTENDS EphemeralStore

Setup(ps, cs, ls, ks) == [producers |-> ps, consumers |-> cs, layers |-> ls, parts |-> 2,
                          kills |-> ks, signals |-> 2]

\* Two training runs on one conversion; two conversions for one training run,
\* the second of which finds what the first has left.
Uses == {Setup({"p1"}, {"c1", "c2"}, 2, 1), Setup({"p1", "p2"}, {"c1"}, 1, 2)}
=============================================================================
