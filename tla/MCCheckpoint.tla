---------------------------- MODULE MCCheckpoint -----------------------------
(***************************************************************************)
(* The instance of the full-weight checkpoints for TLC.                    *)
(***************************************************************************)
EXTENDS FullCheckpoint, TLC

Symmetry == Permutations(Savers)

\* A bound: what follows an interrupted load is explored as long as no save is
\* going on, in every state of the directory that saves can leave behind.
CutAmongFiles == cut => \A s \in Savers : At(s, "idle")
=============================================================================
