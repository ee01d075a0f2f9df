------------------------------ MODULE MCLayer -------------------------------
(***************************************************************************)
(* Instances of the distributed layer for TLC.                             *)
(***************************************************************************)
EXTENDS DistributedLayer

Setup(policy, steps, faults) ==
    [policy |-> policy, steps |-> steps, faults |-> faults]

Shared == {"control", "backend", "gpu", "post", "repack"}

\* Every policy with the failures the ranks share, and with a routing that
\* raises on some of the ranks.
Uses ==
    {Setup("retain", 3, Shared), Setup("recompute", 3, Shared),
     Setup("plain", 3, Shared), Setup("retain", 3, {"route", "gpu"}),
     Setup("recompute", 2, {"route"}), Setup("plain", 2, {"route"})}
=============================================================================
