------------------------------ MODULE MCInfer -------------------------------
(***************************************************************************)
(* Instances of CPUInfer for TLC.                                          *)
(***************************************************************************)
EXTENDS CpuInfer

Setup(queries, direct, times, faults) ==
    [queries |-> queries, direct |-> direct, replays |-> times, faults |-> faults]

\* Stream calls alone, with a graph replayed twice; stream and direct calls;
\* every fault at once; a runtime that cannot tell whether a stream is captured.
Uses ==
    {Setup(TRUE, FALSE, 2, {"launch", "alloc", "func"}),
     Setup(TRUE, TRUE, 2, {"launch", "alloc", "func"}),
     Setup(TRUE, TRUE, 1, {"query", "launch", "alloc", "device", "func"}),
     Setup(FALSE, TRUE, 2, {"launch"})}
=============================================================================
