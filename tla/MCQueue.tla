------------------------------ MODULE MCQueue -------------------------------
(***************************************************************************)
(* Instances of the task queue for TLC.                                    *)
(***************************************************************************)
EXTENDS TaskQueue

CONSTANTS a, b

Setup(e, s, u) == [enqueuers |-> e, syncers |-> s, unruly |-> u]

\* One thread that enqueues and syncs, as CPUInfer's caller does; two threads
\* that enqueue; threads that do anything, with exceptions.
Uses == {Setup({a}, {a}, FALSE), Setup({a, b}, {}, FALSE), Setup({a, b}, {b}, TRUE)}

\* One thread enqueues, another one syncs.
Apart == {Setup({a}, {b}, FALSE)}
=============================================================================
