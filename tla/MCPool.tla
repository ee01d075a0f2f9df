------------------------------- MODULE MCPool -------------------------------
(***************************************************************************)
(* Instances of the worker pool for TLC.                                   *)
(***************************************************************************)
EXTENDS WorkerPool

Pool(n, tasks, jobs, throws) ==
    [n |-> n, tasks |-> tasks, jobs |-> jobs, throws |-> throws]

\* Two jobs one after the other; one job whose functions may throw in the
\* caller's share.
Uses == {Pool(3, 3, 2, FALSE), Pool(3, 3, 1, TRUE)}
=============================================================================
