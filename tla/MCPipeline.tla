----------------------------- MODULE MCPipeline -----------------------------
(***************************************************************************)
(* Instances of the forward pipeline for TLC.                              *)
(***************************************************************************)
EXTENDS ForwardPipeline

\* Two layers in a row with deferred experts: the second one's slot holds the
\* first one's late result, and the third layer uses the first one's slot.
Plain(p, n) == [path |-> p, layers |-> 3, deferring |-> {0, 1}, clears |-> TRUE,
                captures |-> FALSE, failing |-> TRUE, passes |-> n]

\* Passes are captured and replayed too, and the registered sizes change.
Captured == [Plain("stream", 3) EXCEPT !.layers = 2, !.deferring = {0}, !.captures = TRUE,
                                       !.failing = FALSE]

\* On the pinned path also without clearing: only then no wake-up is lost.
Pinned == {[Plain("pinned", n) EXCEPT !.clears = c, !.failing = n = 1] : n \in {1, 2}, c \in BOOLEAN}

Uses == {Plain("stream", 2), Plain("npu", 2), Plain("bypass", 2), Plain("filled", 2), Captured} \cup
        Pinned
=============================================================================
