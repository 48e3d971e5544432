-------------------------- MODULE MCEventPipeline --------------------------
(* Small instances of EventPipeline for TLC. *)
EXTENDS PipelineRefinement, TLC

CONSTANTS e1, e2, e3, e4, bad, x1

\* A batch of two, a single event, and a batch whose second event is invalid.
MCRequestsOne   == {<<e1, e2>>}
MCRequests      == {<<e1, e2>>, <<e3>>}
MCRequestsMixed == {<<e1, e2>>, <<e3>>, <<e4, bad>>}

Symmetry == Permutations(Runs)
=============================================================================
