---------------------------- MODULE MCMonitoring ----------------------------
(* A small instance of Monitoring for TLC. *)
EXTENDS Monitoring, TLC

CONSTANTS e1, e2, e3, x1

\* A batch of two and a single event.
MCRequests == {<<e1, e2>>, <<e3>>}

Symmetry == Permutations(Runs)
=============================================================================
