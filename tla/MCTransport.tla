----------------------------- MODULE MCTransport ----------------------------
(* Transport for TLC: the goroutines are interchangeable. *)
EXTENDS Transport, TLC

Symmetry == Permutations(Procs)
=============================================================================
