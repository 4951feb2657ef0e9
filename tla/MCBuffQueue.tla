----------------------------- MODULE MCBuffQueue -----------------------------
(* The buffers, and the threads of a kind, differ in nothing.               *)
EXTENDS BuffQueue

Symmetry == Permutations(Nodes) \cup Permutations(Takers) \cup Permutations(Senders)
=============================================================================
