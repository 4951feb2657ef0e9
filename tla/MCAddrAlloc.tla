----------------------------- MODULE MCAddrAlloc -----------------------------
(* Two stations that differ in nothing, on one table.                       *)
EXTENDS AddrAlloc

Symmetry == Permutations(Stations) \cup Permutations(Ids)

\* Once the table is damaged, one station is followed at a time.
Explored == intact \/ Cardinality(open) <= 1
=============================================================================
