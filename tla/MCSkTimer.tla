------------------------------ MODULE MCSkTimer ------------------------------
(* Once, every day, on the second and fourth day, and a bit that is no day.  *)
EXTENDS SkTimer

MCWeeks == {{}, {0}, {1, 3}, {7}}
=============================================================================
