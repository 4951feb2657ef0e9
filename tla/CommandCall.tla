----------------------------- MODULE CommandCall ----------------------------
(***************************************************************************)
(* What t5506_send_race_cmd promises its callers, whatever the earphone and *)
(* the wire do: frames are written during a call only, at most SendCount of *)
(* them; a call that succeeds has written at least one and tells how many;  *)
(* one that gives up has tried SendCount times, or had no buffer.           *)
(***************************************************************************)
EXTENDS Naturals

CONSTANT SendCount

VARIABLES busy,    \* a call is under way
          tries,   \* frames the last call has written
          result,  \* what the last call returned
          told     \* the number of frames it tells its caller

vars == <<busy, tries, result, told>>

Init == ~busy /\ tries = 0 /\ result = "FALSE"

Begin ==
    /\ ~busy
    /\ busy' = TRUE
    /\ tries' = 0
    /\ UNCHANGED <<result, told>>

Refuse ==
    /\ ~busy
    /\ result' = "FALSE"
    /\ UNCHANGED <<busy, tries, told>>

Write ==
    /\ busy
    /\ tries < SendCount
    /\ tries' = tries + 1
    /\ UNCHANGED <<busy, result, told>>

Succeed ==
    /\ busy
    /\ tries > 0
    /\ busy' = FALSE
    /\ result' = "TRUE"
    /\ told' = tries
    /\ UNCHANGED tries

\* What it tells then is not promised.
GiveUp ==
    /\ busy
    /\ tries = SendCount
    /\ busy' = FALSE
    /\ result' = "FALSE"
    /\ UNCHANGED tries

Next == Begin \/ Refuse \/ Write \/ Succeed \/ GiveUp

Spec == Init /\ [][Next]_vars
=============================================================================
