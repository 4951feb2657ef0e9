------------------------------ MODULE AddrPool ------------------------------
(***************************************************************************)
(* What a handle of jx_common/src/amalloc.cpp promises its one user: a set   *)
(* of addresses in use, from which addr_alloc takes a run that is free,      *)
(* whenever there is one, and to which addr_free gives back any run that is  *)
(* in use.  Nothing here knows of records, of their order or of a database.  *)
(***************************************************************************)
EXTENDS Integers

CONSTANTS Size, \* base_len: addresses of the segment, as offsets 0..Size-1
          Asked, \* lengths that are asked for
          Freed  \* lengths that are freed

VARIABLES open, \* there is a handle
          used, \* addresses in use, as the handle knows them
          call  \* the call in progress with its outcome

vars == <<open, used, call>>

Run(a, n) == a .. (a + n - 1)
NoCall    == [op |-> "none", at |-> 0, len |-> 0]

Init == open = FALSE /\ used = {} /\ call = NoCall

\* A handle starts from what its source says is in use.
Open ==
    /\ ~open
    /\ open' = TRUE
    /\ used' \in SUBSET (0..(Size - 1))
    /\ call' = NoCall

\* The handle is given up, or lost with the process.
Close == open /\ open' = FALSE /\ used' = {} /\ call' = NoCall

CanHold(n) == {a \in 0..(Size - n) : Run(a, n) \cap used = {}}

\* addr_alloc
Alloc(n) ==
    /\ open /\ call = NoCall
    /\ \/ \E a \in CanHold(n) :
              /\ used' = used \cup Run(a, n)
              /\ call' = [op |-> "alloc", at |-> a, len |-> n]
       \/ /\ n > Size \/ CanHold(n) = {}
          /\ call' = [op |-> "refused", at |-> 0, len |-> n]
          /\ UNCHANGED used
    /\ UNCHANGED open

\* addr_free
Free(a, n) ==
    /\ open /\ call = NoCall
    /\ \/ /\ Run(a, n) \subseteq used
          /\ used' = used \ Run(a, n)
          /\ call' = [op |-> "free", at |-> a, len |-> n]
       \/ /\ n > 0 => ~(Run(a, n) \subseteq used)
          /\ call' = [op |-> "kept", at |-> a, len |-> n]
          /\ UNCHANGED used
    /\ UNCHANGED open

Return == call # NoCall /\ call' = NoCall /\ UNCHANGED <<open, used>>

Next ==
    \/ Open \/ Close \/ Return
    \/ \E n \in Asked : Alloc(n)
    \/ \E n \in Freed, a \in 0..Size : Free(a, n)

Spec == Init /\ [][Next]_vars
=============================================================================
