-------------------------------- MODULE Fifo --------------------------------
(***************************************************************************)
(* What a buffer queue promises its users: buffers leave it in the order in *)
(* which they entered, one at a time, and a buffer is in it at most once.   *)
(* Who uses a queue alone may also take one buffer out of the middle, or    *)
(* cut the bytes in it down to a number.                                    *)
(***************************************************************************)
EXTENDS Naturals, Sequences, SequencesExt

CONSTANT Nodes
VARIABLES q,    \* the buffers with their lengths
          alone \* one thread uses the queue by itself

vars == <<q, alone>>

Bytes(s) == FoldLeft(LAMBDA sum, x : sum + x.len, 0, s)

Init == q = <<>>

Put  == \E b \in Nodes : /\ \A k \in DOMAIN q : q[k].buf # b
                         /\ Len(q') = Len(q) + 1 /\ Front(q') = q /\ Last(q').buf = b
Take == q # <<>> /\ q' = Tail(q)
Drop == \E k \in DOMAIN q : q' = RemoveAt(q, k)

\* The first n bytes stay, and none is lost or added on the way.
Keep(n) ==
    \/ n = 0 /\ q' = <<>>
    \/ \E k \in DOMAIN q, m \in 0..n :
          /\ m <= q[k].len
          /\ q' = Append(SubSeq(q, 1, k - 1), [q[k] EXCEPT !.len = m])
          /\ Bytes(q') = n

\* Whole buffers are taken from the front, as many as there is room for.
TakeUpTo(room) ==
    \E k \in 0..Len(q) :
        /\ Bytes(SubSeq(q, 1, k)) <= room
        /\ k < Len(q) => Bytes(SubSeq(q, 1, k + 1)) > room
        /\ q' = SubSeq(q, k + 1, Len(q))

Next ==
    /\ \/ Put \/ Take
       \/ alone /\ (Drop \/ \E n \in 0..Bytes(q) : Keep(n) \/ TakeUpTo(n))
    /\ UNCHANGED alone

Spec == Init /\ [][Next]_vars
=============================================================================
