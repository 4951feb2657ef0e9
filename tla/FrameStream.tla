---------------------------- MODULE FrameStream -----------------------------
(***************************************************************************)
(* What the receive path promises, without its buffer: bytes arrive, a read *)
(* takes a piece of them and the frames that are complete in that piece are *)
(* delivered in order, each once.                                           *)
(***************************************************************************)
EXTENDS FrameParsing

CONSTANTS MaxBytes,  \* bound: bytes the earphone sends
          ReadMax    \* the most one read may take

VARIABLES line,   \* bytes on their way
          count,  \* how many were sent
          got     \* frames delivered

streamVars == <<line, count, got>>

Init == line = <<>> /\ count = 0 /\ got = <<>>

Arrive(it) ==
    /\ count + Len(it) <= MaxBytes
    /\ line' = line \o it
    /\ count' = count + Len(it)
    /\ UNCHANGED got

Deliver(n) ==
    /\ line' = SubSeq(line, n + 1, Len(line))
    /\ got' = got \o Frames(SubSeq(line, 1, n))
    /\ UNCHANGED count

Next ==
    \/ \E it \in Items : Arrive(it)
    \/ \E n \in 1..ReadMax : n <= Len(line) /\ Deliver(n)

Spec == Init /\ [][Next]_streamVars
=============================================================================
