---------------------------- MODULE FrameParsing ----------------------------
(***************************************************************************)
(* What a frame of the earphone's protocol is, and which frames a piece of  *)
(* the byte stream contains (onewire_frame_t of common.h, get_rsp_frame of  *)
(* t5506.cpp).  A frame is                                                  *)
(*     header byte, type byte, 16-bit length n (low byte first), n bytes.   *)
(* This is the reference the receive buffer of UartRx is compared with: it  *)
(* looks at the bytes received and at nothing else.                         *)
(***************************************************************************)
EXTENDS Naturals, Sequences, SequencesExt, FiniteSetsExt

CONSTANTS Header,  \* ONEWIRE_FRAME_START
          Kind,    \* ONEWIRE_FRAME_SIGNAL_BYTE
          Items    \* what the earphone may send at a time: frames, noise, parts of frames

ASSUME FrameAssumption == Header \in Nat /\ Kind \in Nat /\ Items \subseteq Seq(Nat) \ {<<>>}

\* A header and its type byte stand at position p of s.
HeaderAt(s, p) == p < Len(s) /\ s[p] = Header /\ s[p + 1] = Kind

\* The first header of s at position p or after it, Len(s) + 1 if there is none.
NextHeader(s, p) ==
    LET hs == {q \in p..Len(s) : HeaderAt(s, q)}
    IN  IF hs = {} THEN Len(s) + 1 ELSE Min(hs)

\* The frame that begins at p is complete in s.
CompleteAt(s, p) ==
    /\ p + 3 <= Len(s)
    /\ p + 3 + s[p + 2] + 256 * s[p + 3] <= Len(s)
FrameEnd(s, p) == p + 3 + s[p + 2] + 256 * s[p + 3]

\* Where the frames of s begin, in order.  An incomplete frame ends the search.
FrameStarts(s) ==
    LET from[p \in 1..(Len(s) + 1)] ==
            LET h == NextHeader(s, p)
            IN  IF h > Len(s) \/ ~CompleteAt(s, h) THEN <<>>
                ELSE <<h>> \o from[FrameEnd(s, h) + 1]
    IN  from[1]

Frames(s) == [k \in DOMAIN FrameStarts(s) |->
                SubSeq(s, FrameStarts(s)[k], FrameEnd(s, FrameStarts(s)[k]))]

\* The bytes after the last complete frame of s ...
AfterFrames(s) ==
    LET st == FrameStarts(s)
    IN  IF st = <<>> THEN s ELSE SubSeq(s, FrameEnd(s, Last(st)) + 1, Len(s))
\* ... and where, after them, a frame begins that is not complete: at a header, or at
\* a header byte that ends s; Len(s) + 1 if nowhere.
BegunAt(s) ==
    LET h == NextHeader(s, Len(s) - Len(AfterFrames(s)) + 1)
    IN  IF h > Len(s) /\ AfterFrames(s) # <<>> /\ Last(s) = Header THEN Len(s) ELSE h

\* Reading the first n bytes of s by themselves leaves every frame whole: no frame,
\* complete in s or only begun in it, reaches across the cut or may yet do so.
CutsNoFrame(s, n) ==
    /\ \A p \in {FrameStarts(s)[k] : k \in DOMAIN FrameStarts(s)} :
          n < p \/ n >= FrameEnd(s, p)
    /\ n < BegunAt(s) \/ BegunAt(s) > Len(s)
=============================================================================
