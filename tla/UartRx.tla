------------------------------- MODULE UartRx -------------------------------
(***************************************************************************)
(* The UART receive thread and its buffer: win32_uart_recv_thread (uart.c)  *)
(* reads what has arrived into uart_rx_buff and calls                       *)
(* ua800_do_with_uart_rsp, which has process_data_buffer (t5506.cpp) take   *)
(* the frames out of the buffer; then the thread resets the buffer.         *)
(*                                                                          *)
(* The buffer is modelled byte by byte, with the bytes earlier reads left   *)
(* behind its length: get_rsp_frame looks one byte (and, after a match,     *)
(* three) past the position it tests.                                       *)
(***************************************************************************)
EXTENDS FrameParsing

CONSTANTS MaxBytes,  \* bound: bytes the earphone sends
          BufSize    \* BUF_SIZE, the size of uart_rx_buff

ASSUME UartRxAssumption ==
    /\ MaxBytes \in Nat /\ BufSize \in Nat \ {0, 1}
    /\ Kind # 0  \* 0x5B: with the 0 behind the bytes of a read no header is complete

VARIABLES line,   \* bytes on their way to ReadFile
          mem,    \* uart_rx_buff.pbuff[0 .. BUF_SIZE - 1], shifted by one
          len,    \* uart_rx_buff.len
          nlen,   \* process_data_buffer's nlen, then its result
          pc,     \* where the thread is
          got,    \* frames handed to do_onewire_frame_rsp
          chunk,  \* history: the bytes of the read being processed
          before, \* history: got when that read began
          all,    \* history: every byte sent
          split   \* history: some read ended inside a frame

vars == <<line, mem, len, nlen, pc, got, chunk, before, all, split>>

Bytes == Nat

TypeOK ==
    /\ line \in Seq(Bytes) /\ all \in Seq(Bytes) /\ chunk \in Seq(Bytes)
    /\ mem \in [1..BufSize -> Bytes]
    /\ len \in 0..(BufSize - 1)
    /\ nlen \in 0..len
    /\ pc \in {"wait", "parse", "return"}
    /\ got \in Seq(Seq(Bytes))
    /\ before \in Seq(Seq(Bytes))
    /\ split \in BOOLEAN

Init ==
    /\ line = <<>> /\ all = <<>> /\ chunk = <<>>
    /\ mem = [k \in 1..BufSize |-> 0]
    /\ len = 0 /\ nlen = 0 /\ pc = "wait"
    /\ got = <<>> /\ before = <<>> /\ split = FALSE

-----------------------------------------------------------------------------
(* get_rsp_frame, with the positions of mem for its pointers                 *)

\* Mutant: the search tests the header byte only.
HeaderByteAt(p) == mem[p] = Header
\* *p == id1 && *(p + 1) == id2: the second byte may lie behind the length.
MatchAt(p) == mem[p] = Header /\ mem[p + 1] = Kind

\* pframe->len.  Its high byte may lie behind the buffer (0 here), but then fewer than
\* four bytes are left, which are not a whole frame whatever it is.
LenField(p) == mem[p + 2] + 256 * (IF p + 3 \in DOMAIN mem THEN mem[p + 3] ELSE 0)

\* Mutant: the length and type bytes forgotten in frame_len.
ShortFrameLen(p) == LenField(p) + 2
\* frame_len = pframe->len + sizeof(pframe->len) + 2
FrameLen(p) == LenField(p) + 4

\* Mutant: one byte too few is enough.
WholeOffByOne(p) == FrameLen(p) <= nlen - (p - 1) + 1
\* frame_len <= (len - i)
Whole(p) == FrameLen(p) <= nlen - (p - 1)

\* Mutant: memmove one byte short of the remaining bytes.
MovedShort(p, n) == [k \in 1..BufSize |-> IF k < n THEN mem[p + k - 1] ELSE mem[k]]
\* memmove(pbuff, pbuff + p, n): nothing behind the n bytes changes.
Moved(p, n) == [k \in 1..BufSize |-> IF k <= n THEN mem[p + k - 1] ELSE mem[k]]

\* The first position of the nlen bytes at which the search stops, 0 if none.
Found ==
    LET ps == {p \in 1..nlen : MatchAt(p)}
    IN  IF ps = {} THEN 0 ELSE Min(ps)

-----------------------------------------------------------------------------
\* The earphone sends something (external).
Arrive(it) ==
    /\ Len(all) + Len(it) <= MaxBytes
    /\ line' = line \o it
    /\ all' = all \o it
    /\ UNCHANGED <<mem, len, nlen, pc, got, chunk, before, split>>

\* ReadFile returned n bytes: what had arrived, up to the room in the buffer, or
\* what came before the line was silent for the read interval.
Read(n) ==
    /\ pc = "wait"
    /\ n <= Len(line)
    /\ n <= BufSize - 1 - len
    /\ mem' = [k \in 1..BufSize |->
                 IF k \in (len + 1)..(len + n) THEN line[k - len]
                 ELSE IF k = len + n + 1 THEN 0 ELSE mem[k]]
    /\ len' = len + n
    /\ nlen' = len + n
    /\ pc' = "parse"
    /\ line' = SubSeq(line, n + 1, Len(line))
    /\ chunk' = SubSeq(line, 1, n)
    /\ before' = got
    /\ split' = (split \/ ~CutsNoFrame(line, n))
    /\ UNCHANGED <<got, all>>

\* One round of process_data_buffer's loop that finds a complete frame.
ParseFrame ==
    /\ pc = "parse"
    /\ Found # 0
    /\ Whole(Found)
    /\ got' = Append(got, SubSeq(mem, Found, Found + FrameLen(Found) - 1))
    /\ nlen' = nlen - (Found - 1) - FrameLen(Found)
    /\ mem' = Moved(Found + FrameLen(Found), nlen')
    /\ UNCHANGED <<line, len, pc, chunk, before, all, split>>

\* A header without the rest of its frame is moved to the front.
ParsePartial ==
    /\ pc = "parse"
    /\ Found # 0
    /\ ~Whole(Found)
    /\ nlen' = nlen - (Found - 1)
    /\ mem' = Moved(Found, nlen')
    /\ pc' = "return"
    /\ UNCHANGED <<line, len, got, chunk, before, all, split>>

\* No header: the buffer stays as it is and its length is returned.
ParseNone ==
    /\ pc = "parse"
    /\ Found = 0
    /\ pc' = "return"
    /\ UNCHANGED <<line, mem, len, nlen, got, chunk, before, all, split>>

\* ua800_do_with_uart_rsp stores the result in b->len; back in the receive thread
\* init_buffer makes it 0.
Return ==
    /\ pc = "return"
    /\ len' = 0
    /\ nlen' = 0
    /\ pc' = "wait"
    /\ UNCHANGED <<line, mem, got, chunk, before, all, split>>

Next ==
    \/ \E it \in Items : Arrive(it)
    \/ \E n \in 1..(BufSize - 1) : Read(n)
    \/ ParseFrame \/ ParsePartial \/ ParseNone \/ Return

Spec == Init /\ [][Next]_vars

-----------------------------------------------------------------------------
(* Properties *)

\* The thread with its buffer, its stale bytes and its memmoves implements a parser
\* that sees each read by itself: a frame is never made of bytes of an earlier read
\* or of bytes already consumed, none that is complete is skipped, none is doubled.
Abs == INSTANCE FrameStream WITH
         ReadMax <- BufSize - 1,
         count   <- Len(all),
         line    <- IF pc = "wait" THEN line ELSE chunk \o line,
         got     <- IF pc = "wait" THEN got ELSE before
PerReadParser == Abs!Spec

\* What the comment of process_data_buffer says it returns: the number of bytes left
\* over.  These bytes are then at the front of the buffer, undamaged by the moves:
\* they end the bytes that follow the last frame, and nothing of a frame that has
\* begun is missing.  (A stale byte behind the length may complete a false header,
\* which only drops bytes before it.)
RestAtFront ==
    pc = "return" =>
        /\ IsSuffix(SubSeq(mem, 1, nlen), AfterFrames(chunk))
        /\ nlen >= Len(chunk) + 1 - BegunAt(chunk)

\* As long as every read ended between two frames, nothing is lost: the frames
\* delivered are those of the whole stream received so far, in order.
WholeFramesArrive ==
    (~split /\ pc = "wait") => got = Frames(SubSeq(all, 1, Len(all) - Len(line)))

\* What returning the left-over length is for: the frames delivered do not depend on
\* where the reads end.  The receive thread's init_buffer drops the left-over bytes.
StreamDelivered == (pc = "wait" /\ line = <<>>) => got = Frames(all)
=============================================================================
