----------------------------- MODULE RingBuffer -----------------------------
(***************************************************************************)
(* The byte ring of jx_common/src/ringerbuff.c with one writer and one      *)
(* reader, which its comments allow without a lock (on Windows the mutex    *)
(* around the updates of count is compiled out).                            *)
(*                                                                          *)
(* Byte number k of the stream is the value k, so that order, loss and      *)
(* duplication show.  count += len and count -= len are a read and a write, *)
(* and the other thread may come between them; count then is wrong for      *)
(* good, and the calls go on with it.                                       *)
(*                                                                          *)
(* While a call is under way the other side moves count in one direction    *)
(* only (OneWay in the proofs), so that the test for a full or an empty     *)
(* ring and the first use of count after it are one read.  The second       *)
(* evaluation of ringbuffer_len by the macro min is a step of its own.      *)
(* What follows a copy that leaves the ring's memory is undefined, and no   *)
(* step of either side is modelled after it.                                *)
(***************************************************************************)
EXTENDS Integers, Sequences

CONSTANTS Size,    \* size of the ring
          MaxPut,  \* bound: bytes put
          MaxLen   \* bound: largest len argument of a call

ASSUME RingAssumption ==
    Size \in Nat \ {0} /\ MaxPut \in Nat /\ MaxLen \in Nat \ {0}

VARIABLES data, count, read_pos, write_pos,  \* struct ringbuffer
          wpc, wlen, wplan, wreg,            \* ringbuffer_put: place, len, stores to come, register
          rpc, rlen, rreg,                   \* ringbuffer_get: place, len, register
          put, got,                          \* history: bytes copied into the ring and out of it
          mixed,                             \* history: a byte was read out of its turn
          lost,                              \* history: what overlapping updates took from count
          torn,                              \* history: two updates of count have overlapped
          dirty                              \* history: a reset found bytes in the ring

ringVars == <<data, count, read_pos, write_pos>>
writer   == <<wpc, wlen, wplan, wreg>>
reader   == <<rpc, rlen, rreg>>
hist     == <<put, got, mixed, lost, torn, dirty>>
vars == <<ringVars, writer, reader, hist>>

Bytes == 0..MaxPut

\* count stays within the ring even when updates of it overlap.
TypeOK ==
    /\ data \in [0..(Size - 1) -> Bytes]
    /\ count \in 0..Size
    /\ read_pos \in 0..Size /\ write_pos \in 0..Size
    /\ wpc \in {"idle", "copy", "store", "count", "add", "undefined"}
    /\ rpc \in {"idle", "limit", "copy", "count", "sub", "undefined"}
    /\ wlen \in 0..Size /\ rlen \in 0..Size
    /\ wreg \in 0..Size /\ rreg \in 0..Size
    /\ wplan \in Seq(0..Size)
    /\ put \in 0..MaxPut /\ got \in Nat /\ lost \in Int
    /\ {mixed, torn, dirty} \subseteq BOOLEAN

\* ringbuffer_create
Init ==
    /\ data = [p \in 0..(Size - 1) |-> 0]
    /\ count = 0 /\ read_pos = 0 /\ write_pos = 0
    /\ wpc = "idle" /\ wlen = 0 /\ wplan = <<>> /\ wreg = 0
    /\ rpc = "idle" /\ rlen = 0 /\ rreg = 0
    /\ put = 0 /\ got = 0 /\ mixed = FALSE /\ lost = 0
    /\ torn = FALSE /\ dirty = FALSE

-----------------------------------------------------------------------------
(* Single decisions of the code, named so that each can be mutated.         *)

\* Mutant: put does not limit len to the room left.
Unlimited(n) == n
\* if (left < len) len = left
Fitting(n) == IF Size - count < n THEN Size - count ELSE n

\* Mutant: a put that wraps jumps past the update of count.
CountedUnlessWrapped == IF write_pos < wlen THEN wreg ELSE wreg + wlen
\* count += len
CountAfterPut == wreg + wlen

\* Mutant: get wraps one byte too late.
GetWrapsLate == read_pos + rlen
\* The reader's position after rlen bytes: wrapped when the ring's end was reached.
NextReadPos ==
    IF read_pos >= write_pos /\ Size - read_pos <= rlen
    THEN rlen - (Size - read_pos)
    ELSE read_pos + rlen

\* Only the branch for a side that is behind the other one wraps nothing: there a
\* count that is wrong carries the copy past the ring's end.
PutLeaves == write_pos < read_pos /\ write_pos + wlen > Size
GetLeaves == read_pos < write_pos /\ read_pos + rlen > Size
Undefined ==
    /\ wpc' = "undefined" /\ rpc' = "undefined"
    /\ UNCHANGED <<ringVars, wlen, wplan, wreg, rlen, rreg, hist>>

-----------------------------------------------------------------------------
(* ringbuffer_put                                                            *)

PutStart(n) ==
    /\ wpc = "idle"
    /\ put + n <= MaxPut
    /\ count # Size
    /\ wlen' = Fitting(n)
    /\ wpc' = "copy"
    /\ UNCHANGED <<ringVars, wplan, wreg, reader, hist>>

\* The branch is chosen, the bytes are copied; the stores to write_pos follow.
PutCopy ==
    /\ wpc = "copy"
    /\ ~PutLeaves
    /\ data' = [p \in DOMAIN data |->
                  LET d == (p + Size - write_pos) % Size
                  IN  IF d < wlen THEN put + d + 1 ELSE data[p]]
    /\ wplan' = LET behind == Size - write_pos IN
                CASE write_pos >= read_pos /\ wlen > behind -> <<0, wlen - behind>>
                  [] write_pos >= read_pos /\ wlen = behind -> <<Size, 0>>
                  [] OTHER                                  -> <<write_pos + wlen>>
    /\ put' = put + wlen
    /\ wpc' = "store"
    /\ UNCHANGED <<count, read_pos, write_pos, wlen, wreg, reader, got, mixed, lost, torn,
                   dirty>>

PutOutside ==
    /\ wpc = "copy"
    /\ PutLeaves
    /\ Undefined

PutStore ==
    /\ wpc = "store"
    /\ write_pos' = Head(wplan)
    /\ wplan' = Tail(wplan)
    /\ wpc' = IF Tail(wplan) = <<>> THEN "count" ELSE "store"
    /\ UNCHANGED <<data, count, read_pos, wlen, wreg, reader, hist>>

PutReadCount ==
    /\ wpc = "count"
    /\ wreg' = count
    /\ wpc' = "add"
    /\ torn' = (torn \/ rpc = "sub")
    /\ UNCHANGED <<ringVars, wlen, wplan, reader, put, got, mixed, lost, dirty>>

PutWriteCount ==
    /\ wpc = "add"
    /\ count' = CountAfterPut
    /\ lost' = lost + (count - wreg)
    /\ wreg' = 0
    /\ wlen' = 0
    /\ wpc' = "idle"
    /\ UNCHANGED <<data, read_pos, write_pos, wplan, reader, put, got, mixed, torn, dirty>>

-----------------------------------------------------------------------------
(* ringbuffer_get                                                            *)

\* min(len, ringbuffer_len()): len if it is the smaller one, else ringbuffer_len again.
GetStart(n) ==
    /\ rpc = "idle"
    /\ count # 0
    /\ rlen' = IF n < count THEN n ELSE 0
    /\ rpc' = IF n < count THEN "copy" ELSE "limit"
    /\ UNCHANGED <<ringVars, writer, rreg, hist>>

GetLimit ==
    /\ rpc = "limit"
    /\ rlen' = count
    /\ rpc' = "copy"
    /\ UNCHANGED <<ringVars, writer, rreg, hist>>

GetCopy ==
    /\ rpc = "copy"
    /\ ~GetLeaves
    /\ mixed' = (mixed \/ \E d \in 1..rlen : data[(read_pos + d - 1) % Size] # got + d)
    /\ got' = got + rlen
    /\ read_pos' = NextReadPos
    /\ rpc' = "count"
    /\ UNCHANGED <<data, count, write_pos, writer, rlen, rreg, put, lost, torn, dirty>>

GetOutside ==
    /\ rpc = "copy"
    /\ GetLeaves
    /\ Undefined

GetReadCount ==
    /\ rpc = "count"
    /\ rreg' = count
    /\ rpc' = "sub"
    /\ torn' = (torn \/ wpc = "add")
    /\ UNCHANGED <<ringVars, writer, rlen, put, got, mixed, lost, dirty>>

GetWriteCount ==
    /\ rpc = "sub"
    /\ count' = rreg - rlen
    /\ lost' = lost + (count - rreg)
    /\ rreg' = 0
    /\ rlen' = 0
    /\ rpc' = "idle"
    /\ UNCHANGED <<data, read_pos, write_pos, writer, put, got, mixed, torn, dirty>>

-----------------------------------------------------------------------------
\* ringbuffer_reset, when nobody else uses the ring: count is not cleared.
Reset ==
    /\ wpc = "idle" /\ rpc = "idle"
    /\ read_pos' = 0
    /\ write_pos' = 0
    /\ dirty' = (dirty \/ count # 0 \/ put # got)
    /\ UNCHANGED <<data, count, writer, reader, put, got, mixed, lost, torn>>

Next ==
    \/ \E n \in 1..MaxLen : PutStart(n) \/ GetStart(n)
    \/ PutCopy \/ PutOutside \/ PutStore \/ PutReadCount \/ PutWriteCount
    \/ GetLimit \/ GetCopy \/ GetOutside \/ GetReadCount \/ GetWriteCount
    \/ Reset

Spec == Init /\ [][Next]_vars

-----------------------------------------------------------------------------
(* Properties.  "With only one concurrent reader and one concurrent writer,  *)
(* you don't need extra locking" (ringerbuff.c:89) is true of the bytes and   *)
(* the positions and false of count.  Sound is where it can be relied on.     *)

\* No two updates of count have overlapped, and no reset met bytes in the ring.
Sound == ~torn /\ ~dirty

\* As long as no two updates of count overlapped and no reset met bytes, the reader gets
\* the writer's bytes in order, each once, whatever part of a put or get the other
\* thread sees.
InOrder == Sound => ~mixed

\* Under the same condition no copy leaves the ring, and a byte that was put and not yet
\* got is still where the reader will look for it: the writer never runs into the
\* reader although both decide by a count the other is changing.
NothingOverwritten ==
    Sound => /\ wpc # "undefined"
             /\ \A k \in (got + 1)..put : data[(read_pos + k - got - 1) % Size] = k

\* Between calls count is the number of bytes put and not yet got, less what overlapping
\* updates have lost, also at wraps, in a full ring, after resets and after a loss: an
\* error is exactly what was lost, never heals, and comes from nothing but an overlap.
CountExact ==
    /\ lost # 0 => torn
    /\ wpc = "idle" /\ rpc = "idle" => count = put - got - lost
=============================================================================
