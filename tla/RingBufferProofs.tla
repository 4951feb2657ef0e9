-------------------------- MODULE RingBufferProofs --------------------------
(***************************************************************************)
(* Proofs about RingBuffer for a ring of any size: what one writer and one  *)
(* reader may rely on without a lock, and what an overlap of two updates of *)
(* count costs.                                                             *)
(***************************************************************************)
EXTENDS RingBuffer, SequenceTheorems, TLAPS

\* Bytes put and not yet got, bytes put and not yet counted, bytes got and still counted.
Held      == put - got
Uncounted == IF wpc \in {"store", "count", "add"} THEN wlen ELSE 0
Undone    == IF rpc \in {"count", "sub"} THEN rlen ELSE 0

Types ==
    /\ data \in [0..(Size - 1) -> Bytes]
    /\ count \in 0..Size
    /\ read_pos \in 0..Size /\ write_pos \in 0..Size
    /\ wpc \in {"idle", "copy", "store", "count", "add", "undefined"}
    /\ rpc \in {"idle", "limit", "copy", "count", "sub", "undefined"}
    /\ wpc = "undefined" <=> rpc = "undefined"
    /\ wlen \in 0..Size /\ rlen \in 0..Size
    /\ wreg \in 0..Size /\ rreg \in 0..Size
    /\ wplan \in Seq(0..Size)
    /\ wpc = "store" => wplan # <<>>
    /\ wpc \notin {"store", "undefined"} => wplan = <<>>
    /\ put \in 0..MaxPut /\ got \in Nat /\ lost \in Int
    /\ mixed \in BOOLEAN /\ torn \in BOOLEAN /\ dirty \in BOOLEAN

\* While a call is under way the other side moves count one way only, by stale stores
\* too: what a call has found room for, or found there, stays so until it has counted it.
OneWay ==
    /\ wpc = "idle" => wlen = 0
    /\ wpc \in {"copy", "store", "count"} => wlen > 0 /\ wlen + count <= Size
    /\ wpc = "add" => wlen > 0 /\ count <= wreg /\ wreg + wlen <= Size
    /\ wpc = "copy" => put + wlen <= MaxPut
    /\ rpc = "idle" => rlen = 0
    /\ rpc = "limit" => count > 0
    /\ rpc \in {"copy", "count"} => rlen > 0 /\ rlen <= count
    /\ rpc = "sub" => rlen > 0 /\ rlen <= rreg /\ rreg <= count

\* count is what the ring holds but for the calls under way and for what was lost.
Balance ==
    /\ wpc # "undefined" => count = Held - Uncounted + Undone - lost
    /\ ~torn => /\ lost = 0
                /\ wpc = "add" => wreg = count /\ rpc # "sub"
                /\ rpc = "sub" => rreg = count

\* Where the writer's position ends up: Held bytes after the reader's.
Behind(w) == w \in 0..(Size - 1) /\ (read_pos + Held = w \/ read_pos + Held = w + Size)

\* The reader wraps only if the writer's position is not ahead of its own, which must
\* be so between the writer's two stores too.
Places ==
    /\ read_pos < Size
    /\ wpc # "undefined"
    /\ wpc # "store" => Behind(write_pos)
    /\ wpc = "store" =>
          /\ read_pos + Held - wlen >= Size => write_pos <= read_pos
          /\ \E w \in 0..(Size - 1) :
                /\ Behind(w)
                /\ \/ wplan = <<w>>
                   \/ wplan = <<0, w>>
                   \/ wplan = <<Size, w>> /\ read_pos + Held - wlen < Size

RingInv == Types /\ OneWay /\ Balance /\ (Sound => Places) /\ InOrder /\ NothingOverwritten

-----------------------------------------------------------------------------
LEMMA WrapOnce ==
  ASSUME NEW n \in Nat, n < 2 * Size
  PROVE  n % Size = IF n < Size THEN n ELSE n - Size
  <1>1. Size \in Nat /\ Size > 0
    BY RingAssumption DEF RingAssumption
  <1>2. CASE n < Size
    BY <1>1, <1>2
  <1>3. CASE n >= Size
    <2>1. n - Size \in Nat /\ n - Size < Size
      BY <1>1, <1>3
    <2>2. \A i \in Nat : i < Size => (i + Size) % Size = i
      BY <1>1
    <2>3. n = (n - Size) + Size
      BY <1>1
    <2> QED
      BY <1>1, <1>3, <2>1, <2>2, <2>3
  <1> QED
    BY <1>1, <1>2, <1>3

LEMMA RingInit == Init => RingInv
  <1> SUFFICES ASSUME Init PROVE RingInv
    OBVIOUS
  <1>0. Size \in Nat /\ Size > 0 /\ MaxLen \in Nat /\ MaxPut \in Nat
    BY RingAssumption DEF RingAssumption
  <1>1. /\ count = 0 /\ read_pos = 0 /\ write_pos = 0 /\ put = 0 /\ got = 0 /\ lost = 0
        /\ mixed = FALSE /\ torn = FALSE /\ dirty = FALSE
        /\ wpc = "idle" /\ wlen = 0 /\ wplan = <<>> /\ wreg = 0
        /\ rpc = "idle" /\ rlen = 0 /\ rreg = 0
    BY DEF Init
  <1>2. Held = 0 /\ Uncounted = 0 /\ Undone = 0
    BY <1>1 DEF Held, Uncounted, Undone
  <1>3. Types
    <2>1. data \in [0..(Size - 1) -> Bytes]
      BY <1>0 DEF Init, Bytes
    <2>2. mixed \in BOOLEAN /\ torn \in BOOLEAN /\ dirty \in BOOLEAN
      BY <1>1
    <2>3. wplan \in Seq(0..Size)
      BY <1>1
    <2> QED
      BY <1>0, <1>1, <2>1, <2>2, <2>3 DEF Types
  <1>4. OneWay /\ Balance
    BY <1>0, <1>1, <1>2 DEF OneWay, Balance
  <1>5. Places
    BY <1>0, <1>1, <1>2 DEF Places, Behind
  <1>6. InOrder /\ NothingOverwritten
    BY <1>1 DEF InOrder, NothingOverwritten
  <1> QED
    BY <1>3, <1>4, <1>5, <1>6 DEF RingInv

\* What the steps need of the types, with the numbers as integers.
LEMMA Numbers ==
  ASSUME Types
  PROVE  /\ Size \in Nat /\ Size > 0 /\ MaxLen \in Nat /\ MaxPut \in Nat
         /\ read_pos \in Nat /\ read_pos <= Size /\ write_pos \in Nat /\ write_pos <= Size
         /\ wlen \in Nat /\ wlen <= Size /\ rlen \in Nat /\ rlen <= Size
         /\ wreg \in Nat /\ wreg <= Size /\ rreg \in Nat /\ rreg <= Size
         /\ count \in Nat /\ count <= Size
         /\ put \in Nat /\ put <= MaxPut /\ got \in Nat /\ lost \in Int /\ Held \in Int
         /\ Uncounted \in Nat /\ Undone \in Nat
         /\ wpc \in {"store", "count", "add"} => Uncounted = wlen
         /\ wpc \notin {"store", "count", "add"} => Uncounted = 0
         /\ rpc \in {"count", "sub"} => Undone = rlen
         /\ rpc \notin {"count", "sub"} => Undone = 0
  <1>1. /\ wpc \in {"store", "count", "add"} => Uncounted = wlen
        /\ wpc \notin {"store", "count", "add"} => Uncounted = 0
        /\ rpc \in {"count", "sub"} => Undone = rlen
        /\ rpc \notin {"count", "sub"} => Undone = 0
    BY DEF Uncounted, Undone
  <1>2. /\ Size \in Nat /\ Size > 0 /\ MaxLen \in Nat /\ MaxPut \in Nat
        /\ read_pos \in Nat /\ read_pos <= Size /\ write_pos \in Nat /\ write_pos <= Size
        /\ wlen \in Nat /\ wlen <= Size /\ rlen \in Nat /\ rlen <= Size
        /\ wreg \in Nat /\ wreg <= Size /\ rreg \in Nat /\ rreg <= Size
        /\ count \in Nat /\ count <= Size
        /\ put \in Nat /\ put <= MaxPut /\ got \in Nat /\ lost \in Int
    BY RingAssumption DEF RingAssumption, Types
  <1>3. Held \in Int
    BY <1>2 DEF Held
  <1>4. Uncounted \in Nat /\ Undone \in Nat
    BY <1>1, <1>2
  <1> QED
    BY <1>1, <1>2, <1>3, <1>4

\* Without a loss what the ring holds fits, with what a put is about to add to it.
LEMMA HeldFits ==
  ASSUME RingInv, Sound
  PROVE  /\ Held \in Nat /\ Held <= Size
         /\ wpc = "copy" => Held + wlen <= Size
         /\ rpc = "copy" => rlen <= Held - Uncounted
  <1>1. ~torn /\ wpc # "undefined" /\ rpc # "undefined"
    BY DEF RingInv, Sound, Places, Types
  <1>2. count = Held - Uncounted + Undone
    BY <1>1, Numbers DEF RingInv, Balance
  <1>3. /\ Undone <= count
        /\ Uncounted + count <= Size
        /\ wpc = "copy" => wlen + count <= Size /\ Uncounted = 0
        /\ rpc = "copy" => rlen <= count /\ Undone = 0
    <2>1. Undone <= count
      BY <1>1, Numbers DEF RingInv, OneWay, Balance, Undone
    <2>2. Uncounted + count <= Size
      BY <1>1, Numbers DEF RingInv, OneWay, Balance, Uncounted
    <2> QED
      BY <2>1, <2>2 DEF RingInv, OneWay, Uncounted, Undone
  <1> QED
    BY <1>2, <1>3, Numbers DEF RingInv

\* Of the bytes held, the one at offset j lies here.
Slot(j) == IF read_pos + j < Size THEN read_pos + j ELSE read_pos + j - Size

InPlace == \A j \in 0..(Held - 1) : data[Slot(j)] = got + 1 + j

Kept == \A k \in (got + 1)..put : data[(read_pos + k - got - 1) % Size] = k

Fitted == Held <= Size /\ read_pos < Size

LEMMA HeldBytes ==
  Types /\ Fitted => (Kept <=> InPlace)
  <1> SUFFICES ASSUME Types, Held <= Size, read_pos < Size PROVE Kept <=> InPlace
    BY DEF Fitted
  <1>1. \A j \in 0..(Held - 1) : (read_pos + j) % Size = Slot(j)
    <2> TAKE j \in 0..(Held - 1)
    <2>2. read_pos + j \in Nat /\ read_pos + j < 2 * Size
      BY Numbers, SMTT(30)
    <2> HIDE DEF Held
    <2>3. ASSUME NEW n \in Nat, n = read_pos + j PROVE n % Size = Slot(j)
      <3>1. n < 2 * Size
        BY <2>2, <2>3
      <3>2. n % Size = IF n < Size THEN n ELSE n - Size
        BY <3>1, WrapOnce
      <3>3. read_pos \in Nat /\ Size \in Nat /\ j \in Nat
        BY Numbers
      <3> QED
        BY <2>3, <3>2, <3>3 DEF Slot
    <2> QED
      BY <2>2, <2>3
  <1>2. ASSUME \A k \in (got + 1)..put : data[(read_pos + k - got - 1) % Size] = k,
               NEW j \in 0..(Held - 1)
        PROVE  data[Slot(j)] = got + 1 + j
    <2>1. got + 1 + j \in (got + 1)..put
      BY Numbers, SMTT(30) DEF Held
    <2>2. read_pos + (got + 1 + j) - got - 1 = read_pos + j
      BY Numbers
    <2>3. data[(read_pos + (got + 1 + j) - got - 1) % Size] = got + 1 + j
      BY <1>2, <2>1
    <2> QED
      BY <1>1, <2>2, <2>3
  <1>3. ASSUME \A j \in 0..(Held - 1) : data[Slot(j)] = got + 1 + j,
               NEW k \in (got + 1)..put
        PROVE  data[(read_pos + k - got - 1) % Size] = k
    <2> DEFINE j == k - got - 1
    <2>1. j \in 0..(Held - 1) /\ read_pos + k - got - 1 = read_pos + j /\ got + 1 + j = k
      BY Numbers, SMTT(30) DEF Held
    <2> QED
      BY <1>1, <1>3, <2>1
  <1> QED
    BY <1>2, <1>3 DEF InPlace, Kept

\* A step that leaves bytes and positions alone.
LEMMA NothingMoves ==
  ASSUME RingInv, UNCHANGED <<data, read_pos, write_pos, wplan, put, got, mixed, dirty>>,
         Sound' => Sound, wpc' # "undefined" \/ wpc' = wpc,
         wpc' = "store" <=> wpc = "store", wpc = "store" => wlen' = wlen
  PROVE  Held' = Held /\ (Sound => Places)' /\ InOrder' /\ NothingOverwritten'
  <1>1. Held' = Held
    BY DEF Held
  <1>2. \A w : Behind(w)' <=> Behind(w)
    BY <1>1 DEF Behind
  <1>3. Behind(write_pos)' <=> Behind(write_pos)
    BY <1>1 DEF Behind
  <1>4. ASSUME Sound' PROVE Places'
    <2>1. Places
      BY <1>4 DEF RingInv
    <2> QED
      BY <1>1, <1>2, <1>3, <2>1 DEF Places
  <1>5. InOrder'
    BY DEF RingInv, InOrder
  <1>6. NothingOverwritten'
    BY DEF RingInv, NothingOverwritten
  <1> QED
    BY <1>1, <1>4, <1>5, <1>6

\* The steps that only look at count or store it.
LEMMA PutStartStep ==
  ASSUME RingInv, NEW n \in 1..MaxLen, PutStart(n)
  PROVE  RingInv'
  <1>1. /\ wpc = "idle" /\ wpc' = "copy" /\ put + n <= MaxPut /\ count # Size
        /\ wlen' = Fitting(n)
        /\ UNCHANGED <<ringVars, wplan, wreg, reader, hist>>
    BY DEF PutStart
  <1>2. wlen' \in Nat /\ wlen' > 0 /\ wlen' <= n /\ wlen' + count <= Size
    BY <1>1, Numbers DEF RingInv, Fitting
  <1>3. Held' = Held /\ (Sound => Places)' /\ InOrder' /\ NothingOverwritten'
    BY <1>1, NothingMoves DEF ringVars, hist, Sound
  <1>4. Uncounted' = Uncounted /\ Undone' = Undone
    BY <1>1 DEF Uncounted, Undone, reader
  <1>5. Types'
    <2>1. wlen' \in 0..Size
      BY <1>2, Numbers DEF RingInv
    <2> QED
      BY <1>1, <2>1 DEF RingInv, Types, ringVars, reader, hist
  <1>6. OneWay'
    BY <1>1, <1>2, Numbers DEF RingInv, OneWay, ringVars, reader, hist
  <1>7. Balance'
    BY <1>1, <1>3, <1>4 DEF RingInv, Balance, ringVars, reader, hist
  <1> QED
    BY <1>3, <1>5, <1>6, <1>7 DEF RingInv

LEMMA GetStartStep ==
  ASSUME RingInv, \/ \E n \in 1..MaxLen : GetStart(n)
                  \/ GetLimit
  PROVE  RingInv'
  <1>1. /\ rpc \in {"idle", "limit"} /\ count # 0
        /\ \/ rpc' = "copy" /\ rlen' \in Nat /\ rlen' > 0 /\ rlen' <= count
           \/ rpc' = "limit" /\ rlen' = 0
        /\ UNCHANGED <<ringVars, writer, rreg, hist>>
    <2>1. CASE GetLimit
      BY <2>1, Numbers DEF GetLimit, RingInv, OneWay
    <2>2. CASE \E n \in 1..MaxLen : GetStart(n)
      <3>1. PICK n \in 1..MaxLen : GetStart(n)
        BY <2>2
      <3> QED
        BY <3>1, Numbers DEF GetStart, RingInv
    <2> QED
      BY <2>1, <2>2
  <1>2. Held' = Held /\ (Sound => Places)' /\ InOrder' /\ NothingOverwritten'
    BY <1>1, NothingMoves DEF ringVars, writer, hist, Sound
  <1>3. Uncounted' = Uncounted /\ Undone' = Undone
    BY <1>1 DEF Uncounted, Undone, writer
  <1>4. Types'
    <2>1. rlen' \in 0..Size
      BY <1>1, Numbers DEF RingInv
    <2> QED
      BY <1>1, <2>1 DEF RingInv, Types, ringVars, writer, hist
  <1>5. OneWay'
    BY <1>1, Numbers DEF RingInv, OneWay, ringVars, writer, hist
  <1>6. Balance'
    BY <1>1, <1>2, <1>3 DEF RingInv, Balance, ringVars, writer, hist
  <1> QED
    BY <1>2, <1>4, <1>5, <1>6 DEF RingInv

LEMMA ReadCountStep ==
  ASSUME RingInv, PutReadCount \/ GetReadCount
  PROVE  RingInv'
  <1>1. CASE PutReadCount
    <2>1. /\ wpc = "count" /\ wpc' = "add" /\ wreg' = count /\ torn' = (torn \/ rpc = "sub")
          /\ UNCHANGED <<ringVars, wlen, wplan, reader, put, got, mixed, lost, dirty>>
      BY <1>1 DEF PutReadCount
    <2>2. Held' = Held /\ (Sound => Places)' /\ InOrder' /\ NothingOverwritten'
      BY <2>1, NothingMoves DEF ringVars, Sound
    <2>3. Uncounted' = Uncounted /\ Undone' = Undone
      BY <2>1 DEF Uncounted, Undone, reader
    <2>4. Types'
      <3>1. torn' \in BOOLEAN
        BY <2>1 DEF RingInv, Types
      <3> QED
        BY <2>1, <3>1 DEF RingInv, Types, ringVars, reader
    <2>5. OneWay'
      BY <2>1, Numbers DEF RingInv, OneWay, ringVars, reader
    <2>6. Balance'
      BY <2>1, <2>2, <2>3 DEF RingInv, Balance, ringVars, reader
    <2> QED
      BY <2>2, <2>4, <2>5, <2>6 DEF RingInv
  <1>2. CASE GetReadCount
    <2>1. /\ rpc = "count" /\ rpc' = "sub" /\ rreg' = count /\ torn' = (torn \/ wpc = "add")
          /\ UNCHANGED <<ringVars, writer, rlen, put, got, mixed, lost, dirty>>
      BY <1>2 DEF GetReadCount
    <2>2. Held' = Held /\ (Sound => Places)' /\ InOrder' /\ NothingOverwritten'
      BY <2>1, NothingMoves DEF ringVars, writer, Sound
    <2>3. Uncounted' = Uncounted /\ Undone' = Undone
      BY <2>1 DEF Uncounted, Undone, writer
    <2>4. Types'
      <3>1. torn' \in BOOLEAN
        BY <2>1 DEF RingInv, Types
      <3> QED
        BY <2>1, <3>1 DEF RingInv, Types, ringVars, writer
    <2>5. OneWay'
      BY <2>1, Numbers DEF RingInv, OneWay, ringVars, writer
    <2>6. Balance'
      BY <2>1, <2>2, <2>3 DEF RingInv, Balance, ringVars, writer
    <2> QED
      BY <2>2, <2>4, <2>5, <2>6 DEF RingInv
  <1> QED
    BY <1>1, <1>2

LEMMA WriteCountStep ==
  ASSUME RingInv, PutWriteCount \/ GetWriteCount
  PROVE  RingInv'
  <1>1. CASE PutWriteCount
    <2>1. /\ wpc = "add" /\ wpc' = "idle" /\ count' = wreg + wlen /\ lost' = lost + (count - wreg)
          /\ wreg' = 0 /\ wlen' = 0
          /\ UNCHANGED <<data, read_pos, write_pos, wplan, reader, put, got, mixed, torn, dirty>>
      BY <1>1 DEF PutWriteCount, CountAfterPut
    <2>2. Held' = Held /\ (Sound => Places)' /\ InOrder' /\ NothingOverwritten'
      BY <2>1, NothingMoves DEF Sound
    <2>3. Uncounted' = 0 /\ Uncounted = wlen /\ Undone' = Undone
      BY <2>1 DEF Uncounted, Undone, reader
    <2>4. wreg + wlen <= Size /\ count <= wreg
      BY <2>1 DEF RingInv, OneWay
    <2>5. Types'
      BY <2>1, <2>4, Numbers DEF RingInv, Types, reader
    <2>6. OneWay'
      BY <2>1, <2>4, Numbers DEF RingInv, OneWay, reader
    <2>7. count' = Held' - Uncounted' + Undone' - lost'
      BY <2>1, <2>2, <2>3, Numbers DEF RingInv, Balance
    <2>8. ~torn' => lost' = 0 /\ (rpc' = "sub" => rreg' = count')
      BY <2>1, Numbers DEF RingInv, Balance, reader
    <2>9. Balance'
      BY <2>1, <2>7, <2>8 DEF Balance
    <2> QED
      BY <2>2, <2>5, <2>6, <2>9 DEF RingInv
  <1>2. CASE GetWriteCount
    <2>1. /\ rpc = "sub" /\ rpc' = "idle" /\ count' = rreg - rlen /\ lost' = lost + (count - rreg)
          /\ rreg' = 0 /\ rlen' = 0
          /\ UNCHANGED <<data, read_pos, write_pos, writer, put, got, mixed, torn, dirty>>
      BY <1>2 DEF GetWriteCount
    <2>2. Held' = Held /\ (Sound => Places)' /\ InOrder' /\ NothingOverwritten'
      BY <2>1, NothingMoves DEF Sound, writer
    <2>3. Uncounted' = Uncounted /\ Undone' = 0 /\ Undone = rlen
      BY <2>1 DEF Uncounted, Undone, writer
    <2>4. rlen > 0 /\ rlen <= rreg /\ rreg <= count
      BY <2>1 DEF RingInv, OneWay
    <2>5. count' \in Nat /\ count' <= count
      BY <2>1, <2>4, Numbers DEF RingInv
    <2>6. Types'
      <3>1. count' \in 0..Size /\ lost' \in Int
        BY <2>1, <2>5, Numbers DEF RingInv
      <3> QED
        BY <2>1, <3>1, Numbers DEF RingInv, Types, writer
    <2>7. OneWay'
      BY <2>1, <2>5, Numbers DEF RingInv, OneWay, writer
    <2>8. wpc # "undefined" => count' = Held' - Uncounted' + Undone' - lost'
      BY <2>1, <2>2, <2>3, Numbers DEF RingInv, Balance
    <2>9. ~torn' => lost' = 0 /\ wpc' # "add"
      BY <2>1, Numbers DEF RingInv, Balance, writer
    <2>10. Balance'
      BY <2>1, <2>8, <2>9 DEF Balance, writer
    <2> QED
      BY <2>2, <2>6, <2>7, <2>10 DEF RingInv
  <1> QED
    BY <1>1, <1>2

LEMMA PutCopyStep ==
  ASSUME RingInv, PutCopy
  PROVE  RingInv'
  <1>1. /\ wpc = "copy" /\ wpc' = "store" /\ put' = put + wlen
        /\ ~(write_pos < read_pos /\ write_pos + wlen > Size)
        /\ UNCHANGED <<count, read_pos, write_pos, wlen, wreg, reader, got, mixed, lost, torn, dirty>>
        /\ data' = [p \in DOMAIN data |->
                      IF (p + Size - write_pos) % Size < wlen
                      THEN put + ((p + Size - write_pos) % Size) + 1 ELSE data[p]]
    BY DEF PutCopy, PutLeaves
  <1>2. /\ Size \in Nat /\ Size > 0 /\ wlen \in Nat /\ wlen > 0 /\ wlen + count <= Size
        /\ read_pos \in Nat /\ read_pos <= Size /\ write_pos \in Nat /\ write_pos <= Size
        /\ put \in Nat /\ MaxPut \in Nat /\ put + wlen <= MaxPut
        /\ Held \in Int /\ got \in Nat /\ put = got + Held /\ count \in Nat /\ lost \in Int /\ Undone \in Nat
    BY <1>1, Numbers, SMTT(30) DEF RingInv, OneWay, Held
  <1>3. Held' = Held + wlen
    BY <1>1, <1>2 DEF Held
  <1>4. /\ DOMAIN data = 0..(Size - 1)
        /\ \A p \in 0..(Size - 1) : data[p] \in Bytes
    BY DEF RingInv, Types
  <1>5. data' \in [0..(Size - 1) -> Bytes]
    <2>1. data' = [p \in 0..(Size - 1) |-> data'[p]]
      BY <1>1, <1>4
    <2>2. ASSUME NEW p \in 0..(Size - 1) PROVE data'[p] \in Bytes
      <3>1. \A d \in Nat : d < wlen => put + d + 1 \in Bytes
        BY <1>2 DEF Bytes
      <3>2. ASSUME NEW e \in Nat, e < 2 * Size PROVE e % Size \in Nat
        BY <1>2, <3>2, WrapOnce
      <3>3. (p + Size - write_pos) % Size \in Nat
        <4>1. p + Size - write_pos \in Nat /\ p + Size - write_pos < 2 * Size
          BY <1>2
        <4> QED
          BY <3>2, <4>1
      <3>4. data'[p] = IF (p + Size - write_pos) % Size < wlen
                       THEN put + ((p + Size - write_pos) % Size) + 1 ELSE data[p]
        BY <1>1, <1>4
      <3>5. ASSUME NEW d \in Nat, d = (p + Size - write_pos) % Size PROVE data'[p] \in Bytes
        BY <1>4, <3>1, <3>4, <3>5
      <3> QED
        BY <3>3, <3>5
    <2> QED
      BY <2>1, <2>2
  <1>6. /\ wplan' \in Seq(0..Size) /\ wplan' # <<>>
        /\ write_pos >= read_pos /\ wlen > Size - write_pos => wplan' = <<0, wlen - (Size - write_pos)>>
        /\ write_pos >= read_pos /\ wlen = Size - write_pos => wplan' = <<Size, 0>>
        /\ write_pos < read_pos \/ wlen < Size - write_pos => wplan' = <<write_pos + wlen>>
    <2>1. CASE write_pos >= read_pos /\ wlen > Size - write_pos
      <3>1. wplan' = <<0, wlen - (Size - write_pos)>>
        BY <1>2, <2>1, SMTT(30) DEF PutCopy
      <3>2. 0 \in 0..Size /\ wlen - (Size - write_pos) \in 0..Size
        BY <1>2, <2>1
      <3> QED
        BY <1>2, <2>1, <3>1, <3>2
    <2>2. CASE write_pos >= read_pos /\ wlen = Size - write_pos
      <3>1. wplan' = <<Size, 0>>
        BY <1>2, <2>2, SMTT(30) DEF PutCopy
      <3>2. 0 \in 0..Size /\ Size \in 0..Size
        BY <1>2
      <3> QED
        BY <1>2, <2>2, <3>1, <3>2
    <2>3. CASE write_pos < read_pos \/ wlen < Size - write_pos
      <3>1. wplan' = <<write_pos + wlen>>
        BY <1>2, <2>3, SMTT(30) DEF PutCopy
      <3>2. write_pos + wlen \in 0..Size
        BY <1>1, <1>2, <2>3
      <3> QED
        BY <1>2, <2>3, <3>1, <3>2
    <2> QED
      BY <1>2, <2>1, <2>2, <2>3
  <1>7. Types'
    <2>1. put' \in 0..MaxPut
      BY <1>1, <1>2
    <2>2. wpc' # "undefined" /\ rpc' # "undefined"
      BY <1>1 DEF RingInv, Types, reader
    <2> QED
      BY <1>1, <1>5, <1>6, <2>1, <2>2 DEF RingInv, Types, reader
  <1>8. OneWay'
    BY <1>1, <1>2 DEF RingInv, OneWay, reader
  <1>9. Balance'
    <2>1. Uncounted' = wlen /\ Uncounted = 0 /\ Undone' = Undone
      BY <1>1 DEF Uncounted, Undone, reader
    <2>2. count' = Held' - Uncounted' + Undone' - lost'
      BY <1>1, <1>2, <1>3, <2>1 DEF RingInv, Balance
    <2> QED
      BY <1>1, <2>2 DEF RingInv, Balance, reader
  <1>10. InOrder'
    BY <1>1 DEF RingInv, InOrder, Sound
  <1>11. ASSUME Sound' PROVE Places' /\ InPlace'
    <2>1. /\ Sound /\ Held \in Nat /\ Held + wlen <= Size
          /\ read_pos < Size /\ write_pos < Size
          /\ read_pos + Held = write_pos \/ read_pos + Held = write_pos + Size
      <3>1. Sound
        BY <1>1, <1>11 DEF Sound
      <3>2. Places
        BY <3>1 DEF RingInv
      <3> QED
        BY <1>1, <1>2, <3>1, <3>2, HeldFits DEF Places, Behind
    <2>2. Places'
      <3>1. read_pos' + Held' - wlen' >= Size => write_pos' <= read_pos'
        BY <1>1, <1>2, <1>3, <2>1
      <3>2. CASE write_pos >= read_pos /\ wlen > Size - write_pos
        <4>1. Behind(wlen - (Size - write_pos))'
          BY <1>1, <1>2, <1>3, <2>1, <3>2 DEF Behind
        <4> QED
          BY <1>1, <1>6, <2>1, <3>1, <3>2, <4>1 DEF Places, Behind
      <3>3. CASE write_pos >= read_pos /\ wlen = Size - write_pos
        <4>1. Behind(0)' /\ read_pos' + Held' - wlen' < Size
          BY <1>1, <1>2, <1>3, <2>1, <3>3 DEF Behind
        <4> QED
          BY <1>1, <1>6, <2>1, <3>1, <3>3, <4>1 DEF Places, Behind
      <3>4. CASE write_pos < read_pos \/ wlen < Size - write_pos
        <4>1. Behind(write_pos + wlen)'
          BY <1>1, <1>2, <1>3, <2>1, <3>4 DEF Behind
        <4> QED
          BY <1>1, <1>6, <2>1, <3>1, <3>4, <4>1 DEF Places, Behind
      <3> QED
        BY <1>2, <3>2, <3>3, <3>4
    <2>3. ASSUME NEW p \in 0..(Size - 1)
          PROVE  /\ p >= write_pos => data'[p] = IF p - write_pos < wlen THEN put + (p - write_pos) + 1 ELSE data[p]
                 /\ p < write_pos =>
                       data'[p] = IF p + Size - write_pos < wlen THEN put + (p + Size - write_pos) + 1 ELSE data[p]
      <3> DEFINE e == p + Size - write_pos
      <3>1. e \in Nat /\ e < 2 * Size /\ (e < Size <=> p < write_pos) /\ e - Size = p - write_pos
        BY <1>2, <2>1
      <3>2. data'[p] = IF e % Size < wlen THEN put + (e % Size) + 1 ELSE data[p]
        BY <1>1, <1>4
      <3> HIDE DEF e
      <3>3. e % Size = IF e < Size THEN e ELSE e - Size
        BY <3>1, WrapOnce
      <3>4. CASE p >= write_pos
        <4>1. e % Size = p - write_pos
          BY <1>2, <2>1, <3>1, <3>3, <3>4
        <4> QED
          BY <1>2, <3>2, <3>4, <4>1
      <3>5. CASE p < write_pos
        <4>1. e % Size = e
          BY <3>1, <3>3, <3>5
        <4> QED
          BY <1>2, <3>2, <3>5, <4>1 DEF e
      <3> QED
        BY <1>2, <3>4, <3>5
    <2>4. ASSUME NEW j \in 0..(Held' - 1) PROVE data'[Slot(j)'] = got' + 1 + j
      <3>1. Slot(j)' = Slot(j)
        BY <1>1 DEF Slot
      <3>2. j \in Nat /\ j < Held + wlen
        BY <1>2, <1>3
      <3>3. Slot(j) \in 0..(Size - 1)
        BY <1>2, <2>1, <3>2 DEF Slot
      <3>4. CASE j < Held
        <4>1. data[Slot(j)] = got + 1 + j
          <5>1. InPlace
            BY <1>2, <2>1, HeldBytes DEF RingInv, NothingOverwritten, Kept, Fitted
          <5> QED
            BY <1>2, <3>2, <3>4, <5>1 DEF InPlace
        <4>2. /\ Slot(j) >= write_pos => Slot(j) - write_pos >= wlen
              /\ Slot(j) < write_pos => Slot(j) + Size - write_pos >= wlen
          BY <1>2, <2>1, <3>2, <3>4 DEF Slot
        <4>3. data'[Slot(j)] = data[Slot(j)]
          BY <1>2, <2>1, <2>3, <3>3, <4>2
        <4> QED
          BY <1>1, <3>1, <4>1, <4>3
      <3>5. CASE j >= Held
        <4>1. /\ Slot(j) >= write_pos => Slot(j) - write_pos = j - Held
              /\ Slot(j) < write_pos => Slot(j) + Size - write_pos = j - Held
          BY <1>2, <2>1, <3>2, <3>5 DEF Slot
        <4>2. data'[Slot(j)] = put + (j - Held) + 1
          <5>1. j - Held < wlen /\ j - Held \in Nat
            BY <1>2, <2>1, <3>2, <3>5
          <5>2. CASE Slot(j) >= write_pos
            <6>1. Slot(j) - write_pos = j - Held
              BY <4>1, <5>2
            <6> QED
              BY <2>3, <3>3, <5>1, <5>2, <6>1
          <5>3. CASE Slot(j) < write_pos
            <6>1. Slot(j) + Size - write_pos = j - Held
              BY <4>1, <5>3
            <6> QED
              BY <2>3, <3>3, <5>1, <5>3, <6>1
          <5> QED
            BY <1>2, <3>3, <5>2, <5>3
        <4> QED
          BY <1>1, <1>2, <3>1, <3>2, <4>2
      <3> QED
        BY <1>2, <2>1, <3>2, <3>4, <3>5
    <2> QED
      BY <2>2, <2>4 DEF InPlace
  <1>12. NothingOverwritten'
    <2> SUFFICES ASSUME Sound' PROVE Kept'
      BY <1>1 DEF NothingOverwritten, Kept
    <2>1. InPlace' /\ Fitted'
      <3>1. Sound
        BY <1>1 DEF Sound
      <3> QED
        BY <1>1, <1>3, <1>11, <3>1, HeldFits DEF Places, Fitted
    <2> QED
      BY <1>7, <2>1, HeldBytes, PTL
  <1> QED
    BY <1>7, <1>8, <1>9, <1>10, <1>11, <1>12 DEF RingInv

LEMMA PutStoreStep ==
  ASSUME RingInv, PutStore
  PROVE  RingInv'
  <1>1. /\ wpc = "store" /\ write_pos' = Head(wplan) /\ wplan' = Tail(wplan)
        /\ wpc' = IF Tail(wplan) = <<>> THEN "count" ELSE "store"
        /\ UNCHANGED <<data, count, read_pos, wlen, wreg, reader, hist>>
    BY DEF PutStore
  <1>2. Size \in Nat /\ Size > 0 /\ read_pos \in Nat
    BY Numbers DEF RingInv
  <1>3. Held' = Held /\ Uncounted' = Uncounted /\ Undone' = Undone
    BY <1>1 DEF Held, Uncounted, Undone, reader, hist
  <1>4. Types'
    <2>1. wplan \in Seq(0..Size) /\ wplan # <<>>
      BY <1>1 DEF RingInv, Types
    <2>2. Head(wplan) \in 0..Size /\ Tail(wplan) \in Seq(0..Size)
      BY <2>1, HeadTailProperties
    <2>3. wpc' \in {"store", "count"} /\ rpc # "undefined"
      BY <1>1 DEF RingInv, Types
    <2> QED
      BY <1>1, <2>2, <2>3 DEF RingInv, Types, reader, hist
  <1>5. OneWay'
    BY <1>1 DEF RingInv, OneWay, reader, hist
  <1>6. Balance'
    BY <1>1, <1>3 DEF RingInv, Balance, reader, hist
  <1>7. ASSUME Sound' PROVE Places'
    <2>1. Places /\ Sound
      BY <1>1, <1>7 DEF RingInv, Sound, hist
    <2>2. PICK w \in 0..(Size - 1) :
            /\ Behind(w)
            /\ \/ wplan = <<w>>
               \/ wplan = <<0, w>>
               \/ wplan = <<Size, w>> /\ read_pos + Held - wlen < Size
      BY <1>1, <2>1 DEF Places
    <2>3. Behind(w)'
      BY <1>1, <1>3, <2>2 DEF Behind
    <2>4. \A a, b : /\ Head(<<a>>) = a /\ Tail(<<a>>) = <<>>
                    /\ Head(<<a, b>>) = a /\ Tail(<<a, b>>) = <<b>> /\ <<b>> # <<>>
      OBVIOUS
    <2>5. CASE wplan = <<w>>
      <3>1. write_pos' = w /\ wpc' = "count"
        BY <1>1, <2>4, <2>5
      <3> QED
        BY <1>1, <2>1, <2>3, <3>1 DEF Places
    <2>6. CASE wplan = <<0, w>>
      <3>1. write_pos' = 0 /\ wplan' = <<w>> /\ wpc' = "store"
        BY <1>1, <2>4, <2>6
      <3>2. write_pos' <= read_pos'
        BY <1>1, <1>2, <3>1
      <3> QED
        BY <1>1, <2>1, <2>3, <3>1, <3>2 DEF Places
    <2>7. CASE wplan = <<Size, w>> /\ read_pos + Held - wlen < Size
      <3>1. write_pos' = Size /\ wplan' = <<w>> /\ wpc' = "store"
        BY <1>1, <2>4, <2>7
      <3>2. ~(read_pos' + Held' - wlen' >= Size)
        BY <1>1, <1>2, <1>3, <2>7, Numbers, SMTT(30) DEF RingInv
      <3> QED
        BY <1>1, <2>1, <2>3, <3>1, <3>2 DEF Places
    <2> QED
      BY <2>2, <2>5, <2>6, <2>7
  <1>8. InOrder' /\ NothingOverwritten'
    BY <1>1 DEF RingInv, InOrder, NothingOverwritten, hist, Sound
  <1> QED
    BY <1>4, <1>5, <1>6, <1>7, <1>8 DEF RingInv

LEMMA ResetStep ==
  ASSUME RingInv, Reset
  PROVE  RingInv'
  <1>1. /\ wpc = "idle" /\ rpc = "idle" /\ read_pos' = 0 /\ write_pos' = 0
        /\ dirty' = (dirty \/ count # 0 \/ put # got)
        /\ UNCHANGED <<data, count, writer, reader, put, got, mixed, lost, torn>>
    BY DEF Reset
  <1>2. Size \in Nat /\ Size > 0 /\ got \in Nat /\ put \in Nat
    BY Numbers DEF RingInv
  <1>3. Held' = Held /\ Uncounted' = Uncounted /\ Undone' = Undone
    BY <1>1 DEF Held, Uncounted, Undone, reader, writer
  <1>4. Sound' => Sound /\ put = got /\ Held = 0
    <2> SUFFICES ASSUME Sound' PROVE Sound /\ put = got /\ Held = 0
      OBVIOUS
    <2>1. Sound /\ put = got
      BY <1>1 DEF Sound
    <2> QED
      BY <1>2, <2>1 DEF Held
  <1>5. Types'
    <2>1. dirty' \in BOOLEAN
      BY <1>1 DEF RingInv, Types
    <2> QED
      BY <1>1, <1>2, <2>1 DEF RingInv, Types, reader, writer
  <1>6. OneWay'
    BY <1>1 DEF RingInv, OneWay, reader, writer
  <1>7. Balance'
    BY <1>1, <1>3 DEF RingInv, Balance, reader, writer
  <1>8. (Sound => Places)'
    BY <1>1, <1>2, <1>3, <1>4 DEF RingInv, Places, Behind, writer
  <1>9. InOrder'
    BY <1>1, <1>4 DEF RingInv, InOrder
  <1>10. NothingOverwritten'
    BY <1>1, <1>2, <1>4 DEF NothingOverwritten, writer
  <1> QED
    BY <1>5, <1>6, <1>7, <1>8, <1>9, <1>10 DEF RingInv

\* In a sound ring the reader's piece ends before the ring does, or it wraps.
LEMMA GetFits ==
  ASSUME RingInv, Sound, rpc = "copy"
  PROVE  read_pos + rlen >= Size => write_pos <= read_pos
  <1>1. /\ Size \in Nat /\ Size > 0 /\ wlen \in Nat /\ rlen \in Nat
        /\ read_pos \in Nat /\ write_pos \in Nat /\ Held \in Nat /\ Uncounted \in Nat
        /\ rlen <= Held - Uncounted /\ Held <= Size
    BY Numbers, HeldFits DEF RingInv
  <1>2. Places
    BY DEF RingInv
  <1>3. CASE wpc = "store"
    <2>1. Uncounted = wlen
      BY <1>3 DEF Uncounted
    <2> QED
      BY <1>1, <1>2, <1>3, <2>1 DEF Places
  <1>4. CASE wpc # "store"
    BY <1>1, <1>2, <1>4 DEF Places, Behind
  <1> QED
    BY <1>3, <1>4

\* A copy leaves the ring only when its count was wrong.
LEMMA OutsideStep ==
  ASSUME RingInv, PutOutside \/ GetOutside
  PROVE  RingInv'
  <1>1. /\ wpc' = "undefined" /\ rpc' = "undefined"
        /\ UNCHANGED <<ringVars, wlen, wplan, wreg, rlen, rreg, hist>>
    BY DEF PutOutside, GetOutside, Undefined
  <1>2. ~Sound
    <2> SUFFICES ASSUME Sound PROVE FALSE
      OBVIOUS
    <2>1. CASE PutOutside
      <3>1. wpc = "copy" /\ write_pos < read_pos /\ write_pos + wlen > Size
        BY <2>1 DEF PutOutside, PutLeaves
      <3>2. Behind(write_pos) /\ read_pos < Size
        BY <3>1 DEF RingInv, Places
      <3>3. Held \in Nat /\ Held + wlen <= Size
        BY <3>1, HeldFits
      <3> QED
        BY <3>1, <3>2, <3>3, Numbers DEF RingInv, Behind
    <2>2. CASE GetOutside
      <3>1. rpc = "copy" /\ read_pos < write_pos /\ read_pos + rlen > Size
        BY <2>2 DEF GetOutside, GetLeaves
      <3> QED
        BY <3>1, GetFits, Numbers DEF RingInv
    <2> QED
      BY <2>1, <2>2
  <1>3. ~Sound'
    BY <1>1, <1>2 DEF Sound, hist
  <1>4. Types'
    BY <1>1 DEF RingInv, Types, ringVars, hist
  <1>5. OneWay'
    BY <1>1 DEF OneWay
  <1>6. Balance'
    BY <1>1 DEF RingInv, Balance, hist
  <1> QED
    BY <1>3, <1>4, <1>5, <1>6 DEF RingInv, InOrder, NothingOverwritten

LEMMA GetCopyStep ==
  ASSUME RingInv, GetCopy
  PROVE  RingInv'
  <1>1. /\ rpc = "copy" /\ rpc' = "count" /\ got' = got + rlen /\ read_pos' = NextReadPos
        /\ mixed' = (mixed \/ \E d \in 1..rlen : data[(read_pos + d - 1) % Size] # got + d)
        /\ ~(read_pos < write_pos /\ read_pos + rlen > Size)
        /\ UNCHANGED <<data, count, write_pos, writer, rlen, rreg, put, lost, torn, dirty>>
    BY DEF GetCopy, GetLeaves
  <1>2. /\ Size \in Nat /\ Size > 0 /\ wlen \in Nat /\ rlen \in Nat /\ rlen > 0 /\ rlen <= Size
        /\ read_pos \in Nat /\ read_pos <= Size /\ write_pos \in Nat
        /\ Held \in Int /\ got \in Nat /\ put = got + Held /\ count \in Nat /\ rlen <= count
        /\ lost \in Int /\ Uncounted \in Nat
    BY <1>1, Numbers, SMTT(30) DEF RingInv, OneWay, Held
  <1>3. read_pos' \in Nat /\ read_pos' <= Size
    BY <1>1, <1>2 DEF NextReadPos
  <1>4. Held' = Held - rlen
    BY <1>1, <1>2 DEF Held
  <1>5. Types'
    <2>1. read_pos' \in 0..Size /\ got' \in Nat
      BY <1>1, <1>2, <1>3
    <2>2. mixed' \in BOOLEAN
      BY <1>1 DEF RingInv, Types
    <2>3. wpc # "undefined"
      BY <1>1 DEF RingInv, Types
    <2> QED
      BY <1>1, <2>1, <2>2, <2>3 DEF RingInv, Types, writer
  <1>6. OneWay'
    BY <1>1, <1>2 DEF RingInv, OneWay, writer
  <1>7. Balance'
    <2>1. Uncounted' = Uncounted /\ Undone' = rlen /\ Undone = 0
      BY <1>1 DEF Uncounted, Undone, writer
    <2>2. wpc # "undefined" => count' = Held' - Uncounted' + Undone' - lost'
      BY <1>1, <1>2, <1>4, <2>1 DEF RingInv, Balance
    <2> QED
      BY <1>1, <2>2 DEF RingInv, Balance, writer
  <1>8. ASSUME Sound' PROVE ~mixed' /\ Places' /\ InPlace'
    <2>1. Sound /\ Places /\ Held \in Nat /\ Held <= Size /\ rlen <= Held
      <3>1. Sound
        BY <1>1, <1>8 DEF Sound
      <3> QED
        BY <1>1, <1>2, <3>1, HeldFits DEF RingInv
    <2>2. read_pos < Size /\ wpc # "undefined"
      BY <2>1 DEF Places
    <2>3. read_pos + rlen >= Size => write_pos <= read_pos
      BY <1>1, <2>1, GetFits
    <2>4. /\ read_pos + rlen < Size => read_pos' = read_pos + rlen
          /\ read_pos + rlen >= Size => read_pos' = read_pos + rlen - Size
          /\ read_pos' \in Nat /\ read_pos' < Size
      BY <1>1, <1>2, <2>2, <2>3 DEF NextReadPos
    <2>5. ~mixed'
      <3>1. ASSUME NEW d \in 1..rlen
            PROVE  data[(read_pos + d - 1) % Size] = got + d
        <4> DEFINE k == got + d
        <4>1. k \in (got + 1)..put /\ read_pos + k - got - 1 = read_pos + d - 1
          BY <1>2, <2>1
        <4> QED
          BY <2>1, <4>1 DEF RingInv, NothingOverwritten
      <3>2. ~mixed
        BY <2>1 DEF RingInv, InOrder
      <3> QED
        BY <1>1, <3>1, <3>2
    <2>6. InPlace
      BY <2>1, <2>2, HeldBytes DEF RingInv, NothingOverwritten, Kept, Fitted
    <2>7. ASSUME NEW j \in 0..(Held' - 1) PROVE data'[Slot(j)'] = got' + 1 + j
      <3>1. j + rlen \in 0..(Held - 1) /\ j \in Nat
        BY <1>2, <1>4, <2>1
      <3>2. Slot(j)' = Slot(j + rlen)
        <4>1. Slot(j)' = IF read_pos' + j < Size THEN read_pos' + j ELSE read_pos' + j - Size
          BY DEF Slot
        <4>2. CASE read_pos + rlen < Size
          BY <1>2, <2>4, <3>1, <4>1, <4>2 DEF Slot
        <4>3. CASE read_pos + rlen >= Size
          <5>1. read_pos' + j < Size /\ read_pos' + j = read_pos + (j + rlen) - Size
            BY <1>2, <2>1, <2>2, <2>4, <3>1, <4>3
          <5>2. ~(read_pos + (j + rlen) < Size)
            BY <1>2, <3>1, <4>3
          <5> QED
            BY <4>1, <5>1, <5>2 DEF Slot
        <4> QED
          BY <1>2, <4>2, <4>3
      <3>3. data[Slot(j + rlen)] = got + 1 + (j + rlen)
        BY <2>6, <3>1 DEF InPlace
      <3> QED
        BY <1>1, <1>2, <3>1, <3>2, <3>3
    <2>8. ASSUME NEW w, Behind(w) PROVE Behind(w)'
      <3>1. w \in 0..(Size - 1) /\ (read_pos + Held = w \/ read_pos + Held = w + Size)
        BY <2>8 DEF Behind
      <3>2. read_pos' + Held' = w \/ read_pos' + Held' = w + Size
        <4>1. CASE read_pos + rlen < Size
          BY <1>2, <1>4, <2>4, <3>1, <4>1
        <4>2. CASE read_pos + rlen >= Size
          <5>1. read_pos + Held = w + Size
            BY <1>2, <2>1, <3>1, <4>2
          <5> QED
            BY <1>2, <1>4, <2>4, <3>1, <4>2, <5>1
        <4> QED
          BY <1>2, <4>1, <4>2
      <3> QED
        BY <3>1, <3>2 DEF Behind
    <2>9. Places'
      <3>1. CASE wpc = "store"
        <4>1. read_pos' + Held' - wlen' >= Size => write_pos' <= read_pos'
          BY <1>1, <1>2, <1>4, <2>1, <2>2, <2>4, <3>1 DEF Places, writer
        <4>2. read_pos + Held - wlen < Size => read_pos' + Held' - wlen' < Size
          BY <1>1, <1>2, <1>4, <2>1, <2>4 DEF writer
        <4> QED
          BY <1>1, <2>1, <2>2, <2>4, <2>8, <3>1, <4>1, <4>2 DEF Places, writer
      <3>2. CASE wpc # "store"
        <4>1. Behind(write_pos)'
          <5>1. Behind(write_pos)
            BY <2>1, <3>2 DEF Places
          <5> QED
            BY <1>1, <1>2, <1>4, <2>1, <2>2, <2>4, <5>1 DEF Behind
        <4> QED
          BY <1>1, <2>2, <2>4, <3>2, <4>1 DEF Places, writer
      <3> QED
        BY <3>1, <3>2
    <2> QED
      BY <2>5, <2>7, <2>9 DEF InPlace
  <1>9. NothingOverwritten'
    <2> SUFFICES ASSUME Sound' PROVE Kept' /\ wpc' # "undefined"
      BY DEF NothingOverwritten, Kept
    <2>1. InPlace' /\ Fitted' /\ wpc' # "undefined"
      <3>1. Sound
        BY <1>1 DEF Sound
      <3>2. Held <= Size
        BY <3>1, HeldFits
      <3> QED
        BY <1>2, <1>4, <1>8, <3>2 DEF Places, Fitted
    <2>2. Kept'
      BY <1>5, <2>1, HeldBytes, PTL
    <2> QED
      BY <2>1, <2>2
  <1> QED
    BY <1>5, <1>6, <1>7, <1>8, <1>9 DEF RingInv, InOrder

LEMMA RingAlways == Spec => []RingInv
  <1>1. ASSUME RingInv, [Next]_vars PROVE RingInv'
    <2>1. CASE PutCopy
      BY <1>1, <2>1, PutCopyStep
    <2>2. CASE PutStore
      BY <1>1, <2>2, PutStoreStep
    <2>3. CASE GetCopy
      BY <1>1, <2>3, GetCopyStep
    <2>4. CASE Reset
      BY <1>1, <2>4, ResetStep
    <2>5. CASE PutOutside \/ GetOutside
      BY <1>1, <2>5, OutsideStep
    <2>6. CASE UNCHANGED vars
      <3>1. /\ UNCHANGED <<data, count, read_pos, write_pos, wpc, wlen, wplan, wreg, rpc, rlen, rreg>>
            /\ UNCHANGED <<put, got, mixed, lost, torn, dirty>>
        BY <2>6 DEF vars, ringVars, writer, reader, hist
      <3>2. Held' = Held /\ (Sound => Places)' /\ InOrder' /\ NothingOverwritten'
        BY <1>1, <3>1, NothingMoves DEF Sound
      <3>3. Uncounted' = Uncounted /\ Undone' = Undone
        BY <3>1 DEF Uncounted, Undone
      <3>4. Types'
        BY <1>1, <3>1 DEF RingInv, Types
      <3>5. OneWay' /\ Balance'
        BY <1>1, <3>1, <3>2, <3>3 DEF RingInv, OneWay, Balance
      <3> QED
        BY <3>2, <3>4, <3>5 DEF RingInv
    <2>7. CASE \E n \in 1..MaxLen : PutStart(n)
      BY <1>1, <2>7, PutStartStep
    <2>8. CASE (\E n \in 1..MaxLen : GetStart(n)) \/ GetLimit
      BY <1>1, <2>8, GetStartStep
    <2>9. CASE PutReadCount \/ GetReadCount
      BY <1>1, <2>9, ReadCountStep
    <2>10. CASE PutWriteCount \/ GetWriteCount
      BY <1>1, <2>10, WriteCountStep
    <2> QED
      BY <1>1, <2>1, <2>2, <2>3, <2>4, <2>5, <2>6, <2>7, <2>8, <2>9, <2>10 DEF Next
  <1> QED
    BY <1>1, RingInit, PTL DEF Spec

\* For a ring of any size, and until two updates of count overlap or a reset meets bytes:
\* the reader gets the writer's bytes in their order, each once.  Its comparison with the
\* writer's position cannot mislead it, between the two stores of ringbuffer_put either.
THEOREM BytesInOrder == Spec => []InOrder
  <1>1. RingInv => InOrder
    BY DEF RingInv
  <1> QED
    BY <1>1, RingAlways, PTL

\* Under the same condition no copy leaves the ring's memory, and a byte put and not yet
\* got is still where the reader will look for it.
THEOREM BytesKept == Spec => []NothingOverwritten
  <1>1. RingInv => NothingOverwritten
    BY DEF RingInv
  <1> QED
    BY <1>1, RingAlways, PTL

\* Between calls count is the number of bytes put and not yet got less what overlapping
\* updates have lost, whatever the ring went through; without an overlap nothing is lost.
THEOREM CountTrue == Spec => []CountExact
  <1>1. RingInv => CountExact
    <2> SUFFICES ASSUME RingInv PROVE CountExact
      OBVIOUS
    <2>1. lost # 0 => torn
      BY DEF RingInv, Balance
    <2>2. ASSUME wpc = "idle", rpc = "idle" PROVE count = put - got - lost
      <3>1. count = Held - Uncounted + Undone - lost /\ Uncounted = 0 /\ Undone = 0
        BY <2>2, Numbers DEF RingInv, Balance
      <3> QED
        BY <3>1, Numbers DEF RingInv, Held
    <2> QED
      BY <2>1, <2>2 DEF CountExact
  <1> QED
    BY <1>1, RingAlways, PTL

\* Every variable keeps its type; in particular count stays between 0 and the size even
\* when its updates overlap, so that no call computes a negative length.
THEOREM TypeCorrect == Spec => []TypeOK
  <1>1. RingInv => TypeOK
    <2> SUFFICES ASSUME RingInv PROVE TypeOK
      OBVIOUS
    <2>1. {mixed, torn, dirty} \subseteq BOOLEAN
      BY DEF RingInv, Types
    <2> QED
      BY <2>1 DEF RingInv, Types, TypeOK
  <1> QED
    BY <1>1, RingAlways, PTL
=============================================================================
