# Verification of the proximity-sensor calibration program

The repository holds a Windows (MFC) program for a production line. It
calibrates the proximity sensor of an Airoha earphone over a serial port
(`src/chrg-test`, "RaceCmd"), and carries along the library `src/jx_common`
(buffers, queues, UART, timers, HTTP, licence files) that it shares with other
products. This directory holds TLA+ models of the parts where threads, timers,
messages and bytes meet, the TLC configurations that check them, and proofs.

## 1. The system

```
 operator ──► GUI thread (mp_testDlg.cpp) ──► worker StartSendUartCmd ──► t5506_send_race_cmd
     ▲         timers, posted messages ◄──────── PostMessage                │         ▲
     │         nested MessageBox loop ── m_event ──►                        │ UART    │ hRaceCmdEvent,
     └──────── labels, counters                                             ▼         │ rsp_value
                                                                        earphone      │
                                                                            │ bytes   │
              UART receive thread (uart.c) ── uart_rx_buff ── frame search ─┴─────────┘
```

| Component | State it keeps | Operations | Module |
|---|---|---|---|
| RACE command calls, `t5506.cpp` | `hRaceCmdEvent`, `rsp_value`, `snd_count`, `rcv_count`, `s_race_cmd` | send with retries, wait, read the value; reply handler | `RaceCmd` |
| Receive path, `uart.c`, `ua800_test_mode.cpp`, `t5506.cpp` | `uart_rx_buff` (bytes, `len`) | read, search frames, move the rest, reset | `UartRx` |
| Calibration session, `mp_testDlg.cpp` | `m_racecmd_running`, `m_racecmd_autotest`, `m_rawdata_stage`, statics `outear_status`, `inear_stauts`, `m_event`, labels, OK/NG counters, timers | button, check box, timers, prompt, worker, message handlers | `CalibSession` |
| Buffer pools, `data_buff.c` | free lists, `free_cnt`, named semaphore | `new_alloc_buffer`, `new_free_buffer`; the same by other instances | `MemPool` |
| Buffer queues, `data_buff.c`, `uart_obd_test.c` | ring of doubly linked buffers, head, tail, semaphore | `add_buf`, `remove_buf`, `free_queue_buff`, `obd_test_send_uart`, `remove_node`, `buf_decrease_to_len`, `buf_acc` | `BuffQueue` |
| Byte ring, `ringerbuff.c` | bytes, positions, `count` | put, get, reset | `RingBuffer` |
| MAC address allocation, `amalloc.cpp`, `database.cpp` | list of records of each station, table `mac_alloc` | fetch, `addr_alloc`, `addr_free`, give up; insert, update, delete of a row | `AddrAlloc` |
| Software timers, `sk_timer_task.c` | sorted array of timers | sort, remove, next time, check | `SkTimer` |
| MAC address and licence files, `LicenseFile.cpp`, `midea_license_file.cpp` | file, used marks, count left | find, mark, save | not modelled: no caller |
| AT boot of another product's module, `ua800_test_mode.cpp`, `media_test.cpp` | boot state, AT answer, event | reset, AT with retry, write licence | not modelled: not reached |
| Flash page and USB programmer, `mp_testDlg.cpp`, `UsbIF.cpp` | device handles, progress | download threads | not modelled: hidden in this build |
| Sockets, HTTP client and server, cloud agents, codecs, configuration, log, MFC shell, mbed TLS | | | not modelled |

**Interaction.** The GUI thread starts the worker of a run. The worker calls
`t5506_send_race_cmd` up to sixteen times; each call allocates a buffer from a
pool, writes a frame, waits for the auto-reset event and, on success, lets its
caller read the global `rsp_value`. The receive thread fills `uart_rx_buff`,
extracts frames, sets the event, then stores the value. The worker reports to
the GUI thread by posted messages; the GUI answers one of them by showing a
prompt and setting `m_event`.

**What is hard.**

* *Ordering:* `SetEvent` comes before the store of the value it announces.
* *Timeout against late answer:* the event outlives the call that waited for it;
  a retry is answered twice; the prompt may be closed after its wait expired.
* *Nested message loop:* the worker's later messages, even the end of its run
  and the start of the next, are handled before the handler that shows the
  prompt has returned; the verdict flags are statics of that handler.
* *Several instances:* the event and both semaphores have names and are shared
  by every running instance of the program.
* *State read before a lock:* a pool is chosen by a count, and a queue tested
  for emptiness, before the semaphore is taken; `free_cnt` is decremented outside.
* *Two copies of one state:* each station keeps its own list of the address
  table and repeats its changes on the table, a call in up to two statements;
  it may crash between them, a statement may fail unnoticed, and another
  station may write in between.
* *Bytes:* a read ends where the line was silent, not where a frame ends; the
  search looks past the length of the buffer at bytes of earlier reads.

`PROJECT.json` lists each hazard with its line and the properties about it.

## 2. Modules

### CommandCall, RaceCmd: one command at a time
`Call`/`AllocFails` are the head of `t5506_send_race_cmd`; `Send`,
`WaitSignalled`, `WaitTimeout` the rounds of its loop; `ReadValue` and `Decide`
the two reads of `rsp_value` in its callers (a calibration command reads it for
the message and again for the verdict). `RecvFrame` counts a frame, `DropFrame`,
`SignalEvent` and `StoreValue` are `do_onewire_frame_rsp` up to, at and after
`SetEvent`: the worker may run between any two. The wire and the earphone
(`DeviceReply`, `LoseRequest`, `LoseReply`) are external: any request or reply
may be lost, or stay under way for any time. `ForeignSet` and `ForeignTake` are
the reply handler and the worker of another instance at the event of the same
name. A value is the number of the call it answers. A hardware reset is
answered with another command word, which the receiver drops.

`CommandCall` is what a caller of `t5506_send_race_cmd` may rely on whatever the
earphone does: frames are written during a call only and at most `SendCount`, a
call gives up only after that many, and a successful one has written at least
one and tells how many. `RaceCmd` implements it (`CommandContract`).

History variables: `sent`, `signaller`, `answered`, `prior`, `signals`,
`releases`; `timing` is "late" from the moment a wait expires while a request
or reply is under way; `foreign` counts the other instances' steps. `InTime`
says that neither has happened.

### FrameParsing, FrameStream, UartRx: from bytes to frames
`FrameParsing` says what the frames of a byte sequence are and nothing about
buffers. `FrameStream` is the abstract receiver: a read takes a piece of the
bytes, and the frames complete in that piece are delivered. `UartRx` is the
code: `Read` fills `uart_rx_buff` behind its length; `ParseFrame`,
`ParsePartial` and `ParseNone` are one round of `process_data_buffer` with
`get_rsp_frame` and the `memmove`s, on a memory in which the bytes of earlier
reads stay; `Return` stores the rest in `len`, after which `init_buffer` makes
it 0. `MCUartRx` gives the earphone its repertoire: frames of no, one and two
bytes whose contents look like headers, a truncated frame, half a header,
noise.

### CalibSession: the dialog's run
GUI actions: `ClickButton`, `ToggleAutotest`, the three timers,
`OperatorCloses`, `PromptReturns` and one action per kind of posted message
(`HandleProgress`, `HandlePrompt`, `HandleDone`, `HandleCmdError`). `boxes` is
the stack of open prompts: while it is not empty the GUI thread is inside
`MessageBox`, whose loop goes on dispatching; a prompt that was closed returns
only when it is the innermost, as a call stack does. Worker actions follow
`StartSendUartCmd` from `Begin` to `Finish`. A RACE command is one step with
the outcomes its caller can tell apart. `stage` is written by the worker while
earlier messages are still in the queue.

### MemPool: blocks and their count
`Alloc` refuses a size that is not positive or above the largest block;
`FittingPool` finds the pool by the comparisons of `get_mem_pool_index` (`Fits`),
for an allocation by the bytes asked for and for a free by the block's own size.
`Scan` chooses a pool by `free_cnt` without the semaphore, `TakeSema`, `Pop`
and `Unlink` are the critical section of `new_alloc_buffer`, `ReadCount` and
`DecWrite` the decrement after it, split into its read and its write; `Free`,
`Push`, `IncWrite`, `FreePost` are `new_free_buffer`. Counts have `Width` bits
of the unsigned type. `torn` records that two updates of one count overlapped.

The semaphore has a name, so another instance of the program takes it too: as
far as this instance can tell, it takes it (`OtherTakes`), gives it back
(`OtherPosts`) or is killed while it holds it (`OtherDies`), after which nobody
gives it back (`orphan`). The pools are each instance's own memory.

### Fifo, BuffQueue: the ring of buffers
`BuffQueue` has the pointers (`next`, `prev`, `head`, `tail`) and splits `remove_buf`
at its unlocked test of the head (`StartRemove`, `CheckHead`, `TakeBuf`, `DrainBuf`).
`obd_test_send_uart` is `StartSend` (the unlocked test of `cs_inited`), `InitSection`
(`InitializeCriticalSection`, which frees a section that somebody owns), `EnterSend`,
`PeekAndSend` (look at the first buffer and send it) and `DropSent` (remove "the first
buffer", free the one looked at; in `CheckHead`, when there is none any more). A
sender that frees another buffer than it has removed sets `broken`: one buffer is then
in the pool twice, or in the pool and in the queue, and as the free lists use the same
pointers nothing is modelled after that. A walk over such a queue may meet anything. A
queue is used either by takers or by senders (`users`), as in the code, or by one
owner: `remove_node`, `buf_decrease_to_len` and `buf_acc` take no semaphore, so the
code can call them only on a queue that nobody else uses. The only call of
`remove_node` (line 1269) passes a buffer it met in the queue, so `RemoveNode` takes
no other. `RemoveNode`, `DecreaseToLen` and `Accumulate` follow their pointer changes
node by node (`Cut`, `CutAll`), on buffers with lengths. `Fifo` is the abstract queue
of buffers with lengths; `Content`, the walk from the head, is the refinement mapping.
For the owner `Fifo` says what is left in bytes (`Keep`, `TakeUpTo`), not how it is
cut.

### RingBuffer: one writer, one reader
`PutStart … PutWriteCount` and `GetStart … GetWriteCount` split `ringbuffer_put`
and `ringbuffer_get` at every access to what the other side uses: the test of
`count`, each store to `write_pos`, the copy, and the read and the write of
`count`. On Windows the mutex around the latter is compiled out. Byte number k
of the stream is the value k. `min` is a macro that calls `ringbuffer_len` twice
(`GetStart`, `GetLimit`).

Nothing stops the calls after an update of `count` was lost. They go on with the wrong
count: `mixed` is set when a byte is read out of turn, `lost` is what the count lacks.
A wrong count may make a copy run beyond the ring's memory (`PutOutside`,
`GetOutside`), behind which nothing is modelled. `torn` is set when two updates of
`count` overlap, `dirty` when a reset meets bytes; they are history and no action
looks at them.

### AddrPool, AddrAlloc: who gets which MAC address
`AddrAlloc` has a list of records per station and the table of rows. A call (`Alloc`,
`Free`, with one operator per branch of the code) changes the list and leaves the
statements that repeat the change on the table in `todo`; `Execute` runs one of them,
which may fail, an insert also after its row was added, when the identity cannot be
read back; `Return` ends the call: the order of list and table inside one call is not
observable, as no one else sees the list. Between two statements the station may
`Crash`, and the other station may do anything. `Fetch` reads the rows in any order
that `sort` may leave them in with the code's `operator<`. Differences of addresses
wrap at `Width`, as `kal_uint32` does. `AddrPool` is what one user expects of a
handle: a set of addresses in use, from which a run is taken whenever there is a free
one, and to which any run in use can be given back.

`intact` is history: it becomes false when a call is cut between its statements,
a statement fails, a station writes with a list that another has overtaken, or
a free of length 0 splits a record into two that touch. From then on the table
makes no promise; a handle fetched from rows that lie apart (`sound`) still is a
pool.

### SkTimer: the timer array
`Check` begins `sk_timer_check_callback`, `Step` and `Fire` are one round of its
walk, `Return` its end. `Sort` is the exchange sort pair by pair, `Shift` is
`sk_remove_timer`, `NextTime` is `sk_timer_get_next_event_time` with the wrap of
its sum and its count of days from the constant first day. `Init` is
any filling of the array's beginning, as `sk_timer_init` does it, and `Test` the
sort of `sk_timer_test`. Identifiers chosen by the application repeat (the test
data has 4 twice), so an entry is known by the place it had at first.

## 3. Runs

| Run | Question | Result |
|---|---|---|
| `race` | Is a caller released by its own reply, how old may its value be, does a call keep its contract and return? | holds |
| `race_value_race` | Does a released caller never read the value an earlier command was answered with? | violated |
| `race_shared_event` | Does a success mean that some frame came from the earphone? | violated |
| `calib_session` | One worker at a time, true verdicts and labels, autotest and prompt honoured, runs end? | holds |
| `calib_label` | Is an out-ear failure shown on the out-ear label? | violated |
| `uart_rx` | Does the buffer implement the parser that sees each read by itself? | holds |
| `uart_split` | Do the delivered frames not depend on where reads end? | violated |
| `pool` | Has every block one owner, are blocks as large as the bytes asked for, is the semaphore given back, is the count true, do calls return, beside another instance that may be killed? | holds |
| `queue` | FIFO, closed ring, one place per buffer, the sent buffer is the one removed; exact cuts by an owner? | holds, for senders unless the section is initialised twice |
| `ring` | Order, no overwriting, a count that is off by what was lost? | holds, the first two until updates overlap |
| `addr_alloc` | Is a handle a pool; is no address given twice; does the table have what the next station needs? | holds |
| `timers` | Does each due entry run once, does the array stay sorted without holes, does a check end? | holds |

**Bounds.**

* `race`: `SendCount` is the code's 3, so the loop is explored to its end. Two
  calls are the least in which a reply of one can meet the wait of the next,
  and `StaleByAtMostOne` and `OwnSignal` relate exactly two calls. Both kinds of
  command occur in either place. Two foreign steps allow a set and a set, a set
  and a take, and their meeting with own signals.
* `calib_session`: two runs, so that flags, labels, timers and late `SetEvent`s
  of one meet the other. Two attempts per loop instead of five: a first, a
  repeated and an exhausted attempt all occur.
* `uart_rx`: nine bytes sent, in every cut, into a buffer of nine: two or more
  frames or parts of them, several reads, reads that fill the buffer. A frame's
  length field has 16 bits; values above two bytes of content behave as
  incomplete frames, which the truncated frame stands for.
* `pool`: one block of two bytes and two of four, requests of -1 to 5 bytes: none
  and too many, below, at and above each size. Two threads: a pool is emptied
  between the scan and the semaphore, and a larger block is lent. The other instance
  takes and returns the semaphore without limit and dies at most once.
* `queue`: four buffers: empty, one, two and more in the ring with each
  interleaving; two takers or three senders, so that one waits while one works
  and one comes. An owner's buffers have no, one or two bytes: a cut falls
  inside a buffer, between two, behind empty ones, and into the last.
* `ring`: a ring of three, ten bytes: the positions wrap three times, with lengths
  up to one more than the ring, and several puts and gets follow a lost update.
* `addr_alloc`: a segment of four addresses has up to two records with every
  kind of room before, between and behind them, and requests of one and two
  addresses fit, just fit or do not. `Ids` has two identities of rows; one is
  used again only when no row, list or statement has it, so it cannot be told from
  a new one, and a third row at a time is not explored. Two stations, one of
  which is followed alone once the table is damaged (`Explored`): then only
  `HandleIsPool` speaks, of each station by itself. Stations and
  identities are symmetric; no liveness is checked there. Requests of length 0 are
  not made; frees of length 0 are, at any place.
* `timers`: three entries in every filling with start times that are equal,
  ordered and not, with the weekly patterns once, every seventh day, every
  first day and a bit that is no day; a day is one second, a clock of 16
  seconds wraps. The checks' seconds may go backwards, as nothing forbids it.

**Fairness.** `RaceCmd` assumes weak fairness of the worker alone: Windows
schedules a ready thread, and a wait with a time limit becomes ready. Nothing is
assumed of the earphone, the wire or the receive thread, so `CallReturns` is
due to the time limit and the retry count. `CalibSession` assumes it of the
worker, of the GUI thread's dispatch of posted messages and of the timer that
starts the worker, not of the operator or the other timers: `RunEnds` holds if no
prompt is ever closed. `MemPool` assumes it of each thread's step inside a call,
and of the semaphore strong fairness: a waiting thread is not passed over for ever.
Another instance that holds the semaphore gives it back or dies; without an
orphaned semaphore every call returns. `SkTimer` assumes weak fairness of the
check's own steps: it is one function call.

**Deadlock** is checked for the queues and the timers. In `pool` an orphaned
semaphore really stops everyone. `addr_alloc` may have no step left when the
identities are used up. The other models stop at a bound (calls, runs or
bytes used up), where the real system would go on.

## 4. What the checks show

**What holds without condition.** A reply ends at most one wait however late it is
(`OneReleasePerReply`), calls return, one run at a time uses the port, the verdict
counters and labels agree with what the worker reported although its messages may be
handled inside a nested loop, autotest is armed exactly when the box is checked. The
receive buffer never mixes bytes of two reads and never damages the rest it keeps. No
block of a pool is lost or lent twice, and none is smaller than the bytes asked for,
for every size `get_mem_pool_index` can be given. The buffers of takers and owners are
in one place each, the ring of their queue is closed at every moment an unlocked
reader may look at it, and the queue is a FIFO although its test for emptiness is
outside the semaphore. `count` of the byte ring is, between calls, off by exactly what
overlapping updates have lost (`CountExact`). An owner's cut leaves exactly the bytes
it was asked to leave. A handle of `amalloc.cpp` fetched from sound rows is first-fit
complete: it refuses only when no run of free addresses is long enough. A due timer
runs once per check although the array is shifted and sorted under the walk.

**What holds under a condition,** and what happens outside it:

* `OwnSignal`, `StaleByAtMostOne`: while no wait has expired with a frame under
  way, and no other instance has used the event (`InTime`). After a late reply
  the event stays set, no call resets it, and the next call is released by the
  reply to an earlier one.
* `PromptHonoured`: while no wait for a prompt has expired. A late `SetEvent`
  then releases the next run's wait before its prompt was closed.
* `CountAtRest`: until two updates of one `free_cnt` overlap. Then an increment or a
  decrement may be lost for good: the pool is skipped while it has blocks, or tried
  while it has none.
* `InOrder`, `NothingOverwritten` (`Sound`): until two updates of `count` overlap or
  `ringbuffer_reset` meets bytes. See below.
* `OnePlace`, with senders: until two of them have both seen `cs_inited` FALSE and the
  second has initialised the critical section while the first owned it. Then both
  are inside and look at the same buffer; one removes and frees it, the other
  removes the next one, or none, and frees the first a second time. `RingClosed`
  and `QueueIsFifo` hold up to that step and say nothing after it.
* `CallsReturn` of `MemPool`: while no other instance was killed inside the
  critical section. Then the named semaphore stays taken, and every allocation
  and free of every instance waits for ever.
* `GrantsApart`, `TableSound`, `ListIsTable`: until one of the faults of `intact`
  happens. None of them is noticed by the code: the results of the statements
  are dropped, there is no transaction, and a list is never fetched again.
* `CheckEnds`, `EachDueRunsOnce`: except in the last week that 32 bits can count.
  There the next time wraps to a small number, or to the value that means "no
  next time"; an entry whose time has wrapped is due again at once and the
  check never returns.
* `WholeFramesArrive`: while reads end between frames.

**Two comments of `ringerbuff.c` that the code does not keep.** They are stated here
and not as runs, since no other file of the repository calls the ring.

* Lines 89 and 172, "with only one concurrent reader and one concurrent writer, you
  don't need extra locking": true of the bytes and the positions, false of `count`,
  whose mutex is compiled out on Windows. Drop `~torn` from `Sound` and TLC finds, on
  the configuration of `ring`: the writer reads `count` to add to it (145), a whole
  get subtracts from it (218), the writer stores its sum. The decrement is lost, and
  the next get reads bytes that were read before or never put. The other way round an
  increment is lost, and the next put, which believes there is room, overwrites bytes
  not yet read. Either may end in a copy beyond the ring's memory (138, 211), and
  `CountExact` says that the error never heals. A reset that meets bytes does the same
  without an overlap, as it clears the positions and not `count`.
* Line 169, "copies at most len bytes": `min(len, ringbuffer_len(ring_buf))` (187)
  calls `ringbuffer_len` a second time when the first result was not above `len`. A
  put that ends in between makes the get copy more than `len` bytes into its caller's
  buffer.

**Findings** (`PROJECT.json` quotes the lines):

1. `race_value_race`: of two calls answered in time the second is released by
   `SetEvent` before its value is stored, and reads the one the first call was
   answered with.
2. `race_shared_event`: the event is named, so a reply to another instance ends
   the wait of this one; the call succeeds with no frame received.
3. `calib_label`: in a second run an out-ear command that fails is painted on
   the in-ear label, because the stage of the first run is still set.
4. `uart_split`: a frame that arrives in two reads is never delivered: the
   receive thread's `init_buffer` drops the rest that the parser asked to keep.

## 5. Proofs

Every theorem holds for all values of the constants that satisfy the named assumption
of the module, and rests on no other. The proofs stand in a module of their own beside
each component. Each has an inductive invariant, one lemma per action that the action
keeps it, and under it one step per part of the invariant; the theorems follow by one
temporal step. TLC checked the invariants first, on the runs above.

**`RaceCmdProofs`** (at least one attempt, any number of calls and foreign steps):

* `TypeCorrect`. `TypeOK` alone is not inductive: that no call sends more than
  `SendCount` frames needs to know that `sent` equals the loop index while
  sending and one more while waiting, and that the index is below `SendCount` in
  both (`SentMatchesIndex`).
* `ReleaseOncePerReply`: `OneReleasePerReply`. Its second conjunct, a signalled
  event is a reply that has ended no wait yet, makes it inductive.
* `SignalIsOwn`: `OwnSignal`. The strengthening says that, in time, between the
  two directions of the wire, the receiver up to its `SetEvent` and the event
  there is at most one message (`OneMessage`), that it belongs to the current
  call, and that the worker is waiting for it (`Provenance`). A wait that expires
  in time therefore finds everything quiet, which is why a retry cannot produce a
  second reply.
* `ValueStaleByOne`: `StaleByAtMostOne`, from the same invariant with one more
  part: `rsp_value` belongs to the last answered call, or to the one before
  while the receiver still holds the frame.
* `ContractKept`: `RaceCmd` implements `CommandCall`, each step being a step of
  the contract or none, from `SentMatchesIndex`.

**`UartRxProofs`** (any bytes, any cuts, any buffer of at least two bytes):

* `ImplementsPerReadParser`: `UartRx` implements `FrameStream`
  (`PerReadParser`), the end of a read being the step that delivers its frames.
  The invariant `RxInv` says that the buffer holds what is left of the read
  behind its first `c` bytes (`Holds`), that these end with the last frame
  handed on, and that the frames still to come are those of the reference from
  there on (`Parsed`). `MatchIs`, `SearchFinds` and `WholeIs` are the heart: a byte
  behind the length can complete a header only at the last byte, where no frame
  is whole, so the search stops where the reference does; and it never looks at
  the length field of such a header outside the buffer, because behind a
  read that fills the buffer stands a 0 (`ZeroBehind`).
* `AlwaysRestAtFront`: `RestAtFront`, by the same lemmas in the states where the
  search has stopped (`NothingFollows`, `RestFound`).
* `AlwaysWholeFrames`: `WholeFramesArrive`. Two facts about the reference carry it.
  The frames of two pieces put together are those of the one followed by those of
  the other, if no header begins in the first behind its frames, not even one whose
  second byte is the first of the other piece (`Quiet`, `FramesJoin`, from
  `StartsJoin` for the first piece and `StartsShift` for the second). And a cut that
  goes through no frame leaves such a first piece, whatever arrives behind it
  (`Clean`, `CutClean`). The invariant `WholeInv` says that the bytes read so far
  were delivered and end clean, and that those of the read in progress do. The
  second part is needed because the parts of a stream that end clean do so
  together (`CleanJoin`), which `split` says of each cut alone.
* `TypeCorrect`.

`FrameStarts` of the reference is a recursive function. That a function with
its equation exists, and that it is what the equation says (`RecursionUp`,
`StartsFromIs`), is proved by induction over a set of numbers (`Induction`).

**`CalibSessionProofs`** (any number of runs and attempts): `OneWorkerAlways`,
`VerdictsAlwaysTrue`, `LabelsAgree`, `AutotestAlwaysArmed`,
`PromptAlwaysHonoured` and `TypeCorrect`. They share one invariant, `IInv`. Its
core is `Stages`: the dialog is in exactly one of four stages (no run; the power
timer is pending; the worker is alive and has not posted `ALL_DONE`; the thread has
ended and `ALL_DONE` is the last of its messages). Messages of a run lie in the
queue in the order in which the worker posted them, and flags and labels, which all
runs share, are described by the values they will have once the messages in the
queue are handled (`FlagsSettle`, `LabelsSettle`), however late or nested that is.

**`MemPoolProofs`** (at least one pool, each with at least one block and fewer
than `free_cnt` can count, any threads):

* `SemaphoreInside`: `SemaHeldInside`, whatever other instances do with the
  semaphore; hence `MutualExclusion`: two threads are never inside the critical
  sections together.
* `OneOwnerAlways`: `OneOwner`, from mutual exclusion. `OwnInv` says that free lists
  have no block twice, and which block a thread has in each of its places; a push or
  a pop is not atomic, but no one else looks at the list meanwhile.
* `CountRight`: `CountAtRest`, for every pool. `CountInv` says by how much
  `free_cnt` differs from the length of the list, given the threads between the
  list and the count, until two updates overlap (`torn`).
* `BigEnough`: `LargeEnough`. Lemma `Sizes` is about the comparisons of
  `get_mem_pool_index`: the pool they find has blocks at least as large as the size,
  and the pool found for a block's own size is the block's pool. `SizeInv` says that
  each free list holds blocks of its own pool only, that the block at hand belongs to
  the pool at hand, and that the scan only moves to larger pools. A freed block goes
  home because its pool is found from its own size, not from the size that was asked
  for. The proof does not need the count to be right: a stale or torn `free_cnt` costs
  memory, never size.
* `TypeCorrect`.

**`BuffQueueProofs`** (any threads, buffers and lengths): `AlwaysClosed`
(`RingClosed`), `AlwaysOnePlace` (`OnePlace`), `AlwaysFifo` (`QueueIsFifo`),
`TypeCorrect`. `QueueInv` says that the pointers are a ring of exactly the buffers of
`Content`, in both directions, that nobody's buffer is in it, and where each thread's
buffer is. Of senders it says that the one inside works on the head of the queue,
until the section is initialised under its owner (`Sending`). `Content` walks the
pointers by a recursive function; that the walk from the head of a closed ring meets
each buffer once is proved by induction over a set of numbers (lemma `Induction`),
which needs no operator as a parameter. The owner's walks (`Cut`, `CutAll`) are
handled in the same way, so that the cuts are proved for rings of every length.
`AlwaysFifo` maps the ring to its content with the buffers' lengths (`Entered`): each
step is a step of `Fifo` or none, and the sums of `buf_get_total_len` and of `Fifo`
are shown to be the same (`EntriesSum`, `CutBytes`).

**`RingBufferProofs`** (any size above 0, any number of bytes): `BytesInOrder`
(`InOrder`), `BytesKept` (`NothingOverwritten`), `CountTrue` (`CountExact`),
`TypeCorrect`. `RingInv` has two layers. The lower one holds in every state, also
after lost updates and resets: `OneWay` says what each side may take for granted of
`count` because the other one changes it in one direction only (room once seen does
not shrink, bytes once seen do not go), and `Balance` that `count` is what was put and
not got, but for the calls under way and for what is lost, which is nothing before an
overlap. The upper one, `Places`, holds while `Sound` does: it relates the positions
to the numbers of bytes put and got, modulo the size, also between the two stores of a
put; with it the pieces of the calls under way fit, and `NothingOverwritten` gives the
order.

**`SkTimerProofs`** (any number of entries, any clock): `AlwaysRunsOnce`
(`EachDueRunsOnce`), `AlwaysSorted` (`SortedNoHoles`), `TypeCorrect`. The exchange
sort is written as two nested folds (`Pass`, `Sort`) over the code's two loops. Lemmas
about one exchange, a pass and the sort say that it is sorted at the end and only
permutes; `TimerInv` says that what stands before the walk's index is not due, and
that entries that ran will not be due again in this check.

**`AddrAllocProofs`** (any stations, segment, lengths and identities; `Width` more
than twice the segment, as 2^32 is):

* `EveryHandleIsPool`: each sound handle implements `AddrPool`. The lemmas go
  through the branches of `addr_alloc` and `addr_free` and say, for a sorted list,
  what list and statements come of each (`Gives`, `TakesOut`); `NoRoom` and
  `NotInUse` say that the refusals are right: no run is free, or none of the
  records has the run as a whole.
* `AlwaysGrantsApart`, `AlwaysTableSound`, `AlwaysListIsTable`, `TypeCorrect`, from
  `AddrInv`. Its centre is `Agrees`: the statements that a station has not yet
  executed make its list of the table (`Rest`). With it go: while one station has
  executed the first of its two statements, every other list is stale (`OneHalfDone`);
  what is handed out and what each call is about to hand out lie apart (`HeldApart`).
  An allocation is thus with its caller before its `Return`, and a station that has
  been overtaken by another cannot execute a statement without `intact` becoming
  false.

**Assumptions.** `UartRx` assumes that the type byte of a frame (0x5B) is not 0, the
byte stored behind a read. `BuffQueue` assumes that lengths are bounded (`Lens` has a
largest one), as the code's are by their type. The others state that counts are
natural numbers, that there is at least one of what the code has at least one of, and
that the numbers fit their width.

**Only model-checked:** liveness (`CallReturns`, `RunEnds`, `CallsReturn`,
`CheckEnds`), as liveness under fairness is out of the prover's reach. Every
invariant, action property and refinement that a passing run checks is a theorem,
and the runs that expect a violation show one behaviour each.

## 6. Not modelled

* Formatting, logging and the bytes of a command; opening and configuring a
  port; the second UART's thread and the AT server of `uart.c`, which this
  program does not start. (`uart_send_callback` there removes a buffer from its
  queue and never frees it.)
* `LicenseFile.cpp` and the licence write of `ua800_test_mode.cpp`: the code
  that calls them is inside `#if 0`. A later user should know that the file is
  opened with `wb`, which empties it, before checks that may return early
  (line 393), and that an address found used is saved as such without the count
  of addresses left being decremented (303).
* The AT commands and boot states of `ua800_test_mode.cpp`: the program calls
  only `ua800_do_with_uart_rsp`, which hands bytes to the frame search.
* The flash page: its buttons are hidden, and the thread behind the one
  that is left only counts. The vendor DLLs of the USB programmer are device I/O.
* `hx_net.c`: its lines are locked by a semaphore that most paths release with
  `SetEvent` (263, 272, 320, 330, 369), which does nothing to a semaphore: on
  Windows the second caller waits for ever. Only the HTTP code uses it.
* HTTP, TLS, cloud SDKs and codecs, which are third-party or sequential and not
  used by the calibration. They are most of the repository's lines.
* Of the modelled files: `init_one_mem_pool` with no blocks, which would write before
  its array (229) and which no caller asks for; `sk_add_timer` and `sk_del_timer`,
  declared but not defined; the calendar, as the days to a timer's next time are
  counted from a constant Monday (`sk_timer_task.c:170`); a pool or a queue after one
  of its buffers was freed twice, and the ring after a copy beyond its memory.

## 7. Plan

Every safety property the runs check is proved. What is left are the hazards of
`PROJECT.json` that no property covers yet: the count shown when a call gives up
(`t5506.cpp:398`), the allocation that fails although a larger pool has a block
(`data_buff.c:402`), the second reading of the ring's length (`ringerbuff.c:187`), the
second run of the dialog (`mp_testDlg.cpp:2593`) and the timer's day of the week
(`sk_timer_task.c:170`). Where a property ends at the edge of a hazard, the hazard's
note says so.
