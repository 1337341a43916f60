# PSRDADA in TLA+

PSRDADA moves data between the processes of a pulsar instrument through a ring
of blocks in shared memory. This directory holds TLA+ models of its library
(`src/src/`), the TLC runs that check them on small instances and the theorems
that TLAPS proves about them.

1. [The system](#1-the-system)
2. [The modules](#2-the-modules)
3. [How it is modelled](#3-how-it-is-modelled)
4. [Properties](#4-properties)
5. [Runs](#5-runs)
6. [Fairness](#6-fairness)
7. [Proofs](#7-proofs)
8. [Disagreements with comments and documentation](#8-disagreements-with-comments-and-documentation)
9. [What is left out, and the plan](#9-what-is-left-out-and-the-plan)

## 1. The system

### Data Block ring buffer: `ipcbuf.c`, `ipcbuf.h`, `ipcutil.c`

*State.* In shared memory, an `ipcsync_t`: the blocks opened and filled by the
writer (`w_buf_next`, `w_buf_curr`), the transfers ended (`w_xfer`), a table of
`IPCBUF_XFERS` transfers (`s_buf`, `s_byte`, `e_buf`, `e_byte`, `eod`), for
every reader slot its block, transfer and state (`r_bufs`, `r_xfers`,
`r_states`), and for every block of the ring the number of transfers that still
have to read it (`count`). System V semaphores: `WRITE` and `READ`, and per
reader slot `READER_CONN`, `SODACK`, `EODACK`, `FULL`, `CLEAR`. In each process
an `ipcbuf_t` with its own `state`, transfer and reader slot.

*Operations.* Writer: lock and unlock, enable start of data (SOD), disable it
(clocking), get the next block, mark it filled, enable end of data (EOD), zero
the next block ahead, reset. Reader: lock and unlock, get the next block, look at
it, mark it cleared, reset at end of data.

*Hard behaviour.* Nothing but the semaphores orders the processes; every call
that waits does so inside a loop over the reader slots, so a reader acts between
any two of its iterations. Readers connect in the middle of a transfer that
another reader left. `FULL` and `CLEAR` count blocks without naming them.
The transfer table is reused after `IPCBUF_XFERS` transfers. A process may end
anywhere, and only the operations made with `SEM_UNDO` are undone.

*What makes it correct.* Every reader slot receives every transfer, in order,
from its first byte to its last; a block is handed to the writer again only when
every slot has released it; nobody waits for ever while readers read.

### Byte stream: `ipcio.c`

*State.* In the handle of the writer, the block being filled and the bytes in it
(`curbuf`, `bytes`), whether it was marked filled already (`marked_filled`), a
start of data asked for a byte not yet written (`sod_pending`, `sod_buf`,
`sod_byte`) and the blocks held open (`buf_ptrs`); in the handle of the reader,
the block being read and the position in it.

*Operations.* `ipcio_open` to clock (`w`) or to write (`W`), `ipcio_start`,
`ipcio_stop`, `ipcio_close`, `ipcio_write`, `ipcio_open_block_write` and
`ipcio_close_block_write`; `ipcio_read`, `ipcio_seek`, `ipcio_tell`,
`ipcio_open_block_read` and `ipcio_close_block_read`.

*Hard behaviour.* A block that is exactly full is not marked filled until the
next byte comes, so that a stop can still raise end of data on it; a start in
the future is raised by whichever call fills its block; a read that ends on a
block boundary waits for the next block; closing gives blocks back.

*What makes it correct.* The bytes read are the bytes written between start and
stop, whatever the sizes of the calls.

### Header and data unit, client: `dada_hdu.c`, `dada_client.c`

Two rings, one of ASCII headers and one of data. `dada_client_read` loops:
header, transfer to its end, reset. Correct when the n-th header is the one that
belongs to the n-th transfer.

### Primary write client: `dada_pwc.c`, `dada_pwc_main.c`, `command_parse*.c`

*State.* `dada_pwc_t`: state, one slot for a command, `utc_start`,
`bytes_per_second`, header, `quit`; a mutex and one condition variable.
`dada_pwc_main_t` and the locals of the transfer loop: the command being carried
out, the header block, bytes written, the byte at which the state will change
(`transit_byte`), the bytes until then.

*Operations.* The commands header, duration, clock, start, rec_start, rec_stop,
stop, set_utc_start, reset, quit, each in the thread of its connection. In the
transfer thread: prepare, start, the loop that polls for commands, fetches a
buffer from the instrument, writes it and changes state, stop, error handling.

*Hard behaviour.* Who is woken by which signal; commands accepted in one state and
carried out in another; start and stop times compared with the bytes written;
state changes in the middle of an instrument's buffer; writes that block on a
full Data Block while the reader waits for a header; errors on the way out of an
error.

*What makes it correct.* Clients are told the true state; a recording holds exactly
the samples of the times asked for, and its header says so; an error persists
until it is reset; a stop is always carried out.

### Nexus: `nexus.c`, `node_array.c`, `dada_pwc_nexus.c`

Relays a command to every node over sockets, collects the replies and reopens
the connection of a node that fails, in a thread of its own.

### Programs and the rest

`dada_dbevent` extracts overlapping events from a clocked ring; `dada_dbdisk`,
`dada_diskdb`, `dada_dbnull`, `dada_junkdb`, `dada_header` and others are main
programs around the client loop. `multilog`, `disk_array`, `monitor` are log,
disk and plotting services; `ascii_header`, `string_array`, `tmutil` format and
parse text. InfiniBand, UDP and CUDA transports depend on hardware. `apsr/`,
`bpsr/`, `caspsr/`, `mopsr/` and the like are instruments built on the library.

`PROJECT.json` lists every component with its status and every hazard with the
line where it bites.

## 2. The modules

| module | contents |
|---|---|
| `IpcBuf` | the ring buffer, one action per semaphore operation of each function; its properties and their inductive strengthenings |
| `BlockStream` | abstract specification: what the ring buffer promises, without rings, counters or semaphores |
| `IpcBufStream` | refinement mapping from `IpcBuf` to `BlockStream`; conservation of block tokens |
| `IpcBufExit` | `IpcBuf` composed with processes that end and are run again, and with `ipcbuf_get_next_readable` |
| `IpcIo` | the functions of `ipcio`, and of `ipcbuf` as `ipcio` calls it, as operators on a record |
| `IpcIoStream` | a writer and a reader that use all of `ipcio` on one ring; `EXTENDS IpcIo` |
| `Pwc` | the commands, the slot, the condition variable and the state machine of `dada_pwc.c` |
| `PwcMain` | the transfer thread of `dada_pwc_main.c`: `Pwc` composed with a Data Block and a Header Block (two instances of `IpcIo`), an instrument and a read client |
| `IpcBufRing` | the inductive invariant of the ring, `RingInv`, in layers, and the clients it is about, `RingClients` |
| `IpcBufProofs` | theorems: types, locks, acknowledgements, readers are never lapped |
| `IpcBufTableProofs` | theorem: the table of transfers describes the transfers (`TableInv`); lemmas: the order of transfers and the writer's place (`LayoutInv`) |
| `IpcBufReadProofs` | theorems: true sizes and ends of data (`ReadInv`), the tokens and the memory (`RingInv`), blocks stay intact |
| `IpcBufStreamProofs` | theorems: `IpcBuf` implements `BlockStream`; tokens are conserved |
| `IpcIoRing` | the inductive invariant of the byte stream, `IoInv`, in layers, and the clients it is about, `StreamClients` |
| `IpcIoRingProofs` | lemmas: what each function of `ipcbuf` does to transfers, tokens and bytes |
| `IpcIoWriteProofs` | lemmas: the writer's calls of `ipcio` keep `IoInv` |
| `IpcIoProofs` | lemmas: the reader's calls keep `IoInv`; theorems: types, calls accepted, true bytes, true lengths |
| `PwcProofs` | theorems: errors stay, the transfer thread is awake, the state is that of the data, types, a careful client's errors |
| `MCIpcBuf`, `MCIpcBufExit`, `MCIpcIo`, `MCPwc` | instances for TLC |

## 3. How it is modelled

### The ring buffer (`IpcBuf`)

**Variables** carry the names of the C fields and semaphores. `pc`, `op`, `arg`,
`ir`, `order` are the program counters and locals of the calls in progress.
`mem`, `started`, `ended`, `resets` are history: which block's data each ring
slot really holds and where each transfer really starts and ends. No guard of a
program step reads them, except to bound the model (`MaxXfer`) and to say what a
client asks for (below).

**Steps.** A step is one semaphore operation together with the assignments next
to it which only its own process, or a process waiting for that operation, can
observe in between; an assignment that others may observe earlier is a step of
its own (`SodSet`, `EodSet`, `Fill`, `GetBytes`, `Advance`). The several assignments
of `SodSet` and of `EodSet` are one step: a reader compares its block with the
entry being written only once the block it has reached was posted in `FULL`,
which comes after all of them. `LockRead` takes `READ` and sorts the slots by `r_bufs`
in one step, though readers of other slots may move on during the sort
(`ipcbuf.c:961`): the order decides only which free slot is tried first. A loop over the
readers is one step per reader (`SodAck`, `SodFull`, `Drain`, `EodAck`,
`PostFull`, `ResetSodAck`, `ResetEodAck`).

| code | actions |
|---|---|
| `ipcbuf_create_work` | `Init` |
| `ipcbuf_lock_write`, `ipcbuf_unlock_write` | `LockWrite`, `UnlockWrite` |
| `ipcbuf_enable_sod` | `EnableSod` (the checks), `SodAck`, `SodSet`, `SodFull` |
| `ipcbuf_get_next_write` | `GetNextWrite`, then `SodAck`, `SodSet`, `SodFull` when in `WCHANGE`, `Drain`, `TakeBlock` |
| `ipcbuf_mark_filled` | `MarkFilled`, `EodAck`, `EodSet`, (`Drain`, `TakeBlock` for an end on byte 0), `Fill`, `PostFull` |
| `ipcbuf_enable_eod`, `ipcbuf_disable_sod`, `ipcbuf_set_soclock_buf`, `ipcbuf_zero_next_write` | `EnableEod`, `DisableSod`, `SetSoclockBuf`, `ZeroNextWrite` |
| `ipcbuf_reset` | `Reset`, `Drain`, `ResetSodAck`, `ResetEodAck`, `ResetSync`; `ResetRead` for a reader |
| `ipcbuf_lock_read`, `ipcbuf_unlock_read` | `LockRead`, `Connect`, `ConnectFailed`; `UnlockRead`, `Unlocked` |
| `ipcbuf_get_next_read` | `GetNextRead`, `StartXfer`, `GetBytes` |
| `ipcbuf_mark_cleared` | `MarkCleared`, `Advance` |
| `ipcbuf_get_next_readable` | `GetNextReadable`, `StartReadable` (`IpcBufExit`) |
| end of a process, `SEM_UNDO` | `ReaderExit`, `WriterExit` (`IpcBufExit`, external) |

**Data.** A block is its number; `mem` says which block's data a ring slot holds.
A size is a number of units, `0 .. BufSz`; with `BufSz = 1` a block is empty or
full, which are the two cases (end on byte 0, start in the middle or end of a
block) the code tells apart.

**Clients.** The library trusts its callers, so the model states what they do.
Some of it is fixed, because every client in the repository behaves so: a
process unlocks with no block open or held; EOD follows SOD of the same transfer
and never precedes it within a block; clocking starts and `ipcbuf_reset` is
called only between transfers. What clients differ in are constants:

| constant | meaning |
|---|---|
| `MaxOpen` | blocks a writer holds open at once (`ipcio` allows `nbufs - 1`) |
| `Clocking` | the writer writes without a transfer and raises SOD later |
| `SodOnOrigin` | SOD may be raised on block 0 after block 0 was filled |
| `SodAhead` | SOD may be raised on a block after the one being filled |
| `Overlap` | blocks by which a transfer may start before the end of the last |
| `MayLeave` | readers disconnect between two blocks |
| `UseZero` | the writer zeroes the next block ahead |
| `ExitHolding` | points of the processing of a block at which a reader may end |
| `Peeking` | readers look at a block with `ipcbuf_get_next_readable` and end |

`MaxBuf`, `MaxXfer`, `MaxReset` and `MaxExit` are bounds on counters.

### The byte stream (`IpcIo`, `IpcIoStream`)

The handle of the writer and the ring under it are one record, and every C
function is an operator from such a record to the next, under its own name. A call
is one step, except where it waits: `ipcio_write` is `WriteFull`, `WriteGet`
(which waits) and `WriteCopy`, repeated; `ipcio_read` is `ReadGet` and `ReadCopy`.
What happens inside a call of `ipcbuf` when readers come and go is the subject of
`IpcBuf`; here there is one reader, which stays, and fewer transfers than
`IPCBUF_XFERS`, so that no call waits for an acknowledgement. An error return is
the field `err`.

Bytes are numbered in the order in which they are written; `mem` holds them, so
that a byte read from the wrong place shows. `addr`, `sent` and `last` are history:
where each byte was written, where each transfer should begin and end, and what
was last read.

The writer does anything the interface permits, except for what `Slips` lists by
name, each of which leads to a disagreement of section 8: to start in block 0
after clocking (`origin`), to start in the block in which the last transfer ended
(`same_block`), to stop before the block of a start in the future is full
(`stop_early`), to close an empty block (`empty_block`), to clock part of a block
and close before any transfer (`clock_only`).

### The primary write client (`Pwc`, `PwcMain`)

A command is two steps of a client's thread: what its parser does to `dada_pwc_t`
without the mutex (`cmd_header` ...; it stays even if the command is refused), and
the critical section of `dada_pwc_command_set` (`CommandWait`, `CommandRefused`,
`dada_pwc_command_set`, `DurationSet`). `waiting` is the set of threads in
`pthread_cond_wait`; `Signal` takes any one of them out. Spurious wake-ups are not
modelled; every wait is in a loop that tests its condition again.

The transfer thread has a program counter, `m.pc`:

| code | actions |
|---|---|
| `dada_pwc_main` | `Exit`, `CheckFatal`, `Error` |
| `dada_pwc_main_prepare` | `Prepare`, `GetWait`, `Get`, `HandleIdle`, `HandleHeader`, `HandleStart`, `HandleUnexpected`, `HandleQuit` |
| `dada_pwc_main_start_transfer` | `Start`, `StartFails` |
| `dada_pwc_main_transfer_data`: commands | `PollQuit`, `PollNone`, `PollUtc`, `PollDated`, `PollUnexpected` |
| ... data | `Fetch`, `FetchFails`, `FetchNothing`, `Write`, `Written` |
| ... changes of state | `NotReached`, `RecStop`, `RecStart` (`dada_pwc_main_record_start`), `CheckStop`, `CheckUnexpected`, `Rest`, `Room` |
| `dada_pwc_main_stop_transfer` | `StopTransfer`, `StopFails` |
| `dada_client_read` | `ReadHeader`, `ReadBlock`, `ReadEnds` |

Samples are numbered as the instrument delivers them and one sample is one byte;
a time is a number of seconds of `Bps` samples each. A header is the value the
client gave and its `UTC_START`. The functions of the instrument choose: the start
function may know the time of the first sample or not (`TellsUtc`), buffers come
in the sizes `BufSizes`, and `Failures` says which functions fail. `src`, `obs`,
`asked`, `got` and `failed` are history.

Headers that cannot be parsed are not modelled: every header gives `Bps`. Nor is a
`set_utc_start` without a time, or with one that cannot be parsed: the command is
accepted (`dada_pwc.c:541`) and the transfer thread then fails the assertion at
`dada_pwc_main.c:547`, which ends the program.

A careful client sends a command only in a state that accepts it and when the last
one was carried out, and gives the true `UTC_START`. `Slips` lifts the rules:
`any` (these), `toggle` (one recording between clock and stop), `hasty` (data flow
between two changes of state), `short` (a recording starts in a block of its own,
and is stopped, by whichever command, only after its first block has begun), `timed` (no
duration: a start that has one ends in an error). `hasty`, `short` and `timed` keep clear
of disagreements in section 8.

## 4. Properties

`TypeOK` is the type invariant; that no semaphore and no count becomes negative
is part of it. The others:

- `Exclusive`: one writer, and one reader per slot, whatever the order in which
  processes lock, fail to lock, unlock and end.
- `AckAccounting`: at every point of the loops of the writer, `SODACK` and
  `EODACK` of a slot are what is left of `XFERS` for the transfers in between
  the writer and that slot. `NeverLapped` follows: the writer is never more than
  `XFERS` transfers ahead.
- `XferSlotValid`: the table entry of a transfer that a slot has still to start
  or end has not been overwritten by a later transfer.
- `TokensConserved`: each pending use of a block that `count` records is, for
  every slot, one token in `FULL`, in a reader's hands, in `CLEAR`, or in the
  middle of a loop of the writer.
- `BlockIntact`: while a reader has a block, the block holds its own data.
- `BytesTrue`, `EodTrue`: sizes and end of data reported to a reader are the
  true ones, although they are computed from a table the writer changes.
- `StreamSpec`: refinement of `BlockStream`. Every reader slot takes every block
  of every transfer exactly once and in order, with the block's own data and its
  true size, and never before it was filled; reset happens only when everything
  was read.
- `CallsReturn`, `TransfersRead` (liveness): a writer's call returns, and a
  transfer that was ended is read to its end through every slot.

`IpcIoStream`:

- `CallsAccepted`: a call whose documented conditions hold is not refused by the
  ring underneath, in particular not the raising of a start that was pending.
- `ReadTrue`: the bytes given to the reader at the position `ipcio_tell` reports
  are the bytes meant to be there, after any sequence of calls.
- `LengthTrue`: end of data is reported after exactly the bytes between start and
  stop.
- `TransfersEnd`, `WritesReturn` (liveness): every transfer that was stopped is
  read to its end; a write returns.

`PwcMain`:

- `StateMatchesData`: the state a client is told is that of the Data Block.
- `MainAwake`: the transfer thread does not sleep while there is a command.
- `ErrorsStay` (action property): an error state is left only for reset or stop.
- `StreamExact`: within a transfer the reader gets consecutive samples, also where
  the state changed in the middle of a buffer.
- `HeaderTrue`: the `UTC_START` of the header read before a transfer is the time of
  the first sample of that transfer.
- `RecordedAsAsked`: a recording begins and ends at the times asked for, unless the
  command came too late for them.
- `ErrorsExplained` (action property): a careful client is told of a new error only when a
  function of the instrument has failed, or when what was fetched, or the rest of it, does
  not fit into the Data Block while `UTC_START` is unknown (`dada_pwc_main.c:801`, `:931`).
  No other error path of the transfer thread is taken for it.
- `RecordingsRead`, `StopHonoured` (liveness): every recording that ended is read,
  so its header was handed over; a stop is carried out, although the transfer
  thread may be blocked in a write.

## 5. Runs

Each run is `tlc -config <run>.cfg <module>`. All passing runs together take
about seven minutes on two cores.

| run | module | instance | checks |
|---|---|---|---|
| `clocking` | `MCIpcBuf` | 1 writer, 1 reader, ring of 3, 3 transfers with `XFERS = 2`, 4 blocks; clocking, 2 blocks open at once, zeroing ahead | `TypeOK`, `XferSlotValid`, `BlockIntact`, `BytesTrue`, `EodTrue`, `StreamSpec` |
| `two_readers` | `MCIpcBuf` | 2 writers, 2 slots, 2 readers that come and go, 3 blocks, 2 transfers with `XFERS = 1` | `AckAccounting`, `TokensConserved`, `Exclusive`, `NeverLapped` |
| `live_two_readers` | `MCIpcBuf` | 2 slots, 2 readers that stay, one reset, 2 transfers with `XFERS = 1`, fairness | `CallsReturn`, `TransfersRead` |
| `exits_live` | `MCIpcBufExit` | 1 writer, 1 reader; both may end between blocks, twice; 3 transfers with `XFERS = 2`; fairness | `TokensConserved`, `StreamSpec`, `CallsReturn`, `TransfersRead` |
| `exits_holding` | `MCIpcBufExit` | readers end with a block in hand, or after looking at one | `BlockIntact`, `BytesTrue`, `EodTrue` |
| `io_stream` | `MCIpcIo` | ring of 3 blocks of 2 bytes; 7 bytes, 2 transfers, 2 openings; writes and reads of 3 bytes, and block access; fairness | `TypeOK`, `CallsAccepted`, `ReadTrue`, `LengthTrue`, `TransfersEnd`, `WritesReturn` |
| `pwc_observe` | `MCPwc` | 1 careful client, 8 commands, times 0, 2, 3; buffers of 3 samples, blocks of 2, 9 samples; fairness | `StreamExact`, `HeaderTrue`, `RecordedAsAsked`, `ErrorsExplained`, `RecordingsRead`, `StopHonoured` |
| `pwc_commands` | `MCPwc` | 1 client that sends anything the socket interface accepts, at any time, 4 commands, failing functions | `TypeOK`, `StateMatchesData`, `MainAwake`, `ErrorsStay` |
| `sod_on_origin`, `pwc_header`, `pwc_wakeup`, `pwc_toggle` | | see section 8 | expected violations |

*Why the bounds are enough to be interesting.* The ring wraps in every run
(more blocks than `NBufs`), so a slot of the ring is reused while it may still
be read. `clocking`, `two_readers`, `live_two_readers` and `exits_live` start more
transfers than `XFERS`, so the table is reused and the writer really waits for
acknowledgements.
A second reader slot exposes every point of the loops over readers; a third only
repeats an iteration. With two readers and two slots, a reader can find both
slots taken after it passed `READ`, so `ConnectFailed` happens. Readers leave at
every point between blocks and the slot is picked up in mid-transfer (all runs of
`MCIpcBuf` and `MCIpcBufExit` but `clocking` and `live_two_readers`).

In `io_stream` calls of 3 bytes on blocks of 2 start and end at every place in a
block, 7 bytes wrap a ring of 6, and the second opening finds a transfer in the
table. In `pwc_observe` a buffer of 3 samples straddles blocks of 2 and is cut by
times that are 2 samples apart, so the state changes at the beginning, in the
middle and at the end of a buffer; 9 samples fill the Data Block while the reader
waits; 8 commands are a whole observation with header, clock, set_utc_start, rec_start,
rec_stop and stop and the beginning of a second, or one of header, start and stop and a
whole second one, so that what a first observation leaves to a second is seen (that a
start stopped at once spoils the next observation, section 8, takes 7). `CarefulClientErrors`
proves `ErrorsExplained` for any number of commands (section 7). In
`pwc_commands` 4 commands are enough to reach every action of the transfer thread,
error states on top of error states included.

Deadlock is not checked: when the bounds are exhausted a writer stops and its
readers wait for data, as the real ones do. Waiting that matters is what the
liveness properties are about.

*Symmetry.* `two_readers` permutes the readers, which only invariants are
checked under; slots are numbers and are not permuted.

*Mutants.* Operators marked "mutant" are faulty variants of the
definition that follows them (a wait that does not wait, a loop that serves the
first reader only, an end of data test that forgets the block number,
the rest of an instrument's buffer that is dropped...). `PROJECT.json` pairs every property of
every passing run with one that TLC shows to break it.

## 6. Fairness

`Fairness` has weak fairness on the steps of a call in progress, since a process
inside a call runs whenever no semaphore blocks it, and on the work of a reader,
since the reading programs (`dada_client_read`) loop over get, clear, reset
without end. A reader that disconnects now and then reads between two
disconnections: strong fairness on `GetNextRead`. Nothing makes a writer
begin a call, and nothing makes a process lock, leave or end.

`IpcIoStream` and `PwcMain` assume the same: a write in progress, a command thread
inside its call, the transfer thread and a reading client take their steps when
they can. That the transfer thread goes on includes that the instrument goes on
delivering buffers, up to the bound `MaxSample`; `StopHonoured` says nothing once
the bound is reached. Nothing makes a client send a command, or the writer of
`IpcIoStream` begin a call.

Two limits. With two slots and readers that leave, two readers can take turns on
one slot for ever while the other slot has none, so `TransfersRead` is checked
with readers that stay (`live_two_readers`) or with one slot (`exits_live`). A
reader that ends while it holds a block loses the block's `FULL` token
(`ipcbuf.c:1119`; the operation has no `SEM_UNDO`): its successor is one token
short and the transfer is not acknowledged until more blocks come. So
`exits_holding` claims only that what is delivered is right, not that all of it
is.

## 7. Proofs

`tlapm M.tla` checks the module `M` of each of the eight `...Proofs` modules. Those
about the ring hold for any sets of writers and readers and any values of the other
constants that satisfy `SizesAssumption`, `BoundsAssumption`, `ProcessAssumption`.

`IpcBufProofs`

- `TypeCorrect`: `Spec => []TypeOK`. The types are inductive only with `Control`
  (which program points and states go together: an action that indexes a
  semaphore with `iread` needs the reader to be connected).
- `LockExclusion`: `Spec => []Exclusive`. The invariant is
  `LockInv = TypeOK /\ Control /\ LocksHeld /\ Exclusive`. `LocksHeld` says that
  a lock that someone holds is at zero and that no lock exceeds one; without it
  a state in which a slot is taken but its semaphore is not would let a second
  reader in. `Connected` ends at the first step of `ipcbuf_unlock_read`, which
  frees the slot, not at the second, which frees `READ`.

and, for specifications in which the writer does not call
`ipcbuf_reset` (`MaxReset = 0`):

- `AcksCount`: `Spec => []AckAccounting`, with
  `AckInv = LockInv /\ StatesAgree /\ NeverReset /\ AckAccounting`. `StatesAgree`
  ties the states private to the processes to the shared `w_state` and
  `r_states`, which the code never compares: a reader acknowledges SOD according
  to its own state, and the count is right only because no one else can have
  started the transfer of its slot.
- `ReadersNeverLapped`: `Spec => []NeverLapped`, from `AckInv` and the types.

With resets the accounting also needs that at a reset every slot has read every
transfer, which is not proved.

The next modules prove that the ring delivers what was written. The argument is in
`IpcBufRing`, in four layers, each inductive with those below it:

- `TableInv` (`IpcBufTableProofs`): which call a writer is in (`WriterOp`), that the
  history counts what `w_xfer` counts (`History`), and that an end of data already in
  the table lies in a filled block or in one about to be (`EndsFilled`). With the
  acknowledgements it gives `XferSlotValid`: `n % XFERS` is injective on the
  transfers between a reader and the writer (`ModDistinct`).
- `LayoutInv` (`IpcBufTableProofs`): transfers do not overlap (`Ordered`), where the
  writer is in them at each point of its loops (`PlaceOf`), and that it never has
  more blocks open than there are (`RoomOf`, `OpenBlocks`). `OpenEntry` says what the
  table says of the transfer being written: nothing, or the end of an older one, in a
  block before its start.
- `ReadInv` (`IpcBufReadProofs`): where each slot is in the transfers (`ReadPlace`),
  what a reader keeps to itself (`KnowsXfer`, `KnowsBlock`), and that the tokens of
  `FULL` are exactly the used blocks from the reader's place to the writer's
  (`FullTokens`). A reader trusts a token of `FULL` to stand for the next block of its
  transfer, or the first block of the next transfer; that this is so is what the
  number of tokens says, since semaphores do not name blocks.
- `RingInv` (`IpcBufReadProofs`): the tokens of `CLEAR` are the used blocks from the
  place up to which the writer has taken blocks back to the reader's (`ClearTokens`,
  `NoneLost`), `count` is 1 for the used blocks in the ring and 0 for the clocked ones
  (`Counts`), and the memory holds every block that is in the ring, the oldest one
  as long as someone needs it (`Contents`).

They hold for the clients `RingClients`, of which every condition is needed: with
`ipcbuf_reset`, `Overlap`, `SodAhead` or `SodOnOrigin` the properties are false
(section 8), and with `MaxOpen = NBufs` there is no block left for a
`ipcbuf_mark_filled` of nothing. `ipcio` keeps to them but for `Slips` `origin` and
`same_block`. The runs `clocking` and `two_readers` are instances,
and `RingInv` was model-checked, part by part, on such instances before it was proved.
From it follow, for any number of writers, readers, slots, blocks, open blocks,
transfers and entries of the table, and readers that leave and come back between
any two blocks:

- `TableDescribesTransfers`: `Spec => []XferSlotValid` (for this one `MaxReset = 0` is
  enough).
- `ReadersGetTrueBytes`: `Spec => []BytesTrue`; `ReadersSeeEveryEnd`:
  `Spec => []EodTrue`. A reader compares its block with `e_buf` of an entry whose `eod`
  is not lowered when the entry is used again; `OpenEntry` is why an old end is never
  taken for the new one.
- `RingInvariant`: `Spec => []RingInv`.
- `ReadersKeepTheirBlock`: `Spec => []BlockIntact`.
- `RingDeliversStream`: `Spec => StreamSpec`, the refinement of `BlockStream`. The
  mapping looks for the reader of a slot; `Mapped` says what it finds, from `RingInv`.
  `SodSet` is `Start`, `EodSet` is `End`, `Fill` and the `MarkFilled` of a clocked block
  are `Fill`, `GetBytes` is `Take`, `MarkCleared` is `Release`; all other steps leave
  the stream as it is (`SlotStays`). Besides `RingInv` it needs that no size passed to
  the ring exceeds a block (`SizesFit`).
- `RingConservesTokens`: `Spec => []TokensConserved`. `RingInv` says where every token
  is, block by block; the property adds `count` up over the ring, by a fold. That the
  sum is the number of used blocks not taken back is shown by induction over the ring:
  of the sets of places for which it is false a smallest one would be left, and
  removing a place from it leaves a smaller one (`LeastMember`, from the library's
  theorems on well-founded orders, takes the place of an induction theorem).

`IpcIoRing` states why the byte stream of `ipcio` is right, and the three modules after
it prove it. Blocks are numbered as they are obtained, and byte `i` of block `b` has the
address `b * BufSz + i`. `IoInv` has, besides the types,

- `HandleOK`: `Modes`, which states of handle and ring go with each mode and where a
  pending start may lie; and `Filling`, the block or blocks the handle holds. The hard
  case is `marked_filled`: after an `ipcio_stop` inside a block the handle still holds
  the block, which was handed over, and what is written next goes after its last byte.
- `RingOK`: `Table`, the transfers in order; `Place`, where the reader is in them and how
  large its block is; `Tokens`, what `FULL`, `CLEAR` and `count` stand for.
- `Data`: every byte ever written has an address, and addresses only increase
  (`Increasing`); the bytes of a transfer, and those since the last end of data, were
  written one after the other (`Run`, `Promised`); and the memory holds those that the
  reader has yet to clear, or that a start in the past may yet ask for (`Contents`).
- `Asked`, `Calls`, `LastRead`: the start still to be raised, the call in progress, and
  what was last read.

All but the last two are stated of a record, not of the variables, so that they can be
followed through a call that works on it in several steps: `ipcio_close` of a client that
holds blocks open is a stop, a fold over the blocks (`CloseBlocks`), a pending start and
giving blocks back. What the fold computes is again shown by a smallest counterexample
(`CloseBlocksIs`). The theorems hold for any `NBufs > 1`, `BufSz`, sizes of
reads and writes, and bounds on bytes, openings and seeks, for up to `XFERS` transfers (the
table of `IpcIo` is not reused; that reuse is safe is `TableDescribesTransfers`), and for clients
that commit none of the misuses of section 8 (`StreamClients`):

- `IoInvariant`: `Spec => []IoInv`.
- `StreamTypes`, `StreamCallsAccepted`, `StreamReadTrue`, `StreamLengthTrue`:
  `Spec => []TypeOK`, `[]CallsAccepted`, `[]ReadTrue`, `[]LengthTrue`.

With one block `CallsAccepted` is false (section 8). `IoInv` was model-checked on rings of
two and three blocks of one and two bytes before it was proved.

`PwcProofs`, for any clients, commands, sizes, instrument and failures (the last one for
a careful client):

- `ErrorsOnlyReset`: `Spec => ErrorsStay`. `dada_pwc_set_state` refuses to leave an
  error state but for idle (`Refused`), and of all the steps that set the state
  only `HandleIdle` asks for idle in an error state: `StopTransfer` tests for it
  first. Of the invariant no more is needed than that `dada_pwc_t` has its fields
  (`Shape`).
- `OneClientAwake`: with at most one client, `Spec => []MainAwake`. `AwakeInv` adds
  that only clients and the transfer thread wait, and that the latter waits in
  `dada_pwc_command_get` and nowhere else. A client that sets a command is awake,
  so with one client the transfer thread is the only one `pthread_cond_signal` can
  wake. `pwc_wakeup` is the counterexample for two.

- `StateIsThatOfData`: `Spec => []StateMatchesData`. `MatchInv` says, of every place
  of the transfer thread, how it has the Data Block open and which states are possible
  there, and that commands are carried out only in such places. `Handle` types the part
  of the Data Block's handle that decides it. The functions of `ipcio` fold over the open
  blocks (`CloseBlocks`); but this
  client opens none, so `buf_ptrs` is empty (`NoBlocksOpen`) and the fold returns its
  argument.
- `PwcMainTypes`: `Spec => []TypeOK`, which also says that no call of `ipcbuf` on the Header
  Block fails, that no token count of the Data Block is negative, and that the bytes left to
  write are those up to the byte of the command. (Errors on the Data Block are cleared where
  the caller returns from the call; it tests for them except in the rest of a buffer.) Its strengthening `TypeInv` has four parts.
  `ControlType` types `dada_pwc_t` and the calls. `TransferType` says how `total`, `transit`
  and `to_write` belong together, that a buffer fetched never exceeds what is to be written,
  and that nothing is left where the rest of a buffer is written. `DataType` types the Data
  Block: the table of transfers has one entry more than `w_xfer` exactly while its writer is
  `WRITING`, and the states of the handle agree with that (`RingType`, kept by every function
  of `ipcbuf` and `ipcio` that the transfer thread calls). `HeaderBlock` says that the Header
  Block is taken before it is handed over. That a token count never becomes negative follows
  from the guards of the steps that wait (`GetReady`), also where `ipcbuf_mark_filled` takes
  the block after a transfer that ends on a block boundary (`EndOfDataType`).
- `CarefulClientErrors`: `Spec => ErrorsExplained` for one client that keeps the rules
  `any`, `toggle`, `short` and `timed` (`Careful`; `hasty` is not needed) and a Data Block of
  two blocks or more; for the header blocks, sizes, times, buffers and failures any values.
  `ExplainInv` adds to `TypeInv` and `MatchInv` that, unless a function of the instrument
  has failed, or the Data Block was full (`Dead`) or the thread has gone (`Gone`), the
  transfer is where the client thinks it is (`Alive`). It is `Resting` between transfers,
  `Waiting` for a command, `Starting`, `InFlight` or `Stopping`; a command in the slot, or
  one a client is about to put there, is one that the transfer thread can still carry out
  when it gets to it (`Posted`), because the transfer moves on between the two only in ways
  that keep it so (`PostsStay`). What keeps the calls of `ipcio` from failing is where the
  handle is in the ring, `Position`: which blocks it holds and where a pending start lies;
  every function of `ipcio` is shown to succeed from it and to keep it (`StartSound`,
  `StopSound`, `CloseSound`, `WriteFullSound` ...). `Memory` does the same for the Header
  Block. Each error path of the transfer thread is then excluded or is `NoRoom`.

Only model-checked: liveness (`CallsReturn`, `TransfersRead`, `TransfersEnd`, `WritesReturn`,
`RecordingsRead`, `StopHonoured`: out of the prover's reach); everything under `ipcbuf_reset` and when processes end
(`IpcBufExit`); and in `PwcMain` what depends on the contents of the two
blocks (`StreamExact`, `HeaderTrue`, `RecordedAsAsked`).

## 8. Disagreements with comments and documentation

The first four have a run in which TLC finds the violation. All lie outside what
the clients of the passing runs do.

- `sod_on_origin` (`ipcbuf.c:642`): `eod` is lowered at SOD only while no block
  has been filled. A transfer that starts on block 0 after block 0 was clocked
  keeps the initial `eod = 1`, `e_buf = 0` and ends for the reader at its first
  block. `ipcbuf.h:196`: "Test if the current buffer is the last buffer containing
  data".
- `pwc_header` (`dada_pwc_main.c:407`): with more than one header block (`dada_db`
  makes eight) `rec_start` obtains a second one, copies the header there and sets
  its `UTC_START`, but `ipcbuf_mark_filled` hands over the first: the reader's
  header has the time at which clocking began. `dada_pwc_main.c:415`: "on a
  REC_START we will change the UTC_START in the outgoing header to be UTC_START +
  OBS_OFFSET, to ensure uniformity across PWCs".
- `pwc_wakeup` (`dada_pwc.c:235`): with two connections the signal for a new command
  may wake a client that waits for the slot, since `dada_pwc_command_get`, which
  empties it, signals nobody; a refused change of state (`stop` when idle) signals
  nobody either. The transfer thread sleeps on a command. `dada_pwc.h:188`: "Get
  the next command from the connection; wait until command received".
- `pwc_toggle` (`dada_pwc_main.c:447`): `header_valid` is not cleared by `rec_stop`, so
  the second recording between clock and stop has no header and a client that
  waits for one never reads it. `doc/pwc.tex:156`: "the state can be toggled between
  clocking and recording".

Seen in `IpcBuf` and `IpcBufExit` by setting constants that no run sets:

- `Overlap = 2`, invariant `BlockIntact` (`ipcbuf.c:742`): when a transfer starts
  several blocks before the end of the previous one, `CLEAR` tokens of one block are
  taken for another and a block still to be read is handed out. `ipcbuf.h:140`: "Get
  the next empty buffer available for writing".
- `MaxReset = 1`, `MaxXfer = 3` with `XFERS = 2`, `EodTrue` (`ipcbuf.c:1467`): `ipcbuf_reset`
  raises every `eod`, keeps every `e_buf` and counts blocks from zero, so the second
  transfer after a reset may end where an older one ended. `ipcbuf.h:219`: "Reset the
  buffer count and end of data flags". Writers no longer call it: the call in
  `ipcio_close` is commented out (`ipcio.c:263`), and only `test_ipcbuf.c:247`, after
  the last transfer, is left; so no run starts two transfers after a reset.
- `Overlap = 1` with `UseZero`, `BlockIntact` (`ipcbuf.c:797`): `ipcbuf_zero_next_write`
  takes one `CLEAR` token of every reader for a free block, but a block that two
  transfers share needs two. `ipcbuf.c:777`: "memset the contents of the next write
  buffer to zero, after it has been marked cleared".
- `Peeking`, `PeekLeavesNoTrace` (`ipcbuf.c:1139`): `ipcbuf_get_next_readable` leaves the
  slot in `READING` when its process has gone. `ipcbuf.h:181`: "Gets the next full
  buffer, but does not modify any aspect of the ring buffer". What later readers
  receive is still right (`exits_holding`).
- `MaxOpen = NBufs`, `BlockIntact` (`ipcbuf.c:888`): with every block of the ring open, an
  `ipcbuf_mark_filled` of no bytes that ends a transfer takes one block more and hands out
  one that a reader may still have. `ipcio_open_block_write` allows `nbufs - 1`
  (`ipcio.c:34`).
- `SodAhead = TRUE`, `CallsReturn`: SOD on `w_buf_next` while a block is open passes the
  check at `ipcbuf.c:595` and makes `new_bufs` (`ipcbuf.c:667`) negative; the call takes
  from `FULL` and may wait for ever.
- `ipcbuf_lock_read` can fail although a slot is free (`ConnectFailed`,
  `ipcbuf.c:1017`): slots are tried once each, and freed and taken meanwhile.
- The slots are tried by `r_bufs` (`ipcbuf.c:970`), not "based on xfer number"
  (`ipcbuf.c:961`).
- `ExitHolding` with `"cleared"`: a reader that ends between the `CLEAR` operation
  and the increment of `r_bufs` (`ipcbuf.c:1342`) leaves a slot whose next reader
  counts from a block that may already have been handed out, and `BlockIntact`
  fails.

Seen in `IpcIoStream` with `NBufs = 1`:

- a start asked for ahead of the writer is raised when its block has been filled
  (`ipcio.c:169`); in a ring of a single block that is too late for `ipcbuf_enable_sod`
  (`ipcbuf.c:603`), so the write that filled it fails. `doc/ipc.tex:265` states no
  minimum for `nbufs`.

Seen in `IpcIoStream` with the `Slips` named:

- `same_block`: a transfer that starts in the block in which the last one ended finds
  the end of that one, although `doc/ipc.tex:391` describes such starts.
- `stop_early`: a start that is pending when data are stopped stays pending and is
  raised by the next transfer's blocks (`ipcio.c:254` resets `rdwrt` only).
- `empty_block`: `ipcio_close_block_write(0)` on a full ring waits for a block of its
  own (`ipcbuf.c:888`).
- `clock_only`: `ipcio_close` before any transfer leaves `w_buf_next` ahead of
  `w_buf_curr` (`ipcio.c:275`).
- `ipcio_stop` after `ipcio_update_block_write` never returns: its loop over the open
  blocks ignores the error of `ipcio_close_block_write` (`ipcio.c:217`, excluded by
  `ClosesBlocks`).

Seen in `PwcMain` with `Slips` or other constants:

- a `rec_start` for samples no longer in the Data Block starts later, but the header
  keeps the time asked for (`dada_pwc_main.c:390`, the field `late` of `asked`);
- a recording by start that is stopped before `set_utc_start` leaves a transfer without
  a header, and the next header is paired with it;
- a second observation by start that is stopped before its first block (`short`) leaves no
  transfer in the ring, but its header was handed over (`dada_pwc_main.c:326`), so the
  next recording is read with that header;
- stopped by `rec_stop` instead, it leaves the writer in `WCHANGE` (`ipcbuf.c:719`): the
  next block that is only clocked raises SOD, and the next transfer that is
  to be clocked finds `w_state` set, takes it for `WRITING` (`ipcbuf.c:491`), and
  `ipcbuf_disable_sod` is refused (`ipcbuf.c:544`), a hard error;
- two changes of state with no buffer in between write beyond the end of the
  instrument's buffer (`dada_pwc_main.c:924`; `hasty`);
- an error of the write of the rest of a buffer is not noticed, because the -1 is
  compared with an unsigned number (`dada_pwc_main.c:942`);
- start with a duration (`Slips = {"timed"}`, `ErrorsExplained`) ends in a hard error
  (`dada_pwc_main.c:904`), though `doc/pwc.tex:28` has it "record for the time specified";
- a second `set_utc_start` is ignored, but takes the place of a dated command that was
  waiting to be carried out (`dada_pwc_main.c:542`);
- a `clock` accepted when prepared and carried out after a `stop` fails with a soft
  error; `quit`, `header` and `set_utc_start` act on `dada_pwc_t` although they are
  refused;
- a command without a time before any byte was written counts one byte that was not
  (`dada_pwc_main.c:634`).

## 9. What is left out, and the plan

Of the ring buffer: viewers (`ipcbuf_get_next_read` of a process that is not a
reader), `ipcbuf_hard_reset`, creation and removal of the shared memory, locking
and paging of pages, and the functions that only read a field. Errors of the
semaphore system calls themselves are not modelled.

Of `ipcio`: reading as a viewer (mode `r`), `ipcio_zero_next_block`, CUDA copies, and a
reader that disconnects in the middle of a transfer (see `IpcBufExit`).

Of the primary write client: `dada_pwc_main_transfer_data_block` (blocks filled in place),
`dada_pwc_main_process_xfer` (several transfers in one observation, used by one
instrument), retries by an `error_function`, `dada_pwc_main_multi`, the command server
and the parsing of commands and headers. Of `dada_client`: writing clients, limits on
the bytes of a file, the functions a program supplies.

The nexus, `dada_dbevent`, the logging, disk and text utilities, the programs, the
transports and the instruments have no module. The last three are most of the
repository's lines: main programs, signal processing and hardware access with little
state of their own beyond the library modelled here.

In order:

1. `Nexus`: nodes that fail, are reconnected in a thread of their own and miss commands;
2. `DbEvent`: overlapping events extracted from a clocked ring;
3. the block mode of the primary write client, over the block operators of `IpcIo`;
4. viewers, in `IpcBuf`: a process that polls `w_buf_curr` without semaphores;
5. theorems: the accounting under reset; exclusion and intact blocks when processes
   end (`IpcBufExit`); `StreamExact`, `HeaderTrue` and `RecordedAsAsked` of `PwcMain`,
   from `ExplainInv`.
