# zero_strm in TLA+

A verification project for zero_strm, a byte stream over a UART and two DMA
channels for small microcontrollers: TLA+ modules translated from the C source,
TLC configurations that check them on small instances, and proofs for TLAPS.
Line numbers refer to the files under `src/` of the repository.

## The system

One main program and four interrupts share two stream objects. Nothing is
persisted and nothing is dynamically allocated: each stream carves a buffer of
the user's into blocks and passes the blocks around.

| component | source | state | operations |
|---|---|---|---|
| block manager | `src/common/block` | free list (stack), FIFO with head and tail, a link and a size in each block | `free`, `new`, `append`, `fetch` |
| byte FIFO | `src/common/byte_fifo` | buffer, size, head, tail, length | init empty, init full, enqueue, dequeue, is empty |
| transmit stream | `src/zero_strm/zero_strm_write` | `bBusy`, block being filled, block being sent, block lists, ring, three FSM objects | `zero_strm_write`, completion handler |
| receive stream | `src/zero_strm/zero_strm_read` | `bBusy`, `bUartIdle`, timer, counter at idle, channel's block, block lists, ring, three FSM objects | `zero_strm_read`, half-transfer, idle and timer handlers |
| example program | `example/Project/main.c` | the two streams, the DMA channels' registers | echo loop, DMA callbacks, interrupt entries |
| simple FSM | `src/common/utilities/simple_fsm.h` | `chState` of an FSM object | a call resumes at `chState`; `update_state_to` goes on at once, `fsm_cpl` resets |
| tiny FSM | `utilities/tiny_fsm.h` | the next state's function, one static parameter record per call site | call, transfer, end |
| queue template | `utilities/template/t_queue.h` | a ring with head, tail, peek position and two counters | init, enqueue and dequeue of items, blocks and references, peek |
| pool template | `utilities/template/t_pool.h` | free list, count of allocated items | add heap, new, free |
| list template | `utilities/template/t_list.h`, `t_list.c` | links | stack push and pop, queue enqueue, dequeue and remove, find |
| delegate | `utilities/delegate.c` | ready list, blocked list, a cursor into them | register, unregister, invoke |
| critical sections | `utilities/arm/signal.c`, `arm/signal.h`, `avr/signal.h` | interrupt mask, lockers | enter and leave a section, `enter_lock`, `leave_lock` |
| preprocessor library | `utilities/preprocessor` | none at run time | number to text, repetition, `using`, `foreach` |
| the rest | PLOOC, ports, packaging | none | |

The streams use the block manager, the byte FIFO, the simple FSM and
`__IRQ_SAFE`; the other parts of `utilities` are a library shipped with them.

How they interact. **Transmit**: the main program stores bytes through the ring
into a block; when the block is full it appends it to the FIFO, claims `bBusy`
with interrupts masked, and if it got the claim fetches the first block and
starts DMA channel 4. The completion interrupt frees the block, drops the claim
and runs the same flush FSM to start the next block. The two contexts share the
lists, `bBusy`, `ptFifoSend` and the blocks. **Receive**: DMA channel 5 stores
the line's bytes into a block. Half a block raises the half-transfer interrupt,
which flushes: it takes a free block, records how many bytes were stored,
appends the block and starts the channel on the new one. An idle line raises
another interrupt, which records the channel's counter and starts a timer; the
timer's expiry flushes if the line is still idle and the counter where it was.
The main program fetches blocks and reads them through the ring.

What is hard: the interrupt falls between, or inside, any two steps of the main
program; the lists are changed by both without masking; a wake-up can be lost
between append and claim; the DMA channel runs while its counter is read; a
counter stands for "no byte came"; the pool runs out; the initialisers narrow a
count to eight bits. What makes the parts correct:

* block manager: it is a stack and a queue, no block is lost or in two places;
* byte FIFO: indices stay inside the buffer, full and empty are told apart;
* transmit: bytes leave in the order written, each once; the channel has one
  owner; a queued block is sent without another call; `false` means full;
* receive: bytes are returned in order, each once; every byte is returned in the
  end; `false` means nothing queued; an idle timeout is not mistaken;
* initialisers: every block they count is in the pool or in use, none twice;
* example: what comes in goes out, in order, or is counted as dropped;
* simple and tiny FSM: a new run never resumes an old one; an inner machine ends
  before its caller goes on; a section shared by instances has one inside;
* queue: it is a bounded queue with a peek position, in every result;
* pool, list: the chains end, are disjoint and lose nothing;
* delegate: a handler is on one list, once, and gets its turn;
* critical sections: nesting restores the mask, a locker has one owner.

## Modules

| module | what it is |
|---|---|
| `ByteFifo` | the ring's descriptor and operations, as operators |
| `Null` | the null pointer |
| `BlockPool` | the list calls as operators on sequences |
| `Links` | lists threaded through links: following them, and being one |
| `BlockStore` | abstract: a stack and a queue of blocks, one call at a time |
| `BlockList` | the block manager pointer by pointer, called from two contexts |
| `ByteChannel` | abstract: a bounded byte pipe |
| `StreamWrite` | the transmit stream with its interrupt and DMA channel |
| `StreamRead` | the receive stream with its interrupts, line and DMA channel |
| `StreamReadNested` | `StreamRead` with the channel's interrupt preempting the timer's |
| `StreamInit` | both initialisers, for buffers of any size |
| `Echo` | `main.c`: both streams composed, and the loop between them |
| `BoundedQueue` | abstract: a bounded queue with a peek position |
| `Queue` | `t_queue.h` |
| `ListMacros` | `t_list.h` and `t_list.c`, as operators on links |
| `Pool` | `t_pool.h`, and a program that writes to its items and queues them by `t_list.h` |
| `Delegate` | `delegate.c` |
| `Locker` | critical sections and lockers, with preempting handlers |
| `CodeRegion` | the loops that `code_region`, `using` and `foreach` expand to |
| `SimpleFsm`, `TinyFsm` | the two kinds of state machine |
| `Preprocessor` | decimal text and `MACRO_REPEAT` |
| `Lists_proofs` | lemmas on sequences without repetition and on linked lists |
| `StreamWrite_proofs`, `StreamRead_proofs`, `StreamInit_proofs`, `BlockList_proofs`, `Echo_proofs` | lemmas and theorems of these modules; `StreamReadNested` is with `StreamRead` |
| `Templates_proofs` | of `Queue` and `Pool` |
| `Utilities_proofs` | of `SimpleFsm`, `Locker`, `CodeRegion`, `TinyFsm` and `Delegate` |
| `MCParts` | the modules from `StreamInit` on that share no state, as one instance (see Runs) |
| the other `MC...` | instances for TLC |

`StreamWrite` and `StreamRead` extend `BlockPool` and `ByteFifo`, refine
`ByteChannel`, and take a list call as one step. `Echo` extends `StreamRead` and
takes `StreamWrite` as an instance, each with its own pool, ring and channel.
`StreamInit` ends where the two begin. `BlockList`, `ListMacros` and `Delegate`
extend `Links`. `Pool` is made of `ListMacros`, `Queue` refines `BoundedQueue`.
`BlockList` refines `BlockStore`, which is what makes one step of a list call
right when no call is interrupted. The code does not mask interrupts round the
list calls, so everything said of the streams holds *under that assumption*; what
happens without it is the run `block_list_writer`.

How state and actions correspond to the code. Variables keep the C names. The
content of a byte is the number of the byte in the stream, so that order, loss
and repetition show in the data. `chState` is the FSM object's state, `pc` (and
`isr`) the place of the running call, `"idle"` (`"none"`) outside. A call of an
FSM runs through several states before it returns; each state is an action, and
so is each point between two accesses to data another context changes. An
`__IRQ_SAFE` block is one action. The DMA channels appear by what the callbacks
of `main.c` program into them: address, bytes left, flag.

* `StreamWrite`: `CallWrite`, `EnqueueByte`, `BlockIsFull`, `NewBlock`,
  `RefuseByte` are `enqueue`; `AppendBlock`, `ClaimDma`, `FetchBlock`,
  `ReleaseDma`, `StartDma` are `stream_write_flush` in the main program;
  `SendDataCpl` is the handler with its whole flush (nothing preempts it).
  `init_fsm` of the flush FSM is part of entering `APPEND`.
* `StreamRead`: `FlushGetBlock`, `FlushNothing`, `FlushCount`, `FlushSwitch` are
  `stream_read_flush` in an interrupt, cut where the channel may store a byte.
  `TickIrq` is the timer interrupt with the whole `time_out` FSM. That FSM and
  the flush share one object (`zero_strm_read.c:57-60`), so the flush resumes in
  the timeout's own `FLUSH`, which it reads as its `GET_BLOCK`: the claim of
  `bBusy` is skipped. After a timeout's flush `bBusy` is what it was.
* `BlockList`: one action per load or store that another context can tell. Where
  C names a shared pointer twice, reloading it and keeping it in a register are
  both allowed. A dereference of NULL stops the model (`fault`).
* `StreamReadNested`: the timer's test and the flush, cut at every load and store
  of what two flushes share: the count, the size, the load of the block to append,
  the append, `fnDmaStartRx` and the record are actions of their own.
  `DmaHalfPreempts` is the half-transfer handler taken between any two of them,
  while the timer's handler runs (`byTimer`); its place, block, count and loaded
  block (`ptLoaded`) wait in `preempted` until `TimerResumes`. The flush FSM's
  variables are per object, everything else is shared. `cutIn` is a history
  variable: the handler came in where it does harm. The model ends where a block is
  linked behind itself, as sequences then no longer describe the list.
* `StreamInit`: one action per iteration or statement; the receive channel works
  from `TakeDmaBlock` on, so bytes and the half-transfer interrupt fall between
  the later ones.
* `Echo`: `ReadCall` and `WriteCall` are `main`'s loop with `stdout_putchar`.
* `Queue`: a call is one action, as it keeps interrupts out. `result` is what the
  caller gets, `ref` what `dequeue_ref` left in a caller's hands.
* `Delegate`: the cursor is the name of the link it points to. An invocation is
  two actions, so that the handler can change the lists in between.
* `Pool`: an item's first word is its link and the program's data in turn. The
  program's queue is there because an item that comes out of it still has a link
  in that word, which is what `pool_free` tests.
* `Locker`: reading the mask, setting it, the locker's test with the mask set,
  and restoring are steps of their own; handlers come in wherever the mask
  allows. The unmasked test in `enter_lock` is one step with the reading of the
  mask that follows it: a handler between the two leaves the mask as it was, so
  that it can as well come after both. Handlers start with interrupts enabled, as
  on a Cortex-M; on the AVR, whose macros are in the model too, they start so
  only once they have set the I bit. A section's saved state is in its entry of
  `regions`.
* `CodeRegion`: a step per expression of a `for` statement; `Body` chooses how the
  user's statement ends (`WaysOut`).
* `SimpleFsm`: an action is one way out of one state; machine `m` calls machine
  `m + 1` from `CALLS`. `TinyFsm`: an action is one call of one instance of the
  example that the header gives in a comment, expanded by the header's macros.
  `Preprocessor`: one expansion is one step.

A definition named `Bad...` is a faulty variant of the one after it. No action
uses it: it is what the properties must be able to reject.

## Runs

| run | bounds | what it shows |
|---|---|---|
| `block_list` | 3 blocks, every call from both contexts, none interrupted | the linked lists implement `BlockStore` (`StoreSpec`); between calls the tail ends the chain (`TailIsLast`) |
| `block_list_writer` (violation) | 3 blocks, the writer's calls, interrupts anywhere | a block appended while the handler fetches the last one is linked to a fetched block: lost, and every later one with it |
| `write_safety` | 3 blocks of 4 bytes (the size of `zero_strm_cfg.h`), 25 bytes, fair | ownership, claim, no lost wake-up, data in place and in order, `false` means full, `ByteChannel` refined; queued bytes are sent, a refused byte is accepted when retried |
| `write_partial` (violation) | 2 blocks of 2, 3 bytes, fair | accepted bytes stay in the block being filled for ever |
| `read_safety` | 3 blocks of 4, 7 bytes, prompt interrupts, a free block at every byte | `false` means nothing queued, the timeout is not mistaken, `ByteChannel` refined |
| `read_late` | 3 blocks of 4, 6 bytes, interrupts at any time | bytes may be lost, never repeated, reordered or invented; blocks keep one owner, queued ones hold bytes |
| `read_overrun` (violation) | 2 blocks of 4, 6 bytes, pool may run out | the second flush of the same block returns bytes twice |
| `echo` | reads 3 blocks of 4, writes 2 of 1, 3 bytes, fair | from line to line in order, drops only when full, every byte reaches `zero_strm_write` |
| `read_nested` | 5 blocks of 4, 4 bytes, two free at every byte, one flush inside the other at any load or store | blocks keep one owner, but for one window of the code |
| `read_nested_once` (violation) | 4 blocks of 4, 5 bytes, one flush inside the other | the preempted flush queues the wrong block, with a size that is not its |
| `region_null` (violation) | arrays of 1 and 3, the NULL region and one other, every way out | `code_region(NULL)` does not run its body |
| `parts` | below | what each of nine parts promises |

`parts` checks nine modules that neither call one another nor share a variable.
A behaviour is one of the part that `part` names, chosen at the start; the other
parts rest in one initial state. What is checked is the union of nine state
spaces, not their product, and no property relates two of them. `MCParts`
extends the parts, whose variables, constants and specifications have names of
their own; `MCParts.cfg` gives the constants their values (`Length`, a sequence,
through `Strings`). `Preprocessor` alone is an instance.

| part | bounds | properties |
|---|---|---|
| `Queue` | buffers of 1 to 3, 2 items, blocks up to 3 | `BoundedQueue` refined in every result (`QueueSpec`); references last as long as they can (`RefStaysIntact`) |
| `SimpleFsm` | 5 machines of 4 states | no stale run is resumed (`InnerStartsFresh`); an inner machine has completed once when its caller goes on (`LeavesCompleted`) |
| `Pool` | 4 items added in up to 4 pieces, a count of 2 bits | free list and queue survive what the program writes (`ListsWhole`) |
| `Delegate` | 3 handlers, 7 changes, by running handlers too | lists and cursor stay together (`ListsAndCursor`), handlers take turns (`NoneOvertaken`) |
| `Locker` | main and 2 handlers, 2 sections nested in each | the mask is the nesting (`MaskIsNesting`), a locker has one owner (`LockExclusive`) |
| `TinyFsm` | 5 instances, strings of 0 to 7 | strings come out whole (`StringsWhole`) |
| `CodeRegion` | arrays of 1, 2, 3 and 6, 2 regions; `foreach` left in every way, `using` and `code_region` by their end | entered once, run once, left once, every element once (`BodyRunsOnce`) |
| `Preprocessor` | 32 values, both ends of eight bits and past them, fair | `MACRO_REPEAT` repeats as often as the value says, in order (`Repeats`) |
| `StreamInit` | blocks of 12 and 24 bytes; 11 sizes from none to 257 or 258 blocks; 8 early bytes | ready, or failed for a known reason (`InitOutcome`) |

Bounds. Three blocks let one be filled, one queued and one sent (transmit), or
one read, one queued and one filled (receive), and the pool be empty; 25 writes
take the pool round twice. Four bytes in the receive stream's block put the
half-transfer flag strictly between empty and full. A timer of two ticks in
`read_safety`, `read_late` and `echo` (one in the rest) can be restarted by
another idle interrupt when it has half run down.
`MaxBytes` bounds the bytes of a behaviour and is the only bound on the
specifications themselves; the proofs drop the others.
The library's bounds are the least at which its cases occur: rings that wrap at
every slot, three handlers so that one can go from before, at and behind the
cursor, a pool count that wraps, handlers on two levels. `MaxChanges` bounds the
calls that change a delegate, `MaxNest` the sections open at a time, `MaxBlock`
the items of a block call, `EarlyBytes` the bytes that come in during
initialisation; the last is half a receive block, the least that interrupts.
Five blocks in `read_nested` are one read, one queued, one filled, and one for each
flush; of four bytes two raise the half-transfer interrupt and two come before or
after the flushes.
In `echo` three bytes are enough for a block flushed by half, one flushed by
timeout, and a third byte against two full transmit blocks: a refusal and a drop.

Environment. `ReaderKeepsUp`: a byte arrives only while a block is free. In
`StreamReadNested` it means two free blocks (`RoomForTwo`), as two flushes take
one each. `IsrIsPrompt`: no byte arrives during a flush, nor on a full block.
They are constants, so that each run says which of the two it needs. Receive
interrupts do not preempt one another except in `StreamReadNested`, nor the
completion interrupt and they each other in `Echo`. `Registers` and `Nested` say
what a program does to a delegate: in `parts` it registers handlers that are on
no list or inside one, and running handlers unregister others. (A handler that
unregisters itself and then asks to stay is `Nested = {"leave"}`: the next one is
skipped once. The other values are findings 6 and 7.) `ATOM_CODE` of the AVR
saves no state; programs are taken to use it outside every other section. `Exits`
says how bodies under `using` and `code_region` are left other than by their end;
it is empty in `parts`, as in every use in the repository. With `"break"` or
`"return"` in it `OnLeave` is skipped, and `BodyRunsOnce` fails.

Fairness. Transmit: a call runs on once made (the main program executes), the
channel shifts, a raised flag interrupts, and a caller that got `false` calls
again; no call is ever forced otherwise. Receive: the line goes idle after its
bytes, raised interrupts are served, the timer ticks, the main loop polls; no
byte has to come. Weak fairness suffices: none of these is disabled again by
another before it acts, except the timer, which a new idle interrupt restarts,
and there are only finitely many. `Echo` adds that `main`'s loop goes on; its
receive side is the one described. `Preprocessor` expands until nothing is left.
The other parts have no liveness property and no fairness.

## Findings

1. Interrupts inside list calls (`block_list_writer`). The handler's `fetch` and
   `free` run against `append` and `new` of the main program with no masking. In
   the trace TLC prints, `append` saw a non-empty queue (`zero_strm_block.c:56`),
   the handler fetched its last block, and `append` linked the new block to it:
   head stays NULL, tail is set, nothing appended later is ever fetched.
2. Partial blocks are never sent (`write_partial`). Only the write that finds
   the block full queues it. `fsmFlushManual` is initialised
   (`zero_strm_write.c:49`) and no code runs it.
3. Overrun (`read_overrun`). A flush without a free block queues the channel's
   block and leaves the channel in it (`fsm_dequeue.c:193-198`); the next flush
   queues the block again with all its bytes.
4. Nested flushes (`read_nested_once`). The half-transfer handler clears `bBusy`
   (`zero_strm_read.c:86`) and flushes although the timer's flush holds it. The
   inner flush changes `ptByteFifoDmaRx`; the outer one queues what it finds
   there. In the trace TLC prints the handler comes in after `update_data_cnt`
   (`fsm_dequeue.c:192`), so the outer flush appends the block the channel was
   just given, with a whole block's size, and bytes that never arrived are read.
   Blocks keep their owners all the same, except where the handler comes in
   between the load of `append`'s argument (`:193`) and the record of the new
   block (`:196`). There the inner flush appends the block that the outer one has
   appended or is about to, and the outer one's record overwrites the inner
   one's, whose block no owner is left for. `NestedConserved` says that there is
   no other such place (`read_nested`). Masking from `:193` to `:196` would be
   enough for the blocks, but not for the bytes; with the count (`:184`) inside
   the section too, TLC finds neither violation any more at the bounds of
   `read_nested_once`.
5. `code_region(NULL)` (`region_null`). The header promises
   `DEFAULT_CODE_REGION_NONE` (`arm/signal.h:67-68`), whose enter and leave do
   nothing; the loop of `arm/signal.h:186` is over before it starts, and the body
   is skipped.

Met while modelling, in the modules but in no run of their own:

6. A delegate takes `ptNext = NULL` for "on no list" (`delegate.c:136`): the last
   handler of a list, registered again, is linked in front of itself and the list
   becomes a ring. With `"last"` in `Registers`, `ListsAndCursor` fails.
7. A delegate's cursor is used after the handler ran (`delegate.c:208`): the first
   handler of the list, having registered another and finished, takes the new
   one out for itself. With `"register"` in `Nested`, `ListsAndCursor` fails.
8. Finding 1 holds in the receiver too: `free` of the main program against the
   flush's `new`, `fetch` against its `append`. `BlockList` with
   `MainOps = {"free", "fetch"}` and `IsrOps = {"new", "append"}` loses a block.
9. The block count has eight bits (`zero_strm_write.c:22`, `zero_strm_read.c:29`),
   `hwSize` sixteen: a buffer of 257 blocks is cut into one, one of 256 into none.
   `BlocksReady` says it by `chCnt`, which `StreamInit` computes as the code does.
10. `main` drops a byte that `zero_strm_write` refuses (`main.c:92`);
   `DropsOnlyWhenFull` says when.
11. `LIST_QUEUE_REMOVE` removes the head (`t_list.h:90`): `list_find` moves a copy
   of the pointer, and the macro dequeues through the original. `QueueRemove` of
   `Pool` does the same. No file of the repository uses the macro.
12. A pool's `free` of an item whose first word is not NULL does nothing and says
   nothing (`t_pool.h:135`): what comes out of a queue before its last item is
   lost to the pool. `lost` counts them.

Met while reading, not modelled: README.md:286-292 calls the half-transfer
handler on the channel's transfer-complete flag, `main.c` on its half-transfer
flag, which the models follow. `t_pool.h:173` (`return NULL:`), `LOCK` and
`LOCK_CHECKER` of `arm/signal.h`, `EXIT_CODE_REGION` and `foreach3` do not
compile when used. `MFUNC_OUT_DEC_STR` drops the hundreds digit of values from
300 on. A last ready handler that leaves by `EVENT_RT_UNREGISTER` makes the next
invocation start over with the blocked handlers, so that completion is not
reported (`delegate.c:265`). The bottom item of a pool, freed twice, is not
recognised.

## Proofs

Every invariant and every action property or refinement that a passing run checks
is a theorem too, for all values of the constants; the liveness properties are
not (see the end of this section). `Spec`, `ReaderKeepsUp` and the rest are those
of the modules. What the theorems assume:

| theorems of | assumption | why |
|---|---|---|
| `StreamWrite` | `WriteAssumption`: a block at least, of a byte at least, NULL is no block | `InitOutcome` says when the initialiser gets there |
| `StreamRead` | `ReadAssumption`: two blocks, of two bytes; `ReaderKeepsUp`; for `TimeoutOnlyWhenQuiet`, `FalseMeansNoData`, `PipeSpec` also `IsrIsPrompt` | `read_overrun` shows the first is needed; late interrupts lose bytes |
| `StreamReadNested` | `ReadAssumption` and `ReaderKeepsUp`, here two free blocks at every byte; nothing on how late interrupts are or where they nest | with fewer a nested flush finds none: `read_overrun` again |
| `Echo` | both of the above and `EchoAssumption`; `ReaderKeepsUp` for `EchoInOrder` | |
| `BlockList` | `Preempts = FALSE`: no call is interrupted | `block_list_writer` is what happens otherwise |
| `CodeRegion` | `RegionAssumption`; no region is NULL, `Exits` is empty | finding 5; a body that breaks skips the leave |
| `Queue`, `Pool`, `SimpleFsm`, `Locker`, `TinyFsm`, `StreamInit` | their named `ASSUME`s: sizes that are not zero, markers that are no values | |
| `Delegate` | `DelegateAssumption` and `CarefulProgram`: the last handler of a list is not registered again, and running handlers only unregister others | findings 6 and 7, and the handler that leaves and asks to stay |

Each proof is an inductive invariant, one lemma per action, and a theorem that
puts them together. What the checked invariants lack to be inductive:

**Transmit.** `PoolInv`: types, `BlocksConserved`, `BusyOwner`, `NoStall`, and two
strengthenings. `RingOK` ties the ring to the block being filled and to its size
field; without it nothing says a queued block is whole. `ChannelOK` says that
every block but the one being filled has its full size, that the channel works on
`ptFifoSend`, and that the claim is dropped only with the queue empty; without it
the handler could free a block it does not own and `NoStall` would not survive
`ReleaseDma`. `BytesInPlace` and `SentInOrder` are inductive relative to it: the
rest of the block in the channel, the queue and the block being filled hold
exactly the numbers from `Len(sent) + 1` to `accepted`. `QueuedWhole` adds that a
queue of n blocks is n blocks' worth of bytes, from which `FalseMeansFull`
follows, and the capacity of the byte pipe: `PipeSpec` maps each step to one of
`ByteChannel` or to a stutter.

**Receive.** `ReadInv`: types, `BlocksConserved`, `QueuedHoldBytes`, and three
strengthenings. `ChannelFillsRx` says that the channel works on the block
recorded, which `StreamRead` sets in one step and `StreamReadNested` does not.
`RingRead` says that the ring is read from its start to its end, so that a byte
read lies in the block. `FlushOK` says that a flush which has found bytes holds a
whole block for the channel; without it the channel could stay on the block just
queued, as in `read_overrun`. Nothing is assumed of how late the interrupts are.
`CountsDown`, relative to it, gives `TimeoutOnlyWhenQuiet`: the timer compares
two values of a counter that a flush reloads, and while it runs with its note
taken no flush has begun. `OrderInv` gives what the reader gets: `RingInTurn`,
`QueueInTurn` and `ChannelInTurn` say that the rest of the ring, the queued
blocks and the channel's block are runs of the line, each after the one before
it, and `NoneAhead` that none has still to come. `After` is "later than", or
"next" where interrupts are prompt, so that the same invariant gives `ReadOnce`
in the one case and `ReadInOrder`, `FalseMeansNoData` and `PipeSpec` in the
other. The capacity needs `NoneAhead`'s bound of a block's bytes per queued
block.

**Nested flushes.** `NestedInv` adds to `NestedConserved`: types (`NestedTypes`),
what each of the two flushes has in hand at each of its steps (`FlushHolds`,
`BelowHolds`), and that bytes in the channel's block leave room for both
(`RoomLeft`), without which a flush could append a block and keep the channel in
it. `FlushHolds` is where the window shows: a loaded block is the channel's or,
if another flush has been in between, already queued; before `update_data_cnt`
that costs nothing but a size, before `append` it links the block twice. So all
but the types is stated up to that point, and that `cutIn` is set beyond it.

**Echo.** A step of `EchoSpec` is a step or a stutter of each stream
(`EchoReads`, `EchoWrites`), so both streams' invariants hold of it; the
transmit side's lemmas come through an instance of their module, whose assumption
follows from `EchoAssumption`. `EchoedInTurn` relates the two: what main passed
on was returned by `zero_strm_read`, in its order, and the byte it is about to
pass on is younger. `EchoInOrder` follows with `SentInOrder`.

**Initialisers.** `InitInv`: where the blocks are and how many, statement by
statement (`BlocksCut`, `BlocksPlaced`), and how the bytes that come in early
count down the channel (`ChannelCounts`).

**Linked lists.** `LinkedIn(S, next, list, p)` says that a sequence of nodes is
threaded through their links from `p` on. `Lists_proofs` proves that following
the links then finds this sequence (`LinkedIsList`), and what pushing, popping,
appending, removing and storing in another node do to it. `Linked` is a recursive
function; that it computes the sequence is an induction, which `SetInduction`
makes of the library's theorem on minimal elements, as those on induction itself
take an operator as a parameter.

* `BlockList`: `ListInv` is `OnePlace` (every block is free, queued, held or
  carried by a call, once) and `MidCall`, what the call under way knows after each
  load and store; `TailIsLast` is the case of no call. From it `NoBlockLost`, no
  dereference of NULL, and `StoreSpec`: each call is one operation of
  `BlockStore`, at the store that publishes it.
* `Pool`: free list and queue are two lists threaded through the items' own
  words. `PoolInv` says that they are disjoint and take up what is neither held
  nor lost, so that what the program writes reaches no link.
* `Delegate`: `DelegateState(f, q, d)` says that ready and blocked list are the
  sequences `f` and `q` and the cursor the link after `d` handlers, the running
  one next. `InTurn` is what `NoneOvertaken` needs: counting from the cursor on
  and round, the handlers that wait come before those called since. A handler that
  goes from before the cursor, from under it or from behind moves `d`
  accordingly.

**Queue.** `QueueInv` is `TypeOK`, `CountersAgree`, `RefAhead` and
`RefStaysIntact`. `CountersAgree` carries the rest: without it a block call's
copy need not fit, and full and empty could not be told. `RefAhead` says where
the slot given away is relative to the tail. `QueueSpec` maps the ring to the
sequence of its items and every call to one of `BoundedQueue` with its result.

**State machines and sections.** `SimpleFsm`: `ChainWaits` (the machines waiting
are in `CALLS`) and `CplIsReset` (one that returned `fsm_rt_cpl` was reset);
`CompletedOnce` for `LeavesCompleted`. `Locker`: `SavedIsOuter`, each section's
saved state is the mask as its outer section left it, and `HolderOwns`, whoever
is past the test of a locker owns it, and only once. `CodeRegion`: `StmtInv`,
what each loop variable says of how far the statement has come, and `ExitKnown`,
how the body was left. `TinyFsm`:
`TinyInv`, the flag is set exactly while one instance prints (`FlagIsPrinter`),
from the start of its string (`FromTheStart`), and what the line shows is its
(`LineShows`).

Only model-checked, and why: `QueuedAreSent`, `RefusedIsRetried`,
`ArrivedAreHandled` and `Repeats` are liveness, and neither fairness nor
`ENABLED` is within the prover's reach. `Repeats` would also need the recursive
expansion of `MACRO_REPEAT` computed for every input. The violations are
counterexamples and need no proof.

## Not modelled

PLOOC, the port headers, `usebits.h` and packaging have no run-time behaviour:
they declare types, attributes, masks and files. In `simple_fsm.h` the privilege
and debug forms (lines 228-292) are left out; no file uses them. `with` is a
`using` that declares a pointer. NULL arguments and the early returns they cause
are left out: no caller in the repository passes one. `main.c`'s clock, pin and
peripheral set-up is left out, and the millisecond timer appears only as its
tick. The code handles no DMA transfer error and no framing error of the UART,
and the models have none.

## Plan

Done: the modules above, and a theorem for every safety property of the passing
runs. Next, in order:

1. Masking in `StreamReadNested` as a parameter: which sections are enough for
   `ReadOnce` when one flush preempts the other, as the window of finding 4 is
   for the blocks.
2. The streams over `BlockList`'s pointers, so that findings 1 and 8 show in the
   bytes, and which masking would be enough can be checked.
3. The completion interrupt and the receive interrupts preempting one another in
   `Echo`; a late `TimerResumes` with a third flush.
4. Steps towards the liveness properties that are safety: that what a waiting byte
   needs is never undone, as `NoStall` says for the transmit stream.
