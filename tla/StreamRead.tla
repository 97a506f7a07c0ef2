----------------------------- MODULE StreamRead -----------------------------
(***************************************************************************)
(* The receive direction, src/zero_strm/zero_strm_read: a DMA channel puts *)
(* the bytes of the line into a block; its half-transfer interrupt, or a   *)
(* timeout after the line went idle, queues the block and hands the        *)
(* channel a new one; the main program calls zero_strm_read for the bytes  *)
(* one at a time.                                                          *)
(*                                                                         *)
(* The three interrupts do not preempt one another.  They may be taken     *)
(* between any two steps of the main program, which waits until they are   *)
(* done; the channel goes on between any two steps of either.  As in       *)
(* StreamWrite a zero_strm_block_* call is one step.                       *)
(***************************************************************************)
EXTENDS BlockPool, ByteFifo

CONSTANTS
  chCnt,            \* blocks carved from the user's buffer
  READ_BUFF_CNT,    \* bytes in a block
  wSetTime,         \* wTimeOutMs: ticks from idle line to timeout
  MaxBytes,         \* bound: bytes that arrive in one behaviour
  ReaderKeepsUp,    \* environment: bytes arrive only while a block is free
  IsrIsPrompt       \* environment: no byte arrives during a flush, nor when the
                    \* half-transfer interrupt waits until the block is full

Blocks == 0 .. chCnt - 1

ASSUME ReadAssumption ==
  /\ chCnt \in Nat /\ chCnt >= 2
  /\ READ_BUFF_CNT \in Nat /\ READ_BUFF_CNT >= 2
  /\ wSetTime \in Nat /\ MaxBytes \in Nat
  /\ ReaderKeepsUp \in BOOLEAN /\ IsrIsPrompt \in BOOLEAN
  /\ NULL \notin Blocks

VARIABLES
  bBusy, bUartIdle, bTimerStart, wTimeStamp, hwDmaCntUartIdle,
  ptByteFifoDmaRx,  \* block the channel fills
  freeList, fifo,   \* tMemBlockFifo
  tSizeInByte, chMemory,  \* of each block
  tByteFifo,        \* ring over the block being read
  ptByteFifo,       \* fsmDequeue.ptByteFifo: the block being read
  chState,          \* fsmDequeue.chState
  pc,               \* where the main program is in zero_strm_read
  isr,              \* where the running interrupt is in stream_read_flush
  ptFlush,          \* stream_read_flush's ptByteFifo, the next block to fill, and
  hwDataCnt,        \* hwDataCnt, the bytes stored: meaningful during a flush only
  CMAR, CNDTR, HTIF,\* DMA1_Channel5: address, bytes left, half-transfer flag
  line, IDLE,       \* the line and the UART's idle flag
  sinceIdle,        \* history: a byte came since the last idle interrupt
  arrived,          \* history: bytes that came over the line
  delivered         \* history: bytes zero_strm_read returned

mainVars  == <<tByteFifo, ptByteFifo, chState, pc, delivered>>
listVars  == <<freeList, fifo>>
dataVars  == <<tSizeInByte, chMemory>>
timerVars == <<bUartIdle, bTimerStart, wTimeStamp, hwDmaCntUartIdle>>
flushVars == <<bBusy, ptByteFifoDmaRx, isr, ptFlush, hwDataCnt>>
dmaVars   == <<CMAR, CNDTR>>
lineVars  == <<line, IDLE, sinceIdle, arrived>>
vars == <<mainVars, listVars, dataVars, timerVars, flushVars, dmaVars, HTIF, lineVars>>

\* zero_strm_read_init: the last block pushed goes to the channel, the one
\* before it is the first, empty, block to read.
Init ==
  /\ bBusy = FALSE /\ bUartIdle = FALSE /\ bTimerStart = FALSE
  /\ wTimeStamp = 0 /\ hwDmaCntUartIdle = 0
  /\ ptByteFifoDmaRx = chCnt - 1
  /\ freeList = [i \in 1 .. chCnt - 2 |-> chCnt - 2 - i]
  /\ fifo = <<>>
  /\ tSizeInByte = [b \in Blocks |-> READ_BUFF_CNT]
  /\ chMemory = [b \in Blocks |-> [i \in 0 .. READ_BUFF_CNT - 1 |-> 0]]
  /\ tByteFifo = [pchBuffer |-> chCnt - 2, hwSize |-> READ_BUFF_CNT,
                  hwHead |-> 0, hwTail |-> 0, hwLength |-> 0]
  /\ ptByteFifo = chCnt - 2
  /\ chState = "START" /\ pc = "idle"
  /\ isr = "none" /\ ptFlush = NULL /\ hwDataCnt = 0
  /\ CMAR = chCnt - 1 /\ CNDTR = READ_BUFF_CNT /\ HTIF = FALSE
  /\ line = "quiet" /\ IDLE = FALSE /\ sinceIdle = FALSE
  /\ arrived = 0 /\ delivered = <<>>

---------------------------------------------------------------------------
(* The hardware.                                                            *)

\* A byte comes in.  The channel stores it and flags the half of the block;
\* with the block full nothing takes the byte from the UART and it is lost.
ByteArrives ==
  /\ arrived < MaxBytes
  /\ ReaderKeepsUp => freeList # <<>>
  /\ IsrIsPrompt => isr = "none" /\ CNDTR > 0
  /\ arrived' = arrived + 1
  /\ line' = "busy"
  /\ sinceIdle' = TRUE
  /\ \/ /\ CNDTR = 0
        /\ UNCHANGED <<chMemory, CNDTR, HTIF>>
     \/ /\ CNDTR > 0
        /\ chMemory' = [chMemory EXCEPT ![CMAR][READ_BUFF_CNT - CNDTR] = arrived + 1]
        /\ CNDTR' = CNDTR - 1
        /\ HTIF' = (HTIF \/ CNDTR' = READ_BUFF_CNT \div 2)
  /\ UNCHANGED <<mainVars, listVars, tSizeInByte, timerVars, flushVars, CMAR, IDLE>>

\* A frame time without a byte.
LineGoesIdle ==
  /\ line = "busy"
  /\ line' = "quiet"
  /\ IDLE' = TRUE
  /\ UNCHANGED <<mainVars, listVars, dataVars, timerVars, flushVars, dmaVars, HTIF, sinceIdle, arrived>>

---------------------------------------------------------------------------
(* The interrupts.                                                          *)

\* zero_strm_uart_idle_insert_to_uart_irq_event_handler.
BadTargetTime == UNCHANGED <<bTimerStart, wTimeStamp>>
TargetTime == bTimerStart' = TRUE /\ wTimeStamp' = wSetTime

UartIdleIrq ==
  /\ isr = "none"
  /\ IDLE
  /\ IDLE' = FALSE
  /\ bUartIdle' = TRUE
  /\ hwDmaCntUartIdle' = CNDTR
  /\ TargetTime
  /\ sinceIdle' = FALSE
  /\ UNCHANGED <<mainVars, listVars, dataVars, flushVars, dmaVars, HTIF, line, arrived>>

\* zero_strm_uart_dma_get_data_insert_to_dma_irq_event_handler: bBusy is
\* cleared, so the flush FSM's test-and-set always claims it.
DmaHalfIrq ==
  /\ isr = "none"
  /\ HTIF
  /\ HTIF' = FALSE
  /\ bUartIdle' = FALSE
  /\ bBusy' = TRUE
  /\ isr' = "GET_BLOCK"
  /\ UNCHANGED <<mainVars, listVars, dataVars, bTimerStart, wTimeStamp, hwDmaCntUartIdle,
                 ptByteFifoDmaRx, ptFlush, hwDataCnt, dmaVars, lineVars>>

\* zero_strm_uart_wait_time_out_insert_to_hard_timer_irq_event_handler.  A
\* timeout that finds the line idle and the channel where it was flushes.  The
\* flush runs on the time_out FSM's own object, whose chState FLUSH is
\* stream_read_flush's GET_BLOCK: the claim of bBusy is passed over.
BadReallyTimeOut == TRUE
ReallyTimeOut == bUartIdle /\ hwDmaCntUartIdle = CNDTR

TimerCounts(expired) ==
  /\ isr = "none"
  /\ bTimerStart
  /\ \/ /\ wTimeStamp > 1
        /\ wTimeStamp' = wTimeStamp - 1
        /\ UNCHANGED <<bTimerStart, isr>>
     \/ /\ wTimeStamp <= 1
        /\ wTimeStamp' = 0
        /\ bTimerStart' = FALSE
        /\ isr' = expired
  /\ UNCHANGED <<mainVars, listVars, dataVars, bUartIdle, hwDmaCntUartIdle, bBusy,
                 ptByteFifoDmaRx, ptFlush, hwDataCnt, dmaVars, HTIF, lineVars>>

TickIrq == TimerCounts(IF ReallyTimeOut THEN "GET_BLOCK" ELSE "none")

\* stream_read_flush, GET_BLOCK: the block to fill next, if there is one.
FlushGetBlock ==
  /\ isr = "GET_BLOCK"
  /\ isr' = "GET_DATA_CNT"
  /\ \/ /\ freeList = <<>>
        /\ ptFlush' = NULL
        /\ UNCHANGED <<freeList, tSizeInByte>>
     \/ /\ freeList # <<>>
        /\ ptFlush' = Head(freeList)
        /\ freeList' = Tail(freeList)
        /\ tSizeInByte' = [tSizeInByte EXCEPT ![Head(freeList)] = READ_BUFF_CNT]
  /\ UNCHANGED <<mainVars, fifo, chMemory, timerVars, bBusy, ptByteFifoDmaRx, hwDataCnt,
                 dmaVars, HTIF, lineVars>>

\* get_dma_data_cnt.
BadDataCnt == READ_BUFF_CNT - CNDTR - 1
DataCnt == READ_BUFF_CNT - CNDTR

\* GET_DATA_CNT, nothing stored: the block goes back.
BadNothingStored == FALSE
NothingStored == DataCnt = 0

FlushNothing ==
  /\ isr = "GET_DATA_CNT"
  /\ NothingStored
  /\ freeList' = Freed(freeList, ptFlush)
  /\ ptFlush' = NULL
  /\ bBusy' = FALSE
  /\ isr' = "none"
  /\ UNCHANGED <<mainVars, fifo, dataVars, timerVars, ptByteFifoDmaRx, hwDataCnt,
                 dmaVars, HTIF, lineVars>>

\* GET_DATA_CNT, bytes stored: the count is taken, the channel still runs.
FlushCount ==
  /\ isr = "GET_DATA_CNT"
  /\ ~NothingStored
  /\ hwDataCnt' = DataCnt
  /\ isr' = "DMA_START"
  /\ UNCHANGED <<mainVars, listVars, dataVars, timerVars, bBusy, ptByteFifoDmaRx, ptFlush,
                 dmaVars, HTIF, lineVars>>

\* fnDmaStartRx(block) and the record of the block it was given.
BadStartRx(block) ==
  /\ CMAR' = block
  /\ CNDTR' = tSizeInByte[block]
  /\ UNCHANGED ptByteFifoDmaRx
StartRx(block) ==
  /\ CMAR' = block
  /\ CNDTR' = tSizeInByte[block]
  /\ ptByteFifoDmaRx' = block

\* The block goes to the reader with the count taken and the channel to the
\* new block.  Without one the channel stays on the block just queued.
FlushSwitch ==
  /\ isr = "DMA_START"
  /\ tSizeInByte' = [tSizeInByte EXCEPT ![ptByteFifoDmaRx] = hwDataCnt]
  /\ fifo' = Appended(fifo, ptByteFifoDmaRx)
  /\ \/ ptFlush = NULL /\ UNCHANGED <<CMAR, CNDTR, ptByteFifoDmaRx>>
     \/ ptFlush # NULL /\ StartRx(ptFlush)
  /\ ptFlush' = NULL /\ hwDataCnt' = 0
  /\ isr' = "none"
  /\ UNCHANGED <<mainVars, freeList, chMemory, timerVars, bBusy, HTIF, lineVars>>

---------------------------------------------------------------------------
(* The main program, inside zero_strm_read.                                 *)

\* The call resumes the dequeue FSM in the state it was left in.
CallRead ==
  /\ isr = "none"
  /\ pc = "idle"
  /\ chState' = IF chState = "START" THEN "BYTE_FIFO_OUT" ELSE chState
  /\ pc' = chState'
  /\ UNCHANGED <<tByteFifo, ptByteFifo, delivered, listVars, dataVars, timerVars,
                 flushVars, dmaVars, HTIF, lineVars>>

\* BYTE_FIFO_OUT with a byte left: the call returns it.
DequeueByte ==
  /\ isr = "none"
  /\ pc = "BYTE_FIFO_OUT"
  /\ ~IsEmpty(tByteFifo)
  /\ delivered' = Append(delivered, chMemory[tByteFifo.pchBuffer][tByteFifo.hwHead])
  /\ tByteFifo' = Dequeued(tByteFifo)
  /\ chState' = "START"
  /\ pc' = "idle"
  /\ UNCHANGED <<ptByteFifo, listVars, dataVars, timerVars, flushVars, dmaVars, HTIF, lineVars>>

\* BYTE_FIFO_OUT on a block read to its end: the block is free again.
FreeBlock ==
  /\ isr = "none"
  /\ pc = "BYTE_FIFO_OUT"
  /\ IsEmpty(tByteFifo)
  /\ freeList' = Freed(freeList, ptByteFifo)
  /\ chState' = "GET_BYTE_FIFO"
  /\ pc' = "GET_BYTE_FIFO"
  /\ UNCHANGED <<tByteFifo, ptByteFifo, delivered, fifo, dataVars, timerVars,
                 flushVars, dmaVars, HTIF, lineVars>>

\* GET_BYTE_FIFO with a block queued: read on from it.
FetchBlock ==
  /\ isr = "none"
  /\ pc = "GET_BYTE_FIFO"
  /\ fifo # <<>>
  /\ ptByteFifo' = Head(fifo)
  /\ tByteFifo' = InitFull(tByteFifo, Head(fifo), tSizeInByte[Head(fifo)])
  /\ fifo' = Tail(fifo)
  /\ chState' = "BYTE_FIFO_OUT"
  /\ pc' = "BYTE_FIFO_OUT"
  /\ UNCHANGED <<delivered, freeList, dataVars, timerVars, flushVars, dmaVars, HTIF, lineVars>>

\* GET_BYTE_FIFO with none: the call returns false and the FSM waits here.
ReturnFalse ==
  /\ isr = "none"
  /\ pc = "GET_BYTE_FIFO"
  /\ fifo = <<>>
  /\ pc' = "idle"
  /\ UNCHANGED <<tByteFifo, ptByteFifo, chState, delivered, listVars, dataVars,
                 timerVars, flushVars, dmaVars, HTIF, lineVars>>

---------------------------------------------------------------------------
FlushStep == FlushGetBlock \/ FlushNothing \/ FlushCount \/ FlushSwitch
ReadStep  == CallRead \/ DequeueByte \/ FreeBlock \/ FetchBlock \/ ReturnFalse

Next == \/ ByteArrives \/ LineGoesIdle
        \/ UartIdleIrq \/ DmaHalfIrq \/ TickIrq \/ FlushStep
        \/ ReadStep

Spec == Init /\ [][Next]_vars

---------------------------------------------------------------------------
(* Properties.                                                              *)

TypeOK ==
  /\ bBusy \in BOOLEAN /\ bUartIdle \in BOOLEAN /\ bTimerStart \in BOOLEAN
  /\ wTimeStamp \in 0 .. wSetTime /\ hwDmaCntUartIdle \in 0 .. READ_BUFF_CNT
  /\ ptByteFifoDmaRx \in Blocks
  /\ freeList \in Seq(Blocks) /\ fifo \in Seq(Blocks)
  /\ tSizeInByte \in [Blocks -> 0 .. READ_BUFF_CNT]
  /\ chMemory \in [Blocks -> [0 .. READ_BUFF_CNT - 1 -> Nat]]
  /\ tByteFifo \in ByteFifoType(Blocks, READ_BUFF_CNT)
  /\ ptByteFifo \in Blocks
  /\ chState \in {"START", "BYTE_FIFO_OUT", "GET_BYTE_FIFO"}
  /\ pc \in {"idle", "BYTE_FIFO_OUT", "GET_BYTE_FIFO"}
  /\ isr \in {"none", "GET_BLOCK", "GET_DATA_CNT", "DMA_START"}
  /\ ptFlush \in Blocks \union {NULL}
  /\ hwDataCnt \in 0 .. READ_BUFF_CNT
  /\ CMAR \in Blocks /\ CNDTR \in 0 .. READ_BUFF_CNT /\ HTIF \in BOOLEAN
  /\ line \in {"busy", "quiet"} /\ IDLE \in BOOLEAN /\ sinceIdle \in BOOLEAN
  /\ arrived \in Nat /\ delivered \in Seq(Nat)

\* The block being read, if there is one.
Reading == IF pc = "GET_BYTE_FIFO" \/ (pc = "idle" /\ chState = "GET_BYTE_FIFO")
           THEN {} ELSE {ptByteFifo}

\* The block a flush in progress holds for the channel.
Spare == IF isr \in {"GET_DATA_CNT", "DMA_START"} /\ ptFlush # NULL THEN {ptFlush} ELSE {}

\* Every block has exactly one owner at all times: the free list, the queue,
\* the reader, the flush or the channel.  None leaks, none is linked twice, and
\* the channel never writes into a block that is queued or being read.
BlocksConserved ==
  /\ Distinct(freeList) /\ Distinct(fifo)
  /\ Elems(freeList) \intersect Elems(fifo) = {}
  /\ Reading \intersect Spare = {}
  /\ ptByteFifoDmaRx \notin Reading \union Spare
  /\ (Reading \union Spare \union {ptByteFifoDmaRx})
       \intersect (Elems(freeList) \union Elems(fifo)) = {}
  /\ Elems(freeList) \union Elems(fifo) \union Reading \union Spare \union {ptByteFifoDmaRx}
       = Blocks

\* A queued block has bytes in it: a size of zero would be refused by
\* zero_strm_init_byte_fifo_full and leave the ring over another block.
QueuedHoldBytes == \A i \in 1 .. Len(fifo) : tSizeInByte[fifo[i]] \in 1 .. READ_BUFF_CNT

\* Why: the channel's register and the stream's record of its block agree,
ChannelFillsRx == CMAR = ptByteFifoDmaRx

\* the ring is read from its start to its end,
RingRead ==
  /\ tByteFifo.hwTail = 0 /\ tByteFifo.hwHead < tByteFifo.hwSize
  /\ tByteFifo.hwLength \in IF tByteFifo.hwHead = 0 THEN {0, tByteFifo.hwSize}
                           ELSE {tByteFifo.hwSize - tByteFifo.hwHead}

\* a call is where its machine is, and a flush holds a whole block once it has
\* bytes to queue: it finds none only when there are no bytes.
FlushOK ==
  /\ pc # "idle" => chState = pc
  /\ isr \in {"none", "GET_BLOCK"} => ptFlush = NULL
  /\ isr = "GET_DATA_CNT" /\ ptFlush = NULL => freeList = <<>>
  /\ isr = "DMA_START" => ptFlush # NULL /\ hwDataCnt > 0
  /\ ptFlush # NULL => tSizeInByte[ptFlush] = READ_BUFF_CNT
  /\ ptFlush = NULL /\ freeList = <<>> => CNDTR = READ_BUFF_CNT

ReadInv ==
  TypeOK /\ BlocksConserved /\ ChannelFillsRx /\ QueuedHoldBytes /\ RingRead /\ FlushOK

\* However late the interrupts: no byte is returned twice or out of order, and
\* none that did not arrive.  (Bytes may be missing.)
ReadOnce ==
  /\ \A i \in 1 .. Len(delivered) : delivered[i] \in 1 .. arrived
  /\ \A i \in 1 .. Len(delivered) - 1 : delivered[i] < delivered[i + 1]

\* "false if no data is available", README.md:275: when the call returns false,
\* every byte not returned yet is still in the channel's block.
FalseMeansNoData ==
  [][pc = "GET_BYTE_FIFO" /\ pc' = "idle" =>
       arrived - Len(delivered) = READ_BUFF_CNT - CNDTR]_vars

\* A timeout flushes only when no byte came since the idle interrupt that
\* started the timer, though all it compares are two channel counters.
TimeoutOnlyWhenQuiet ==
  [][bTimerStart /\ ~bTimerStart' /\ isr' = "GET_BLOCK" => ~sinceIdle]_vars

\* Why: until its counter is taken again, bytes only bring it further down.
CountsDown ==
  bTimerStart /\ bUartIdle =>
    /\ isr = "none" /\ CNDTR <= hwDmaCntUartIdle
    /\ sinceIdle => CNDTR < hwDmaCntUartIdle

\* y is a byte that came after x, with prompt interrupts the next one.
After(x, y) == x < y /\ (IsrIsPrompt => y = x + 1)

\* The first n bytes of a block are consecutive bytes of the line.
Consecutive(block, n) ==
  \A k \in 0 .. n - 1 : chMemory[block][k] = chMemory[block][0] + k

\* The last byte returned, the last one in the ring or before it, the last one in
\* the first i blocks of the queue or before them, and the last one anywhere.
LastReturned == IF delivered = <<>> THEN 0 ELSE delivered[Len(delivered)]
LastRead == IF tByteFifo.hwLength = 0 THEN LastReturned
            ELSE chMemory[ptByteFifo][tByteFifo.hwSize - 1]
LastQueued(i) == IF i = 0 THEN LastRead ELSE chMemory[fifo[i]][tSizeInByte[fifo[i]] - 1]
LastStored == IF CNDTR = READ_BUFF_CNT THEN LastQueued(Len(fifo))
              ELSE chMemory[CMAR][READ_BUFF_CNT - CNDTR - 1]

\* What keeps the bytes in order: the rest of the ring, the queue block by block and
\* the channel's block are runs of the line, each after the one before it.
RingInTurn ==
  tByteFifo.hwLength > 0 =>
    LET head == tByteFifo.hwHead IN
    /\ tByteFifo.pchBuffer = ptByteFifo /\ chState # "GET_BYTE_FIFO"
    /\ \A k \in head .. tByteFifo.hwSize - 1 :
         chMemory[ptByteFifo][k] = chMemory[ptByteFifo][head] + (k - head)
    /\ After(LastReturned, chMemory[ptByteFifo][head])

QueueInTurn ==
  \A i \in 1 .. Len(fifo) :
    /\ Consecutive(fifo[i], tSizeInByte[fifo[i]])
    /\ After(LastQueued(i - 1), chMemory[fifo[i]][0])

ChannelInTurn ==
  /\ CNDTR < READ_BUFF_CNT =>
       /\ Consecutive(CMAR, READ_BUFF_CNT - CNDTR)
       /\ After(LastQueued(Len(fifo)), chMemory[CMAR][0])
  /\ CNDTR \in 1 .. READ_BUFF_CNT - 1 \/ IsrIsPrompt => LastStored = arrived
  /\ isr = "DMA_START" =>
       /\ hwDataCnt <= READ_BUFF_CNT - CNDTR
       /\ IsrIsPrompt => hwDataCnt = READ_BUFF_CNT - CNDTR

\* None of them has still to come, and a queue of i blocks is at most as long.
NoneAhead ==
  /\ LastReturned <= arrived /\ LastStored <= arrived
  /\ \A i \in 0 .. Len(fifo) : LastQueued(i) <= arrived
  /\ IsrIsPrompt =>
       \A i \in 0 .. Len(fifo) :
         LastQueued(Len(fifo)) - LastQueued(i) <= (Len(fifo) - i) * READ_BUFF_CNT

\* A reader that keeps up, prompt interrupts: the receiver is a byte pipe.
Pipe == INSTANCE ByteChannel WITH
          Capacity <- chCnt * READ_BUFF_CNT, accepted <- arrived

PipeSpec == Pipe!Spec

\* What has been returned, with prompt interrupts and a reader that keeps up: the
\* first bytes of the line.
ReadInOrder ==
  /\ Len(delivered) <= arrived
  /\ \A i \in 1 .. Len(delivered) : delivered[i] = i

OrderInv ==
  /\ RingInTurn /\ QueueInTurn /\ ChannelInTurn /\ NoneAhead
  /\ ReadOnce /\ (IsrIsPrompt => ReadInOrder)
=============================================================================
