---------------------------- MODULE StreamWrite ----------------------------
(***************************************************************************)
(* The transmit direction, src/zero_strm/zero_strm_write: the main program *)
(* calls zero_strm_write one byte at a time; full blocks are queued and    *)
(* sent by a DMA channel whose transfer-complete interrupt recycles the    *)
(* block and starts the next one.                                          *)
(*                                                                         *)
(* The interrupt may be taken between any two steps of the main program    *)
(* and runs to completion before the main program goes on.  In this module *)
(* a zero_strm_block_* call is one step: the lists are the sequences       *)
(* freeList (a stack) and fifo (a queue).                                  *)
(***************************************************************************)
EXTENDS BlockPool, ByteFifo

CONSTANTS
  chCnt,            \* blocks carved from the user's buffer
  WRITE_BUFF_CNT,   \* bytes in a block
  MaxBytes          \* bound: bytes the user writes in one behaviour

Blocks == 0 .. chCnt - 1

ASSUME WriteAssumption ==
  /\ chCnt \in Nat \ {0}
  /\ WRITE_BUFF_CNT \in Nat \ {0}
  /\ MaxBytes \in Nat
  /\ NULL \notin Blocks

VARIABLES
  bBusy,            \* the DMA channel is claimed
  ptFifoSend,       \* block handed to the DMA channel
  ptByteFifo,       \* block being filled
  freeList, fifo,   \* tMemBlockFifo
  tSizeInByte,      \* mem_blk_t.tSizeInByte of each block
  chMemory,         \* mem_blk_t.chMemory of each block
  tByteFifo,        \* ring over the block being filled
  chState,          \* fsmEnqueue.chState
  pc,               \* where the main program is in zero_strm_write
  CMAR, cpos, CNDTR, TCIF, \* DMA1_Channel4: address, offset, bytes left, flag
  accepted,         \* history: bytes for which zero_strm_write returned true
  sent              \* history: bytes put on the wire

mainVars == <<ptByteFifo, tByteFifo, chState, pc, accepted>>
listVars == <<freeList, fifo>>
dataVars == <<tSizeInByte, chMemory>>
dmaVars  == <<CMAR, cpos, CNDTR, TCIF, sent>>
vars     == <<bBusy, ptFifoSend, mainVars, listVars, dataVars, dmaVars>>

\* zero_strm_write_init: the blocks are pushed on the free list in address
\* order and the last one pushed becomes the first block to fill.
Init ==
  /\ bBusy = FALSE
  /\ ptFifoSend = NULL
  /\ ptByteFifo = chCnt - 1
  /\ freeList = [i \in 1 .. chCnt - 1 |-> chCnt - 1 - i]
  /\ fifo = <<>>
  /\ tSizeInByte = [b \in Blocks |-> IF b = chCnt - 1 THEN 0 ELSE WRITE_BUFF_CNT]
  /\ chMemory = [b \in Blocks |-> [i \in 0 .. WRITE_BUFF_CNT - 1 |-> 0]]
  /\ tByteFifo = [pchBuffer |-> chCnt - 1, hwSize |-> WRITE_BUFF_CNT,
                  hwHead |-> 0, hwTail |-> 0, hwLength |-> 0]
  /\ chState = "START"
  /\ pc = "idle"
  /\ CMAR = NULL /\ cpos = 0 /\ CNDTR = 0 /\ TCIF = FALSE
  /\ accepted = 0
  /\ sent = <<>>

---------------------------------------------------------------------------
(* Steps shared by the main program and the interrupt.                      *)

\* The block's size field, reset to count the bytes put in.
SizeReset(block) == [tSizeInByte EXCEPT ![block] = 0]

\* fnDmaStart(block): program the channel with the block's address and size.
BadProgramDma(block) ==
  /\ CMAR' = block
  /\ cpos' = 0
  /\ CNDTR' = tSizeInByte[block] - 1
ProgramDma(block) ==
  /\ CMAR' = block
  /\ cpos' = 0
  /\ CNDTR' = tSizeInByte[block]

---------------------------------------------------------------------------
(* The main program, inside zero_strm_write(byte accepted + 1).             *)

\* The call resumes the enqueue FSM in the state it was left in.
CallWrite ==
  /\ pc = "idle"
  /\ accepted < MaxBytes
  /\ chState' = IF chState = "START" THEN "BYTE_FIFO_IN" ELSE chState
  /\ pc' = chState'
  /\ UNCHANGED <<bBusy, ptFifoSend, ptByteFifo, tByteFifo, accepted,
                 listVars, dataVars, dmaVars>>

\* BYTE_FIFO_IN with room: the byte is stored and counted, the call returns true.
EnqueueByte ==
  /\ pc = "BYTE_FIFO_IN"
  /\ ~IsFull(tByteFifo)
  /\ chMemory' = [chMemory EXCEPT ![tByteFifo.pchBuffer][tByteFifo.hwTail] = accepted + 1]
  /\ tByteFifo' = Enqueued(tByteFifo)
  /\ tSizeInByte' = [tSizeInByte EXCEPT ![ptByteFifo] = @ + 1]
  /\ accepted' = accepted + 1
  /\ chState' = "START"
  /\ pc' = "idle"
  /\ UNCHANGED <<bBusy, ptFifoSend, ptByteFifo, listVars, dmaVars>>

\* BYTE_FIFO_IN on a full block: on to the flush FSM.
BlockIsFull ==
  /\ pc = "BYTE_FIFO_IN"
  /\ IsFull(tByteFifo)
  /\ chState' = "FLUSH"
  /\ pc' = "APPEND"
  /\ UNCHANGED <<bBusy, ptFifoSend, ptByteFifo, tByteFifo, accepted,
                 listVars, dataVars, dmaVars>>

\* stream_write_flush, on_start: the full block is queued.
AppendBlock ==
  /\ pc = "APPEND"
  /\ fifo' = Appended(fifo, ptByteFifo)
  /\ pc' = "IS_DMA_BUSY"
  /\ UNCHANGED <<bBusy, ptFifoSend, ptByteFifo, tByteFifo, chState, accepted,
                 freeList, dataVars, dmaVars>>

\* IS_DMA_BUSY: test-and-set of bBusy with interrupts masked.
BadClaimDma ==
  /\ pc = "IS_DMA_BUSY"
  /\ pc' = "GET_BLOCK"
  /\ bBusy' = TRUE
  /\ UNCHANGED <<ptFifoSend, ptByteFifo, tByteFifo, chState, accepted,
                 listVars, dataVars, dmaVars>>
ClaimDma ==
  /\ pc = "IS_DMA_BUSY"
  /\ \/ bBusy /\ pc' = "GET_BYTE_FIFO" /\ chState' = "GET_BYTE_FIFO"
     \/ ~bBusy /\ pc' = "GET_BLOCK" /\ UNCHANGED chState
  /\ bBusy' = TRUE
  /\ UNCHANGED <<ptFifoSend, ptByteFifo, tByteFifo, accepted,
                 listVars, dataVars, dmaVars>>

\* GET_BLOCK: the interrupt may have emptied the queue since AppendBlock.
FetchBlock ==
  /\ pc = "GET_BLOCK"
  /\ \/ /\ fifo = <<>>
        /\ ptFifoSend' = NULL
        /\ pc' = "RELEASE_DMA"
        /\ UNCHANGED fifo
     \/ /\ fifo # <<>>
        /\ ptFifoSend' = Head(fifo)
        /\ fifo' = Tail(fifo)
        /\ pc' = "DMA_START"
  /\ UNCHANGED <<bBusy, ptByteFifo, tByteFifo, chState, accepted,
                 freeList, dataVars, dmaVars>>

\* GET_BLOCK, nothing queued: give the channel back.
ReleaseDma ==
  /\ pc = "RELEASE_DMA"
  /\ bBusy' = FALSE
  /\ pc' = "GET_BYTE_FIFO"
  /\ chState' = "GET_BYTE_FIFO"
  /\ UNCHANGED <<ptFifoSend, ptByteFifo, tByteFifo, accepted,
                 listVars, dataVars, dmaVars>>

\* GET_BLOCK, a block fetched: send it.
StartDma ==
  /\ pc = "DMA_START"
  /\ ProgramDma(ptFifoSend)
  /\ pc' = "GET_BYTE_FIFO"
  /\ chState' = "GET_BYTE_FIFO"
  /\ UNCHANGED <<bBusy, ptFifoSend, ptByteFifo, tByteFifo, accepted,
                 TCIF, sent, listVars, dataVars>>

\* GET_BYTE_FIFO, a free block: run the ring over it and store the byte.
NewBlock ==
  /\ pc = "GET_BYTE_FIFO"
  /\ freeList # <<>>
  /\ LET block == Head(freeList) IN
       /\ tByteFifo' = InitEmpty(tByteFifo, block, tSizeInByte[block])
       /\ tSizeInByte' = SizeReset(block)
       /\ ptByteFifo' = block
  /\ freeList' = Tail(freeList)
  /\ chState' = "BYTE_FIFO_IN"
  /\ pc' = "BYTE_FIFO_IN"
  /\ UNCHANGED <<bBusy, ptFifoSend, accepted, fifo, chMemory, dmaVars>>

\* GET_BYTE_FIFO, no free block: the call returns false and the FSM waits here.
RefuseByte ==
  /\ pc = "GET_BYTE_FIFO"
  /\ freeList = <<>>
  /\ pc' = "idle"
  /\ UNCHANGED <<bBusy, ptFifoSend, ptByteFifo, tByteFifo, chState, accepted,
                 listVars, dataVars, dmaVars>>

---------------------------------------------------------------------------
(* The DMA channel and its interrupt.                                       *)

\* The channel puts a byte on the wire; the last one raises the flag.
DmaByte ==
  /\ CNDTR > 0
  /\ sent' = Append(sent, chMemory[CMAR][cpos])
  /\ cpos' = cpos + 1
  /\ CNDTR' = CNDTR - 1
  /\ TCIF' = (CNDTR = 1)
  /\ UNCHANGED <<bBusy, ptFifoSend, mainVars, listVars, dataVars, CMAR>>

\* stream_write_flush run by the handler with bBusy just cleared: the append
\* of the NULL ptByteFifoCpl does nothing, the claim succeeds, and the next
\* block is started if there is one.
BadFlushAuto ==
  /\ bBusy' = FALSE
  /\ UNCHANGED <<ptFifoSend, fifo, CMAR, cpos, CNDTR>>
FlushAuto ==
  \/ /\ fifo = <<>>
     /\ ptFifoSend' = NULL
     /\ bBusy' = FALSE
     /\ UNCHANGED <<fifo, CMAR, cpos, CNDTR>>
  \/ /\ fifo # <<>>
     /\ ptFifoSend' = Head(fifo)
     /\ fifo' = Tail(fifo)
     /\ bBusy' = TRUE
     /\ ProgramDma(Head(fifo))

\* zero_strm_dma_send_data_cpl_event_handler: recycle the block, drop the
\* claim and flush.
BadSendDataCpl ==
  /\ TCIF
  /\ TCIF' = FALSE
  /\ FlushAuto
  /\ UNCHANGED <<mainVars, freeList, dataVars, sent>>
SendDataCpl ==
  /\ TCIF
  /\ TCIF' = FALSE
  /\ freeList' = Freed(freeList, ptFifoSend)
  /\ FlushAuto
  /\ UNCHANGED <<mainVars, dataVars, sent>>

---------------------------------------------------------------------------
WriteStep == \/ EnqueueByte \/ BlockIsFull \/ AppendBlock \/ ClaimDma
             \/ FetchBlock \/ ReleaseDma \/ StartDma \/ NewBlock \/ RefuseByte

Next == CallWrite \/ WriteStep \/ DmaByte \/ SendDataCpl

Spec == Init /\ [][Next]_vars

\* A call, once made, runs on; the channel shifts bytes; a raised flag
\* interrupts; and a caller that got false tries again.  No caller has to write.
Fairness ==
  /\ WF_vars(WriteStep)
  /\ WF_vars(DmaByte)
  /\ WF_vars(SendDataCpl)
  /\ WF_vars(CallWrite /\ chState = "GET_BYTE_FIFO")

FairSpec == Spec /\ Fairness

---------------------------------------------------------------------------
(* Properties.                                                              *)

TypeOK ==
  /\ bBusy \in BOOLEAN
  /\ ptFifoSend \in Blocks \union {NULL}
  /\ ptByteFifo \in Blocks
  /\ freeList \in Seq(Blocks)
  /\ fifo \in Seq(Blocks)
  /\ tSizeInByte \in [Blocks -> 0 .. WRITE_BUFF_CNT]
  /\ chMemory \in [Blocks -> [0 .. WRITE_BUFF_CNT - 1 -> Nat]]
  /\ tByteFifo \in ByteFifoType(Blocks, WRITE_BUFF_CNT)
  /\ chState \in {"START", "BYTE_FIFO_IN", "FLUSH", "GET_BYTE_FIFO"}
  /\ pc \in {"idle", "BYTE_FIFO_IN", "APPEND", "IS_DMA_BUSY", "GET_BLOCK",
            "RELEASE_DMA", "DMA_START", "GET_BYTE_FIFO"}
  /\ CMAR \in Blocks \union {NULL}
  /\ cpos \in 0 .. WRITE_BUFF_CNT
  /\ CNDTR \in 0 .. WRITE_BUFF_CNT
  /\ TCIF \in BOOLEAN
  /\ accepted \in Nat
  /\ sent \in Seq(Nat)

\* The block being filled, if there is one.
Filling == IF pc \in {"BYTE_FIFO_IN", "APPEND"} \/ (pc = "idle" /\ chState = "START")
           THEN {ptByteFifo} ELSE {}

\* The channel is shifting bytes, or has raised the flag nobody served yet.
DmaRunning == CNDTR > 0 \/ TCIF

\* The block handed to the channel, from its fetch to its recycling.
Sending == IF DmaRunning \/ pc = "DMA_START" THEN {ptFifoSend} ELSE {}

\* Every block has exactly one owner at all times, across both contexts: the
\* free list, the queue, the writer or the DMA channel.  No block leaks, none
\* is linked twice, none is filled while it is being sent.
BlocksConserved ==
  /\ Distinct(freeList) /\ Distinct(fifo)
  /\ Elems(freeList) \intersect Elems(fifo) = {}
  /\ Filling \intersect Sending = {}
  /\ (Filling \union Sending) \intersect (Elems(freeList) \union Elems(fifo)) = {}
  /\ Elems(freeList) \union Elems(fifo) \union Filling \union Sending = Blocks

\* bBusy is held exactly by whoever is about to program the channel or has
\* done so, and never by the main program and the channel at once.
BusyOwner ==
  /\ bBusy <=> DmaRunning \/ pc \in {"GET_BLOCK", "RELEASE_DMA", "DMA_START"}
  /\ pc \in {"GET_BLOCK", "RELEASE_DMA", "DMA_START"} => ~DmaRunning

\* No lost wake-up: a queued block always has somebody committed to sending
\* it, the interrupt to come or the writer about to try the claim.
NoStall == fifo # <<>> => bBusy \/ pc = "IS_DMA_BUSY"

\* A free block's size field is its capacity again, which is what GET_BYTE_FIFO
\* takes as the size of the ring over it.
RecycledFull ==
  \A i \in 1 .. Len(freeList) : tSizeInByte[freeList[i]] = WRITE_BUFF_CNT

\* The ring runs over the block being filled from its first byte and agrees
\* with the block's own size field.
RingOK ==
  /\ tByteFifo.hwSize = WRITE_BUFF_CNT
  /\ tByteFifo.hwHead = 0
  /\ tByteFifo.hwTail = IF tByteFifo.hwLength = WRITE_BUFF_CNT THEN 0 ELSE tByteFifo.hwLength
  /\ Filling # {} => /\ tByteFifo.pchBuffer = ptByteFifo
                     /\ tSizeInByte[ptByteFifo] = tByteFifo.hwLength
  /\ pc = "APPEND" => tByteFifo.hwLength = WRITE_BUFF_CNT
  /\ pc = "idle" => chState \in {"START", "GET_BYTE_FIFO"}
  /\ pc = "GET_BYTE_FIFO" => chState = "GET_BYTE_FIFO"

\* The channel works on the block it was handed, and only on whole ones.
ChannelOK ==
  /\ \A b \in Blocks \ Filling : tSizeInByte[b] = WRITE_BUFF_CNT
  /\ DmaRunning => /\ ptFifoSend \in Blocks /\ CMAR = ptFifoSend
                   /\ cpos + CNDTR = WRITE_BUFF_CNT
  /\ TCIF => CNDTR = 0
  /\ pc = "DMA_START" => ptFifoSend \in Blocks
  /\ pc = "RELEASE_DMA" => fifo = <<>>

\* What holds the blocks together, inductive as it stands.
PoolInv == /\ TypeOK /\ BlocksConserved /\ BusyOwner /\ NoStall
           /\ RingOK /\ ChannelOK

\* Number of the first byte of the block being filled, or of the next to be.
FillBase == accepted + 1 - (IF Filling = {} THEN 0 ELSE tByteFifo.hwLength)

\* Number of the first byte that is in no block handed to the channel.
NextQueued == IF fifo = <<>> THEN FillBase ELSE chMemory[Head(fifo)][0]

\* Block b holds consecutive bytes.
Run(b) == \A k \in 0 .. WRITE_BUFF_CNT - 1 : chMemory[b][k] = chMemory[b][0] + k

\* Every byte accepted and not sent is where the channel will pick it up: the
\* rest of the block in the channel, then the queue block by block, then the
\* block being filled, are the numbers from Len(sent) + 1 to accepted.
BytesInPlace ==
  /\ Filling # {} =>
       \A k \in 0 .. tByteFifo.hwLength - 1 : chMemory[ptByteFifo][k] = FillBase + k
  /\ \A i \in 1 .. Len(fifo) :
       /\ Run(fifo[i])
       /\ chMemory[fifo[i]][0] + WRITE_BUFF_CNT
            = IF i = Len(fifo) THEN FillBase ELSE chMemory[fifo[i + 1]][0]
       /\ chMemory[fifo[i]][0] + WRITE_BUFF_CNT <= FillBase
  /\ IF pc = "DMA_START"
     THEN /\ Run(ptFifoSend)
          /\ chMemory[ptFifoSend][0] = Len(sent) + 1
          /\ Len(sent) + 1 + WRITE_BUFF_CNT = NextQueued
     ELSE Len(sent) + 1 + CNDTR = NextQueued
  /\ CNDTR > 0 => \A k \in cpos .. WRITE_BUFF_CNT - 1 :
                    chMemory[CMAR][k] = Len(sent) + 1 + (k - cpos)

\* A queued block is a whole one, so the queue is as long in bytes as in blocks.
QueuedWhole == FillBase - NextQueued = Len(fifo) * WRITE_BUFF_CNT

\* The wire carries the accepted bytes in the order they were written, none
\* twice, none missing, none taken from a block being refilled.
SentInOrder ==
  /\ Len(sent) <= accepted
  /\ \A i \in 1 .. Len(sent) : sent[i] = i

\* The channel is only programmed when nothing is left to shift and with the
\* completion of the previous block served: no transfer is cut short, and no
\* completion is taken for that of another block.
DmaExclusive == [][CNDTR' > CNDTR => CNDTR = 0 /\ ~TCIF']_vars

\* "false if a retry is needed later (buffer full)", README.md:360.  When the
\* call returns false every block is on its way out, so at least all of them
\* but the one in the channel hold bytes not sent, and a completion is due.
FalseMeansFull ==
  [][pc = "GET_BYTE_FIFO" /\ pc' = "idle" =>
       /\ DmaRunning
       /\ accepted - Len(sent) >= (chCnt - 1) * WRITE_BUFF_CNT]_vars

\* The writer is a bounded byte pipe of all its blocks.
Pipe == INSTANCE ByteChannel WITH
          Capacity <- chCnt * WRITE_BUFF_CNT, delivered <- sent

PipeSpec == Pipe!Spec

\* Every byte followed by a block's worth of others is sent, whatever the
\* caller does next.  (The bytes of a block that is not full stay in it.)
QueuedAreSent ==
  \A n \in 1 .. MaxBytes : (accepted - WRITE_BUFF_CNT >= n) ~> (Len(sent) >= n)

\* "successfully added to the transmission queue", README.md:357: every byte
\* accepted is sent in the end.  Not so: the bytes of a block that is not full
\* wait for more bytes, as nothing runs fsmFlushManual.
AcceptedAreSent ==
  \A n \in 1 .. MaxBytes : (accepted >= n) ~> (Len(sent) >= n)

\* A byte refused for want of a block is accepted in the end, if retried.
RefusedIsRetried ==
  \A n \in 0 .. MaxBytes :
    (pc = "idle" /\ chState = "GET_BYTE_FIFO" /\ accepted = n) ~> (accepted > n)
=============================================================================
