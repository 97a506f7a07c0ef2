-------------------------- MODULE StreamReadNested --------------------------
(***************************************************************************)
(* The receive stream with interrupt priorities: the channel's interrupt   *)
(* preempts the timer's.  The handler of the half-transfer interrupt       *)
(* clears bBusy before its flush, so that the claim of a flush preempted   *)
(* does not keep it out; each flush has an FSM object of its own, the rest *)
(* is shared and nothing is masked.  So a flush is cut here at every load  *)
(* and store of what the two share.  What is one step: a zero_strm_block_* *)
(* call without its argument (as in StreamRead), and fnDmaStartRx.         *)
(***************************************************************************)
EXTENDS StreamRead

VARIABLES
  ptLoaded,     \* ptByteFifoDmaRx as the running flush has loaded it
  byTimer,      \* the handler running is the timer's
  preempted,    \* the timer's handler where it waits, or NULL
  cutIn         \* history: the half-transfer handler came in while the timer's
                \* flush had loaded the block to append and not recorded the next

\* What a handler is interrupted at: COMPARE_CNT is before the second read of
\* is_really_time_out, the others are in stream_read_flush.
FlushSteps == {"COMPARE_CNT", "GET_BLOCK", "GET_DATA_CNT", "FREE_BLOCK", "SET_IDLE",
               "LOAD_SIZED", "SET_SIZE", "LOAD_APPENDED", "APPEND", "DMA_START", "RECORD"}
Flushes == [isr : FlushSteps, ptFlush : Blocks \union {NULL}, hwDataCnt : Int,
            ptLoaded : Blocks \union {NULL}]

ASSUME NestedAssumption == NULL \notin Flushes

nestedVars == <<vars, ptLoaded, byTimer, preempted, cutIn>>

NestedInit ==
  Init /\ ptLoaded = NULL /\ byTimer = FALSE /\ preempted = NULL /\ cutIn = FALSE

\* is_timer_time_out and is_uart_idle, then the counter.
TimerTicks ==
  /\ TimerCounts(IF bUartIdle THEN "COMPARE_CNT" ELSE "none")
  /\ UNCHANGED ptLoaded

CompareCount ==
  /\ isr = "COMPARE_CNT"
  /\ isr' = IF hwDmaCntUartIdle = CNDTR THEN "GET_BLOCK" ELSE "none"
  /\ UNCHANGED <<mainVars, listVars, dataVars, timerVars, bBusy, ptByteFifoDmaRx, ptFlush,
                 hwDataCnt, dmaVars, HTIF, lineVars, ptLoaded>>

\* GET_BLOCK is FlushGetBlock.  GET_DATA_CNT: the counter is read;
ReadCount ==
  /\ isr = "GET_DATA_CNT"
  /\ hwDataCnt' = DataCnt
  /\ isr' = IF NothingStored THEN "FREE_BLOCK" ELSE "LOAD_SIZED"
  /\ UNCHANGED <<mainVars, listVars, dataVars, timerVars, bBusy, ptByteFifoDmaRx, ptFlush,
                 dmaVars, HTIF, lineVars, ptLoaded>>

\* nothing stored: the block goes back, and the claim is given up,
GiveBack ==
  /\ isr = "FREE_BLOCK"
  /\ freeList' = Freed(freeList, ptFlush)
  /\ ptFlush' = NULL
  /\ isr' = "SET_IDLE"
  /\ UNCHANGED <<mainVars, fifo, dataVars, timerVars, bBusy, ptByteFifoDmaRx, hwDataCnt,
                 dmaVars, HTIF, lineVars, ptLoaded>>

SetDmaIdle ==
  /\ isr = "SET_IDLE"
  /\ bBusy' = FALSE
  /\ isr' = "none"
  /\ UNCHANGED <<mainVars, listVars, dataVars, timerVars, ptByteFifoDmaRx, ptFlush,
                 hwDataCnt, dmaVars, HTIF, lineVars, ptLoaded>>

\* bytes stored: update_data_cnt and zero_strm_block_append each load the block
\* in the channel,
LoadRx ==
  /\ \/ isr = "LOAD_SIZED" /\ isr' = "SET_SIZE"
     \/ isr = "LOAD_APPENDED" /\ isr' = "APPEND"
  /\ ptLoaded' = ptByteFifoDmaRx
  /\ UNCHANGED <<mainVars, listVars, dataVars, timerVars, bBusy, ptByteFifoDmaRx, ptFlush,
                 hwDataCnt, dmaVars, HTIF, lineVars>>

SetSize ==
  /\ isr = "SET_SIZE"
  /\ tSizeInByte' = [tSizeInByte EXCEPT ![ptLoaded] = hwDataCnt]
  /\ hwDataCnt' = 0
  /\ isr' = "LOAD_APPENDED"
  /\ UNCHANGED <<mainVars, listVars, chMemory, timerVars, bBusy, ptByteFifoDmaRx, ptFlush,
                 dmaVars, HTIF, lineVars, ptLoaded>>

\* it goes to the reader, the channel to the new block if there is one,
AppendRx ==
  /\ isr = "APPEND"
  /\ fifo' = Appended(fifo, ptLoaded)
  /\ ptLoaded' = NULL
  /\ isr' = IF ptFlush = NULL THEN "none" ELSE "DMA_START"
  /\ UNCHANGED <<mainVars, freeList, dataVars, timerVars, bBusy, ptByteFifoDmaRx, ptFlush,
                 hwDataCnt, dmaVars, HTIF, lineVars>>

RestartChannel ==
  /\ isr = "DMA_START"
  /\ CMAR' = ptFlush /\ CNDTR' = tSizeInByte[ptFlush]
  /\ isr' = "RECORD"
  /\ UNCHANGED <<mainVars, listVars, dataVars, timerVars, bBusy, ptByteFifoDmaRx, ptFlush,
                 hwDataCnt, HTIF, lineVars, ptLoaded>>

\* and the new block is recorded.
BadRecordRx(block) == UNCHANGED ptByteFifoDmaRx
RecordRx(block) == ptByteFifoDmaRx' = block

RecordBlock ==
  /\ isr = "RECORD"
  /\ RecordRx(ptFlush)
  /\ ptFlush' = NULL
  /\ isr' = "none"
  /\ UNCHANGED <<mainVars, listVars, dataVars, timerVars, bBusy, hwDataCnt, dmaVars, HTIF,
                 lineVars, ptLoaded>>

NestedFlushStep ==
  \/ FlushGetBlock /\ UNCHANGED ptLoaded
  \/ ReadCount \/ GiveBack \/ SetDmaIdle \/ LoadRx \/ SetSize
  \/ AppendRx \/ RestartChannel \/ RecordBlock

\* Two flushes, one inside the other, need two blocks.
RoomForTwo == ReaderKeepsUp => Len(freeList) >= 2

\* What runs: the handler on top, before the main program.
Plain ==
  /\ preempted = NULL \/ isr # "none"
  /\ \/ TimerTicks /\ byTimer' = (isr' # "none")
     \/ DmaHalfIrq /\ byTimer' = FALSE /\ UNCHANGED ptLoaded
     \/ (CompareCount \/ NestedFlushStep) /\ byTimer' = (byTimer /\ isr' # "none")
     \/ /\ (ByteArrives /\ RoomForTwo) \/ LineGoesIdle \/ UartIdleIrq \/ ReadStep
        /\ UNCHANGED <<byTimer, ptLoaded>>
  /\ cutIn' = (cutIn /\ (isr' # "none" \/ preempted # NULL))
  /\ UNCHANGED preempted

\* DmaHalfIrq taken inside the timer's handler.
Preempted == [isr |-> isr, ptFlush |-> ptFlush, hwDataCnt |-> hwDataCnt, ptLoaded |-> ptLoaded]

DmaHalfPreempts ==
  /\ isr # "none" /\ byTimer
  /\ HTIF
  /\ HTIF' = FALSE
  /\ preempted' = Preempted
  /\ byTimer' = FALSE
  /\ bUartIdle' = FALSE
  /\ bBusy' = TRUE
  /\ isr' = "GET_BLOCK" /\ ptFlush' = NULL /\ hwDataCnt' = 0 /\ ptLoaded' = NULL
  /\ cutIn' = (cutIn \/ isr \in {"APPEND", "DMA_START", "RECORD"})
  /\ UNCHANGED <<mainVars, listVars, dataVars, bTimerStart, wTimeStamp, hwDmaCntUartIdle,
                 ptByteFifoDmaRx, dmaVars, lineVars>>

TimerResumes ==
  /\ isr = "none" /\ preempted # NULL
  /\ isr' = preempted.isr
  /\ ptFlush' = preempted.ptFlush /\ hwDataCnt' = preempted.hwDataCnt
  /\ ptLoaded' = preempted.ptLoaded
  /\ preempted' = NULL /\ byTimer' = TRUE
  /\ UNCHANGED <<mainVars, listVars, dataVars, timerVars, bBusy, ptByteFifoDmaRx,
                 dmaVars, HTIF, lineVars, cutIn>>

\* A block linked behind itself is no sequence any more: the model ends there.
NestedNext == Distinct(fifo) /\ (Plain \/ DmaHalfPreempts \/ TimerResumes)

NestedSpec == NestedInit /\ [][NestedNext]_nestedVars

---------------------------------------------------------------------------
(* Properties.                                                              *)

\* A flush, running or waiting, is at step, and the block it holds there.
At(step) == isr = step \/ (preempted # NULL /\ preempted.isr = step)
BlockAt(step) == IF isr = step THEN ptFlush ELSE preempted.ptFlush

\* The blocks that the flush running, and the one below it, hold for the channel.
NestedSpare == {ptFlush} \ {NULL}
SpareBelow == IF preempted = NULL THEN {} ELSE {preempted.ptFlush} \ {NULL}

\* The channel's block, but for the steps in which it goes from one to the next.
Switching == At("DMA_START") \/ At("RECORD")
Filling == IF Switching THEN {} ELSE {CMAR}

\* Every block has one owner.  The channel works on the block recorded, which is
\* the one the next flush sizes and queues; between its restart and the record on
\* the new one, with the old one queued.
OneOwnerEach ==
  LET owners == <<Elems(freeList), Elems(fifo), Reading, NestedSpare, SpareBelow, Filling>>
  IN  /\ Distinct(freeList) /\ Distinct(fifo)
      /\ UNION {owners[i] : i \in 1 .. Len(owners)} = Blocks
      /\ \A i, j \in 1 .. Len(owners) : i # j => owners[i] \intersect owners[j] = {}
      /\ CMAR = IF At("RECORD") THEN BlockAt("RECORD") ELSE ptByteFifoDmaRx
      /\ Switching => ptByteFifoDmaRx \in Elems(fifo)

\* Wherever in the timer's flush the half-transfer handler comes in with its own,
\* blocks keep their owners, with one exception: between the load of the block to
\* append and the record of the next, which is where the code would have to mask.
\* There the same block is appended twice.
NestedConserved == OneOwnerEach \/ (cutIn /\ ~Distinct(fifo))

---------------------------------------------------------------------------
(* Why: what the steps keep, for the proofs.                                *)

NestedTypes ==
  /\ freeList \in Seq(Blocks) /\ fifo \in Seq(Blocks)
  /\ ptByteFifo \in Blocks /\ ptByteFifoDmaRx \in Blocks /\ CMAR \in Blocks
  /\ tSizeInByte \in [Blocks -> Int] /\ CNDTR \in Int /\ hwDataCnt \in Int
  /\ pc \in {"idle", "BYTE_FIFO_OUT", "GET_BYTE_FIFO"} /\ (pc # "idle" => chState = pc)
  /\ chState \in {"START", "BYTE_FIFO_OUT", "GET_BYTE_FIFO"}
  /\ isr \in {"none"} \union FlushSteps
  /\ ptFlush \in Blocks \union {NULL} /\ ptLoaded \in Blocks \union {NULL}
  /\ preempted \in Flushes \union {NULL}

\* What a flush has in hand at a step: a whole block from GET_BLOCK on, unless there
\* was none, and then there is nothing to queue; and the block in the channel, unless
\* another flush has queued that since.
FlushHolds(step, block, loaded) ==
  /\ step \in {"none", "COMPARE_CNT", "GET_BLOCK", "SET_IDLE"} => block = NULL
  /\ step \in {"LOAD_SIZED", "SET_SIZE", "LOAD_APPENDED", "APPEND", "DMA_START", "RECORD"} =>
       block # NULL
  /\ step = "GET_DATA_CNT" /\ block = NULL => freeList = <<>> /\ CNDTR = READ_BUFF_CNT
  /\ block # NULL => tSizeInByte[block] = READ_BUFF_CNT
  /\ step = "SET_SIZE" => loaded = ptByteFifoDmaRx \/ loaded \in Elems(fifo)
  /\ step = "APPEND" => loaded = ptByteFifoDmaRx \/ (cutIn /\ loaded \in Elems(fifo))

BelowHolds ==
  preempted # NULL =>
    /\ ~byTimer
    /\ FlushHolds(preempted.isr, preempted.ptFlush, preempted.ptLoaded)
    /\ preempted.isr \in {"APPEND", "DMA_START", "RECORD"} => cutIn
    /\ preempted.isr \in {"DMA_START", "RECORD"} => isr \notin {"DMA_START", "RECORD"}
    /\ preempted.isr = "GET_DATA_CNT" /\ preempted.ptFlush = NULL => ptFlush = NULL

\* A block with bytes in it leaves room for two flushes, one of them perhaps done with
\* GET_BLOCK.
Held(step, block) == IF block # NULL /\ step # "RECORD" THEN 1 ELSE 0
HeldBelow == IF preempted = NULL THEN 0 ELSE Held(preempted.isr, preempted.ptFlush)
RoomLeft == CNDTR = READ_BUFF_CNT \/ Len(freeList) + Held(isr, ptFlush) + HeldBelow >= 2

NestedOK == OneOwnerEach /\ FlushHolds(isr, ptFlush, ptLoaded) /\ BelowHolds /\ RoomLeft

NestedInv == NestedTypes /\ (Distinct(fifo) => NestedOK) /\ (Distinct(fifo) \/ cutIn)
=============================================================================
