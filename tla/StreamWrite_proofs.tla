------------------------- MODULE StreamWrite_proofs -------------------------
(***************************************************************************)
(* Proofs about StreamWrite for any number of blocks of any size.          *)
(***************************************************************************)
EXTENDS StreamWrite, Lists_proofs

\* Definitions that only name tuples of variables.
USE DEF vars, mainVars, listVars, dataVars, dmaVars

\* zero_strm_write_init hands out every block once and claims nothing.
THEOREM PoolInit == Init => PoolInv
<1> SUFFICES ASSUME Init PROVE PoolInv
  OBVIOUS
<1> USE WriteAssumption DEF Init, Blocks
<1>0. /\ freeList \in Seq(Blocks) /\ Len(freeList) = chCnt - 1
      /\ \A i \in 1 .. chCnt - 1 : freeList[i] = chCnt - 1 - i
      /\ fifo = << >> /\ fifo \in Seq(Blocks)
  OBVIOUS
<1>1. TypeOK
  <2>1. tSizeInByte \in [Blocks -> 0 .. WRITE_BUFF_CNT]
    OBVIOUS
  <2>2. chMemory \in [Blocks -> [0 .. WRITE_BUFF_CNT - 1 -> Nat]]
    OBVIOUS
  <2>3. tByteFifo \in ByteFifoType(Blocks, WRITE_BUFF_CNT)
    BY DEF ByteFifoType
  <2>4. sent \in Seq(Nat)
    OBVIOUS
  <2>5. /\ bBusy = FALSE /\ ptFifoSend = NULL /\ ptByteFifo \in Blocks
        /\ chState = "START" /\ pc = "idle" /\ CMAR = NULL /\ TCIF = FALSE
        /\ cpos = 0 /\ CNDTR = 0 /\ accepted = 0 /\ 0 \in 0 .. WRITE_BUFF_CNT
    OBVIOUS
  <2> HIDE DEF Init, Blocks
  <2> QED BY <1>0, <2>1, <2>2, <2>3, <2>4, <2>5 DEF TypeOK
<1>2. BlocksConserved
  <2>1. Elems(freeList) = 0 .. chCnt - 2
    <3> HIDE DEF Init
    <3>1. \A b \in 0 .. chCnt - 2 : chCnt - 1 - b \in 1 .. chCnt - 1 /\ freeList[chCnt - 1 - b] = b
      BY <1>0
    <3>2. \A b \in 0 .. chCnt - 2 : b \in Elems(freeList)
      BY <1>0, <3>1 DEF Elems
    <3>3. \A i \in 1 .. Len(freeList) : freeList[i] \in 0 .. chCnt - 2
      BY <1>0
    <3>4. \A b \in Elems(freeList) : b \in 0 .. chCnt - 2
      BY <3>3 DEF Elems
    <3> QED BY <3>2, <3>4
  <2>2. Distinct(freeList)
    BY <1>0 DEF Distinct
  <2>3. Elems(fifo) = {} /\ Distinct(fifo)
    BY EmptyList
  <2>4. Filling = {chCnt - 1} /\ Sending = {}
    BY DEF Filling, Sending, DmaRunning
  <2> HIDE DEF Init
  <2> QED BY <2>1, <2>2, <2>3, <2>4 DEF BlocksConserved
<1>3. BusyOwner /\ NoStall
  BY DEF BusyOwner, NoStall, DmaRunning
<1>4. RingOK /\ ChannelOK
  BY DEF RingOK, ChannelOK, Filling, DmaRunning
<1> QED BY <1>1, <1>2, <1>3, <1>4 DEF PoolInv

\* Entering zero_strm_write moves no block.
LEMMA CallWriteKeeps == PoolInv /\ CallWrite => PoolInv'
<1> SUFFICES ASSUME PoolInv, CallWrite PROVE PoolInv'
  OBVIOUS
<1> USE DEF PoolInv, CallWrite
<1>1. TypeOK'
  BY DEF TypeOK, RingOK
<1>2. BlocksConserved'
  BY DEF BlocksConserved, Filling, Sending, DmaRunning, RingOK
<1>3. BusyOwner' /\ NoStall'
  BY DEF BusyOwner, NoStall, DmaRunning, RingOK
<1>4. RingOK' /\ ChannelOK'
  BY DEF RingOK, ChannelOK, Filling, DmaRunning
<1> QED BY <1>1, <1>2, <1>3, <1>4

\* Storing a byte keeps the ring and the block's own size field in agreement.
LEMMA EnqueueByteKeeps == PoolInv /\ EnqueueByte => PoolInv'
<1> SUFFICES ASSUME PoolInv, EnqueueByte PROVE PoolInv'
  OBVIOUS
<1> USE WriteAssumption DEF PoolInv, EnqueueByte
<1>1. tByteFifo.hwLength < WRITE_BUFF_CNT /\ tByteFifo.hwTail = tByteFifo.hwLength
  BY DEF RingOK, IsFull, TypeOK, ByteFifoType
<1>2. /\ tByteFifo' \in ByteFifoType(Blocks, WRITE_BUFF_CNT)
      /\ tByteFifo'.hwSize = WRITE_BUFF_CNT /\ tByteFifo'.hwHead = 0
      /\ tByteFifo'.hwLength = tByteFifo.hwLength + 1
      /\ tByteFifo'.hwTail = IF tByteFifo'.hwLength = WRITE_BUFF_CNT THEN 0 ELSE tByteFifo'.hwLength
      /\ tByteFifo'.pchBuffer = tByteFifo.pchBuffer
  <2>1. /\ tByteFifo \in ByteFifoType(Blocks, WRITE_BUFF_CNT)
        /\ tByteFifo.hwSize = WRITE_BUFF_CNT /\ tByteFifo.hwHead = 0
    BY DEF RingOK, TypeOK
  <2>2. Wrapped(tByteFifo, tByteFifo.hwTail)
          = IF tByteFifo.hwLength + 1 = WRITE_BUFF_CNT THEN 0 ELSE tByteFifo.hwLength + 1
    BY <1>1, <2>1 DEF Wrapped, ByteFifoType
  <2>3. /\ tByteFifo.hwLength + 1 \in 0 .. WRITE_BUFF_CNT
        /\ Wrapped(tByteFifo, tByteFifo.hwTail) \in 0 .. WRITE_BUFF_CNT
    BY <1>1, <2>1, <2>2 DEF ByteFifoType
  <2> HIDE DEF EnqueueByte
  <2>4. tByteFifo' = [tByteFifo EXCEPT !.hwTail = Wrapped(tByteFifo, tByteFifo.hwTail),
                                       !.hwLength = tByteFifo.hwLength + 1]
    BY DEF EnqueueByte, Enqueued
  <2> QED BY <2>1, <2>2, <2>3, <2>4 DEF ByteFifoType
<1>3. Filling = {ptByteFifo} /\ Filling' = {ptByteFifo}
  BY DEF Filling
<1>4. TypeOK'
  <2>1. tSizeInByte[ptByteFifo] = tByteFifo.hwLength
    BY <1>3 DEF RingOK
  <2>2. tByteFifo.hwLength + 1 \in 0 .. WRITE_BUFF_CNT
    <3>1. tByteFifo.hwLength \in 0 .. WRITE_BUFF_CNT
      BY DEF TypeOK, ByteFifoType
    <3> HIDE DEF PoolInv, EnqueueByte
    <3> QED BY <1>1, <3>1
  <2>3. tSizeInByte' \in [Blocks -> 0 .. WRITE_BUFF_CNT]
    BY <2>1, <2>2 DEF TypeOK
  <2> DEFINE b == tByteFifo.pchBuffer  k == tByteFifo.hwTail
  <2>4. [chMemory[b] EXCEPT ![k] = accepted + 1] \in [0 .. WRITE_BUFF_CNT - 1 -> Nat]
    <3>1. accepted + 1 \in Nat
      BY DEF TypeOK
    <3>2. chMemory[b] \in [0 .. WRITE_BUFF_CNT - 1 -> Nat]
      BY DEF TypeOK, ByteFifoType
    <3> HIDE DEF PoolInv, EnqueueByte
    <3> QED BY <3>1, <3>2
  <2>5. chMemory' \in [Blocks -> [0 .. WRITE_BUFF_CNT - 1 -> Nat]]
    <3>1. chMemory' = [chMemory EXCEPT ![b] = [chMemory[b] EXCEPT ![k] = accepted + 1]]
      OBVIOUS
    <3>2. chMemory \in [Blocks -> [0 .. WRITE_BUFF_CNT - 1 -> Nat]]
      BY DEF TypeOK
    <3> HIDE DEF PoolInv, EnqueueByte, b, k
    <3> QED BY <2>4, <3>1, <3>2
  <2>6. accepted' \in Nat
    BY DEF TypeOK
  <2>7. /\ bBusy' \in BOOLEAN /\ ptFifoSend' \in Blocks \union {NULL}
        /\ ptByteFifo' \in Blocks /\ freeList' \in Seq(Blocks) /\ fifo' \in Seq(Blocks)
        /\ CMAR' \in Blocks \union {NULL} /\ cpos' \in 0 .. WRITE_BUFF_CNT
        /\ CNDTR' \in 0 .. WRITE_BUFF_CNT /\ TCIF' \in BOOLEAN /\ sent' \in Seq(Nat)
    BY DEF TypeOK
  <2>8. chState' = "START" /\ pc' = "idle"
    OBVIOUS
  <2> HIDE DEF PoolInv, EnqueueByte
  <2> QED BY <1>2, <2>3, <2>5, <2>6, <2>7, <2>8 DEF TypeOK
<1>5. BlocksConserved'
  BY <1>3 DEF BlocksConserved, Sending, DmaRunning
<1>6. BusyOwner' /\ NoStall'
  BY DEF BusyOwner, NoStall, DmaRunning
<1>7. RingOK'
  BY <1>1, <1>2, <1>3 DEF RingOK, TypeOK
<1>8. ChannelOK'
  BY <1>3 DEF ChannelOK, DmaRunning, TypeOK
<1> QED BY <1>4, <1>5, <1>6, <1>7, <1>8

\* A full ring sits over a full block, which is what the flush will queue.
LEMMA BlockIsFullKeeps == PoolInv /\ BlockIsFull => PoolInv'
<1> SUFFICES ASSUME PoolInv, BlockIsFull PROVE PoolInv'
  OBVIOUS
<1> USE WriteAssumption DEF PoolInv, BlockIsFull
<1>1. TypeOK'
  BY DEF TypeOK
<1>2. BlocksConserved'
  BY DEF BlocksConserved, Filling, Sending, DmaRunning
<1>3. BusyOwner' /\ NoStall'
  BY DEF BusyOwner, NoStall, DmaRunning
<1>4. RingOK' /\ ChannelOK'
  BY DEF RingOK, ChannelOK, Filling, DmaRunning, IsFull, TypeOK, ByteFifoType
<1> QED BY <1>1, <1>2, <1>3, <1>4

\* Queueing moves the full block from the writer to the queue; the writer is
\* then committed to trying the claim, so the block is not stranded.
LEMMA AppendBlockKeeps == PoolInv /\ AppendBlock => PoolInv'
<1> SUFFICES ASSUME PoolInv, AppendBlock PROVE PoolInv'
  OBVIOUS
<1> USE WriteAssumption DEF PoolInv, AppendBlock
<1>1. /\ fifo' \in Seq(Blocks) /\ fifo' # <<>>
      /\ Elems(fifo') = Elems(fifo) \union {ptByteFifo}
      /\ Distinct(fifo) /\ ptByteFifo \notin Elems(fifo) => Distinct(fifo')
  BY AppendedLast, SMTT(60) DEF TypeOK, Appended
<1>2. Filling = {ptByteFifo} /\ Filling' = {} /\ Sending' = Sending
  BY DEF Filling, Sending, DmaRunning
<1>3. TypeOK'
  BY <1>1 DEF TypeOK
<1>4. BlocksConserved'
  BY <1>1, <1>2 DEF BlocksConserved
<1>5. BusyOwner' /\ NoStall'
  BY DEF BusyOwner, NoStall, DmaRunning
<1>6. RingOK'
  BY <1>2 DEF RingOK
<1>7. ChannelOK'
  BY <1>2 DEF ChannelOK, DmaRunning, RingOK
<1> QED BY <1>3, <1>4, <1>5, <1>6, <1>7

\* A failed claim leaves the queue to the interrupt to come, a successful one
\* makes the writer the only owner of the channel.
LEMMA ClaimDmaKeeps == PoolInv /\ ClaimDma => PoolInv'
<1> SUFFICES ASSUME PoolInv, ClaimDma PROVE PoolInv'
  OBVIOUS
<1> USE DEF PoolInv, ClaimDma
<1>1. TypeOK'
  BY DEF TypeOK
<1>2. Filling' = Filling /\ Sending' = Sending
  BY DEF Filling, Sending, DmaRunning
<1>3. BlocksConserved'
  BY <1>2 DEF BlocksConserved
<1>4. BusyOwner' /\ NoStall'
  BY DEF BusyOwner, NoStall, DmaRunning, TypeOK
<1>5. RingOK' /\ ChannelOK'
  BY <1>2 DEF RingOK, ChannelOK, DmaRunning
<1> QED BY <1>1, <1>3, <1>4, <1>5

\* The writer that holds the claim takes the queue's first block for the channel.
LEMMA FetchBlockKeeps == PoolInv /\ FetchBlock => PoolInv'
<1> SUFFICES ASSUME PoolInv, FetchBlock PROVE PoolInv'
  OBVIOUS
<1> USE DEF PoolInv, FetchBlock
<1>1. ~DmaRunning /\ DmaRunning' = DmaRunning /\ Filling = {} /\ Filling' = {} /\ Sending = {}
  BY DEF BusyOwner, DmaRunning, Filling, Sending
<1>2. CASE fifo = << >>
  <2>1. Sending' = {}
    BY <1>1, <1>2 DEF Sending
  <2>2. TypeOK' /\ BlocksConserved'
    BY <1>1, <1>2, <2>1 DEF TypeOK, BlocksConserved
  <2>3. BusyOwner' /\ NoStall'
    BY <1>1, <1>2 DEF BusyOwner, NoStall
  <2>4. RingOK' /\ ChannelOK'
    BY <1>1, <1>2 DEF RingOK, ChannelOK, DmaRunning
  <2> QED BY <2>2, <2>3, <2>4
<1>3. CASE fifo # << >>
  <2>1. /\ Head(fifo) \in Blocks /\ Tail(fifo) \in Seq(Blocks)
        /\ Elems(fifo) = Elems(Tail(fifo)) \union {Head(fifo)}
        /\ Distinct(fifo) => Distinct(Tail(fifo)) /\ Head(fifo) \notin Elems(Tail(fifo))
    BY <1>3, Taken DEF TypeOK
  <2>2. ptFifoSend' = Head(fifo) /\ fifo' = Tail(fifo) /\ pc' = "DMA_START"
    BY <1>3
  <2>3. Sending' = {Head(fifo)}
    BY <1>1, <2>2 DEF Sending
  <2>4. TypeOK'
    BY <2>1, <2>2 DEF TypeOK
  <2>5. BlocksConserved'
    BY <1>1, <2>1, <2>2, <2>3 DEF BlocksConserved
  <2>6. BusyOwner' /\ NoStall'
    BY <1>1, <2>2 DEF BusyOwner, NoStall
  <2>7. RingOK' /\ ChannelOK'
    BY <1>1, <2>1, <2>2 DEF RingOK, ChannelOK, DmaRunning
  <2> QED BY <2>4, <2>5, <2>6, <2>7
<1> QED BY <1>2, <1>3

\* The claim is given up only with the queue empty.
LEMMA ReleaseDmaKeeps == PoolInv /\ ReleaseDma => PoolInv'
<1> SUFFICES ASSUME PoolInv, ReleaseDma PROVE PoolInv'
  OBVIOUS
<1> USE DEF PoolInv, ReleaseDma
<1>1. TypeOK'
  BY DEF TypeOK
<1>2. Filling' = Filling /\ Sending' = Sending
  BY DEF Filling, Sending, DmaRunning
<1>3. BlocksConserved'
  BY <1>2 DEF BlocksConserved
<1>4. BusyOwner' /\ NoStall'
  BY DEF BusyOwner, NoStall, DmaRunning, ChannelOK
<1>5. RingOK' /\ ChannelOK'
  BY <1>2 DEF RingOK, ChannelOK, DmaRunning
<1> QED BY <1>1, <1>3, <1>4, <1>5

\* The writer starts the channel on the block it fetched, a whole one.
LEMMA StartDmaKeeps == PoolInv /\ StartDma => PoolInv'
<1> SUFFICES ASSUME PoolInv, StartDma PROVE PoolInv'
  OBVIOUS
<1> USE WriteAssumption DEF PoolInv, StartDma, ProgramDma
<1>1. /\ ptFifoSend \in Blocks /\ ~DmaRunning /\ Filling = {} /\ Filling' = {}
      /\ tSizeInByte[ptFifoSend] = WRITE_BUFF_CNT
  BY DEF ChannelOK, BusyOwner, Filling
<1>2. CMAR' = ptFifoSend /\ cpos' = 0 /\ CNDTR' = WRITE_BUFF_CNT /\ TCIF' = FALSE
  BY <1>1 DEF DmaRunning, TypeOK
<1>3. DmaRunning'
  BY <1>2 DEF DmaRunning
<1>4. Sending' = Sending
  BY <1>3 DEF Sending
<1>5. TypeOK'
  BY <1>1, <1>2, SMTT(60) DEF TypeOK
<1>6. BlocksConserved'
  BY <1>1, <1>4 DEF BlocksConserved
<1>7. BusyOwner' /\ NoStall'
  BY <1>3 DEF BusyOwner, NoStall
<1>8. RingOK' /\ ChannelOK'
  BY <1>1, <1>2 DEF RingOK, ChannelOK
<1> QED BY <1>5, <1>6, <1>7, <1>8

\* The writer takes a free block: its size field spans the ring, then counts from 0.
LEMMA NewBlockKeeps == PoolInv /\ NewBlock => PoolInv'
<1> SUFFICES ASSUME PoolInv, NewBlock PROVE PoolInv'
  OBVIOUS
<1> USE WriteAssumption DEF PoolInv
<1> DEFINE block == Head(freeList)
<1>1. /\ block \in Blocks /\ Tail(freeList) \in Seq(Blocks)
      /\ Elems(freeList) = Elems(Tail(freeList)) \union {block}
      /\ Distinct(freeList) => Distinct(Tail(freeList)) /\ block \notin Elems(Tail(freeList))
  BY Taken DEF TypeOK, NewBlock
<1>2. /\ pc = "GET_BYTE_FIFO" /\ pc' = "BYTE_FIFO_IN" /\ chState' = "BYTE_FIFO_IN"
      /\ ptByteFifo' = block /\ freeList' = Tail(freeList)
      /\ tSizeInByte' = [tSizeInByte EXCEPT ![block] = 0]
      /\ tByteFifo' = InitEmpty(tByteFifo, block, tSizeInByte[block])
      /\ UNCHANGED <<bBusy, ptFifoSend, accepted, fifo, chMemory, CMAR, cpos, CNDTR, TCIF, sent>>
  BY DEF NewBlock, SizeReset
<1> HIDE DEF block
<1>3. Filling = {} /\ Filling' = {block} /\ Sending' = Sending
  BY <1>2 DEF Filling, Sending, DmaRunning
<1>4. tSizeInByte[block] = WRITE_BUFF_CNT
  BY <1>1, <1>3 DEF ChannelOK
<1>5. tByteFifo' = [pchBuffer |-> block, hwSize |-> WRITE_BUFF_CNT,
                    hwHead |-> 0, hwTail |-> 0, hwLength |-> 0]
  BY <1>2, <1>4 DEF InitEmpty
<1>6. tByteFifo' \in ByteFifoType(Blocks, WRITE_BUFF_CNT)
  BY <1>1, <1>5 DEF ByteFifoType
<1>7. TypeOK'
  <2>1. tSizeInByte' \in [Blocks -> 0 .. WRITE_BUFF_CNT]
    BY <1>1, <1>2 DEF TypeOK
  <2>2. /\ freeList' \in Seq(Blocks) /\ ptByteFifo' \in Blocks
        /\ UNCHANGED <<bBusy, ptFifoSend, accepted, fifo, chMemory, CMAR, cpos, CNDTR, TCIF, sent>>
        /\ chState' = "BYTE_FIFO_IN" /\ pc' = "BYTE_FIFO_IN"
    BY <1>1, <1>2
  <2>3. TypeOK
    OBVIOUS
  <2> HIDE DEF PoolInv
  <2> QED BY <1>6, <2>1, <2>2, <2>3 DEF TypeOK
<1>8. BlocksConserved'
  BY <1>1, <1>2, <1>3 DEF BlocksConserved
<1>9. BusyOwner' /\ NoStall'
  BY <1>2 DEF BusyOwner, NoStall, DmaRunning
<1>10. RingOK'
  BY <1>1, <1>2, <1>3, <1>5 DEF RingOK, TypeOK
<1>11. ChannelOK'
  BY <1>1, <1>2, <1>3 DEF ChannelOK, DmaRunning, TypeOK
<1> QED BY <1>7, <1>8, <1>9, <1>10, <1>11

\* Returning false moves no block.
LEMMA RefuseByteKeeps == PoolInv /\ RefuseByte => PoolInv'
<1> SUFFICES ASSUME PoolInv, RefuseByte PROVE PoolInv'
  OBVIOUS
<1> USE DEF PoolInv, RefuseByte
<1>1. TypeOK'
  BY DEF TypeOK
<1>2. Filling' = Filling /\ Sending' = Sending
  BY DEF Filling, Sending, DmaRunning, RingOK
<1>3. BlocksConserved'
  BY <1>2 DEF BlocksConserved
<1>4. BusyOwner' /\ NoStall'
  BY DEF BusyOwner, NoStall, DmaRunning
<1>5. RingOK' /\ ChannelOK'
  BY <1>2 DEF RingOK, ChannelOK, DmaRunning
<1> QED BY <1>1, <1>3, <1>4, <1>5

\* A byte sent leaves the channel the owner of its block until the flag is served.
LEMMA DmaByteKeeps == PoolInv /\ DmaByte => PoolInv'
<1> SUFFICES ASSUME PoolInv, DmaByte PROVE PoolInv'
  OBVIOUS
<1> USE WriteAssumption DEF PoolInv, DmaByte
<1>1. /\ CMAR \in Blocks /\ cpos + CNDTR = WRITE_BUFF_CNT /\ ~TCIF
      /\ cpos \in 0 .. WRITE_BUFF_CNT - 1 /\ CNDTR \in 1 .. WRITE_BUFF_CNT
  BY DEF ChannelOK, DmaRunning, TypeOK
<1>2. cpos' \in 0 .. WRITE_BUFF_CNT /\ CNDTR' \in 0 .. WRITE_BUFF_CNT
  BY <1>1
<1>0. /\ CNDTR = 1 => TCIF' = TRUE /\ CNDTR' = 0
      /\ CNDTR # 1 => TCIF' = FALSE /\ CNDTR' > 0
      /\ cpos' + CNDTR' = WRITE_BUFF_CNT
  <2>1. CASE CNDTR = 1
    <3>1. TCIF' = TRUE
      BY ONLY <2>1, TCIF' = (CNDTR = 1)
    <3> QED BY <1>1, <2>1, <3>1
  <2>2. CASE CNDTR # 1
    <3>1. TCIF' = FALSE
      BY ONLY <2>2, TCIF' = (CNDTR = 1)
    <3> QED BY <1>1, <2>2, <3>1
  <2> QED BY <2>1, <2>2
<1>3. DmaRunning /\ DmaRunning'
  BY <1>0, <1>1 DEF DmaRunning
<1>4. Filling' = Filling /\ Sending' = Sending
  BY <1>3 DEF Filling, Sending
<1>5. TypeOK'
  <2>1. chMemory[CMAR][cpos] \in Nat
    BY <1>1 DEF TypeOK
  <2>2. sent' \in Seq(Nat)
    BY <2>1 DEF TypeOK
  <2> QED BY <1>2, <2>2 DEF TypeOK
<1>6. BlocksConserved'
  BY <1>4 DEF BlocksConserved
<1>7. BusyOwner' /\ NoStall'
  BY <1>3 DEF BusyOwner, NoStall
<1>8. RingOK' /\ ChannelOK'
  BY <1>0, <1>1, <1>3, <1>4 DEF RingOK, ChannelOK
<1> QED BY <1>5, <1>6, <1>7, <1>8

\* The completion handler frees the block sent, gives up the claim and, with a
\* block queued, claims again and starts it.
LEMMA SendDataCplKeeps == PoolInv /\ SendDataCpl => PoolInv'
<1> SUFFICES ASSUME PoolInv, SendDataCpl PROVE PoolInv'
  OBVIOUS
<1> USE WriteAssumption DEF PoolInv
<1>1. /\ TCIF /\ CNDTR = 0 /\ ptFifoSend \in Blocks /\ ptFifoSend # NULL
      /\ pc \notin {"GET_BLOCK", "RELEASE_DMA", "DMA_START"}
      /\ DmaRunning /\ Sending = {ptFifoSend} /\ bBusy = TRUE
  BY DEF SendDataCpl, ChannelOK, BusyOwner, DmaRunning, Sending, TypeOK
<1>2. /\ freeList' = <<ptFifoSend>> \o freeList
      /\ freeList' \in Seq(Blocks)
      /\ Elems(freeList') = Elems(freeList) \union {ptFifoSend}
      /\ Distinct(freeList) /\ ptFifoSend \notin Elems(freeList) => Distinct(freeList')
  BY <1>1, Pushed DEF SendDataCpl, Freed, TypeOK
<1>3. TCIF' = FALSE /\ UNCHANGED <<mainVars, dataVars, sent>>
  BY DEF SendDataCpl
<1>4. Filling' = Filling
  BY <1>3 DEF Filling
<1>5. CASE fifo = << >>
  <2>1. ptFifoSend' = NULL /\ bBusy' = FALSE /\ UNCHANGED <<fifo, CMAR, cpos, CNDTR>>
    BY <1>5 DEF SendDataCpl, FlushAuto
  <2>2. ~DmaRunning' /\ Sending' = {}
    BY <1>1, <1>3, <2>1 DEF DmaRunning, Sending
  <2>3. TypeOK'
    BY <1>2, <1>3, <2>1 DEF TypeOK
  <2>4. BlocksConserved'
    BY <1>1, <1>2, <1>4, <2>1, <2>2 DEF BlocksConserved
  <2>5. BusyOwner' /\ NoStall'
    BY <1>1, <1>3, <1>5, <2>1, <2>2 DEF BusyOwner, NoStall
  <2>6. RingOK' /\ ChannelOK'
    BY <1>1, <1>3, <1>4, <2>1, <2>2 DEF RingOK, ChannelOK
  <2> QED BY <2>3, <2>4, <2>5, <2>6
<1>6. CASE fifo # << >>
  <2>1. /\ Head(fifo) \in Blocks /\ Tail(fifo) \in Seq(Blocks)
        /\ Elems(fifo) = Elems(Tail(fifo)) \union {Head(fifo)}
        /\ Distinct(fifo) => Distinct(Tail(fifo)) /\ Head(fifo) \notin Elems(Tail(fifo))
    BY <1>6, Taken DEF TypeOK
  <2>2. Head(fifo) \notin Filling
    BY <2>1 DEF BlocksConserved
  <2>3. /\ ptFifoSend' = Head(fifo) /\ fifo' = Tail(fifo) /\ bBusy' = TRUE
        /\ CMAR' = Head(fifo) /\ cpos' = 0 /\ CNDTR' = WRITE_BUFF_CNT
    BY <1>6, <2>1, <2>2 DEF SendDataCpl, FlushAuto, ProgramDma, ChannelOK
  <2>4. DmaRunning' /\ Sending' = {Head(fifo)}
    BY <2>3 DEF DmaRunning, Sending
  <2>5. TypeOK'
    <3>1. /\ 0 \in 0 .. WRITE_BUFF_CNT /\ WRITE_BUFF_CNT \in 0 .. WRITE_BUFF_CNT
          /\ freeList' \in Seq(Blocks) /\ fifo' \in Seq(Blocks)
      BY <1>2, <2>1, <2>3
    <3>2. TypeOK
      OBVIOUS
    <3> HIDE DEF PoolInv
    <3> QED BY <1>3, <2>1, <2>3, <3>1, <3>2 DEF TypeOK
  <2>6. BlocksConserved'
    BY <1>1, <1>2, <1>4, <2>1, <2>3, <2>4, SMTT(60) DEF BlocksConserved
  <2>7. BusyOwner' /\ NoStall'
    BY <1>1, <1>3, <2>3, <2>4 DEF BusyOwner, NoStall
  <2>8. RingOK' /\ ChannelOK'
    BY <1>1, <1>3, <1>4, <2>1, <2>3, <2>4 DEF RingOK, ChannelOK
  <2> QED BY <2>5, <2>6, <2>7, <2>8
<1> QED BY <1>5, <1>6

\* Every step of the writer, the channel and the interrupt keeps the pool invariant.
THEOREM PoolStep == PoolInv /\ [Next]_vars => PoolInv'
<1> SUFFICES ASSUME PoolInv, [Next]_vars PROVE PoolInv'
  OBVIOUS
<1>1. CASE UNCHANGED vars
  BY <1>1 DEF PoolInv, TypeOK, BlocksConserved, BusyOwner, NoStall, RingOK, ChannelOK,
              Filling, Sending, DmaRunning
<1>2. CASE Next
  BY <1>2, CallWriteKeeps, EnqueueByteKeeps, BlockIsFullKeeps, AppendBlockKeeps,
     ClaimDmaKeeps, FetchBlockKeeps, ReleaseDmaKeeps, StartDmaKeeps, NewBlockKeeps,
     RefuseByteKeeps, DmaByteKeeps, SendDataCplKeeps DEF Next, WriteStep
<1> QED BY <1>1, <1>2

\* The pool invariant holds in every reachable state.
THEOREM PoolAlways == Spec => []PoolInv
BY PoolInit, PoolStep, PTL DEF Spec

\* The types of the writer's state.
THEOREM TypeCorrect == Spec => []TypeOK
BY PoolAlways, PTL DEF PoolInv

\* Blocks are neither leaked nor shared, whatever the number of blocks and
\* wherever the interrupt falls.
THEOREM BlocksAreConserved == Spec => []BlocksConserved
BY PoolAlways, PTL DEF PoolInv

\* bBusy names the one context that may program the channel.
THEOREM BusyHasOwner == Spec => []BusyOwner
BY PoolAlways, PTL DEF PoolInv

\* The append-then-claim handshake never loses the wake-up of a queued block.
THEOREM NeverStalls == Spec => []NoStall
BY PoolAlways, PTL DEF PoolInv

\* Every free block can take a whole block of bytes.
THEOREM RecycledAreFull == Spec => []RecycledFull
<1>1. PoolInv => RecycledFull
  <2> SUFFICES ASSUME PoolInv, NEW i \in 1 .. Len(freeList)
               PROVE  tSizeInByte[freeList[i]] = WRITE_BUFF_CNT
    BY DEF RecycledFull
  <2>1. freeList[i] \in Blocks
    BY DEF PoolInv, TypeOK
  <2>2. freeList[i] \in Elems(freeList)
    BY DEF Elems
  <2> QED BY <2>1, <2>2 DEF PoolInv, BlocksConserved, ChannelOK
<1> QED BY <1>1, PoolAlways, PTL

\* The channel is programmed only when idle.
THEOREM DmaIsExclusive == Spec => DmaExclusive
<1>1. PoolInv /\ [Next]_vars => [CNDTR' > CNDTR => CNDTR = 0 /\ ~TCIF']_vars
  <2> SUFFICES ASSUME PoolInv, Next, CNDTR' > CNDTR PROVE CNDTR = 0 /\ ~TCIF'
    OBVIOUS
  <2>1. CNDTR \in Nat /\ TCIF \in BOOLEAN
    BY DEF PoolInv, TypeOK
  <2>2. CASE StartDma
    BY <2>1, <2>2 DEF StartDma, PoolInv, BusyOwner, DmaRunning
  <2>3. CASE SendDataCpl
    BY <2>1, <2>3 DEF SendDataCpl, PoolInv, ChannelOK
  <2>4. CASE DmaByte
    BY <2>1, <2>4 DEF DmaByte
  <2>5. CASE CallWrite \/ EnqueueByte \/ BlockIsFull \/ AppendBlock \/ ClaimDma
             \/ FetchBlock \/ ReleaseDma \/ NewBlock \/ RefuseByte
    BY <2>1, <2>5 DEF CallWrite, EnqueueByte, BlockIsFull, AppendBlock, ClaimDma,
                      FetchBlock, ReleaseDma, NewBlock, RefuseByte
  <2> QED BY <2>2, <2>3, <2>4, <2>5 DEF Next, WriteStep
<1> QED BY <1>1, PoolAlways, PTL DEF Spec, DmaExclusive

---------------------------------------------------------------------------
(* The bytes.  DataInv is inductive together with PoolInv.                  *)

DataInv == BytesInPlace /\ SentInOrder

\* Initially no byte was accepted and none sent.
THEOREM DataInit == Init => DataInv
<1> SUFFICES ASSUME Init PROVE DataInv
  OBVIOUS
<1>1. /\ Filling = {chCnt - 1} /\ tByteFifo.hwLength = 0 /\ fifo = << >> /\ sent = << >>
      /\ Len(fifo) = 0 /\ Len(sent) = 0 /\ accepted = 0 /\ CNDTR = 0 /\ pc = "idle"
  BY DEF Init, Filling
<1>2. FillBase = 1 /\ NextQueued = 1
  BY <1>1 DEF FillBase, NextQueued
<1>3. BytesInPlace
  BY <1>1, <1>2 DEF BytesInPlace
<1>4. SentInOrder
  BY <1>1 DEF SentInOrder
<1> QED BY <1>3, <1>4 DEF DataInv

\* Steps of the writer that move neither a byte nor a block keep the bytes in place.
LEMMA NothingMoved ==
  /\ DataInv
  /\ UNCHANGED <<accepted, fifo, chMemory, sent, CMAR, cpos, CNDTR, tByteFifo, ptByteFifo>>
  /\ Filling' = Filling
  /\ pc # "DMA_START" /\ pc' # "DMA_START"
  => DataInv'
<1> SUFFICES ASSUME DataInv,
                    UNCHANGED <<accepted, fifo, chMemory, sent, CMAR, cpos, CNDTR, tByteFifo, ptByteFifo>>,
                    Filling' = Filling, pc # "DMA_START", pc' # "DMA_START"
             PROVE  DataInv'
  OBVIOUS
<1>1. FillBase' = FillBase
  BY DEF FillBase
<1>2. NextQueued' = NextQueued
  BY <1>1 DEF NextQueued
<1>3. \A i \in 1 .. Len(fifo) : Run(fifo[i])' = Run(fifo[i])
  BY DEF Run
<1>4. BytesInPlace'
  BY <1>1, <1>2, <1>3 DEF DataInv, BytesInPlace, Run
<1>5. SentInOrder'
  BY DEF DataInv, SentInOrder
<1> QED BY <1>4, <1>5 DEF DataInv

\* What precedes the block being filled was accepted.
LEMMA InOrder == PoolInv /\ DataInv => /\ FillBase \in Nat /\ NextQueued \in Nat
                                      /\ NextQueued <= FillBase
                                      /\ FillBase <= accepted + 1
<1> SUFFICES ASSUME PoolInv, DataInv
             PROVE  /\ FillBase \in Nat /\ NextQueued \in Nat
                    /\ NextQueued <= FillBase /\ FillBase <= accepted + 1
  OBVIOUS
<1> USE WriteAssumption
<1>1. /\ accepted \in Nat /\ tByteFifo.hwLength \in Nat /\ Len(sent) \in Nat /\ CNDTR \in Nat
      /\ fifo \in Seq(Blocks) /\ WRITE_BUFF_CNT \in Nat
  BY DEF PoolInv, TypeOK, ByteFifoType
<1>2. FillBase \in Int /\ FillBase <= accepted + 1
  BY <1>1 DEF FillBase
<1>3. CASE fifo = << >>
  <2>1. NextQueued = FillBase
    BY <1>3 DEF NextQueued
  <2>2. NextQueued >= Len(sent) + 1
    BY <1>1, <1>2, <2>1 DEF DataInv, BytesInPlace
  <2> QED BY <1>1, <1>2, <2>1, <2>2
<1>4. CASE fifo # << >>
  <2>1. 1 \in 1 .. Len(fifo) /\ Head(fifo) = fifo[1] /\ fifo[1] \in Blocks
    BY <1>1, <1>4
  <2>2. chMemory[fifo[1]][0] \in Nat
    BY <2>1, <1>1, SMTT(60) DEF PoolInv, TypeOK
  <2>3. NextQueued = chMemory[fifo[1]][0]
    BY <1>4, <2>1 DEF NextQueued
  <2>4. chMemory[fifo[1]][0] + WRITE_BUFF_CNT <= FillBase
    BY <2>1 DEF DataInv, BytesInPlace
  <2> HIDE DEF FillBase, NextQueued
  <2> QED BY <1>1, <1>2, <2>2, <2>3, <2>4
<1> QED BY <1>3, <1>4

\* The byte stored is the next one of the block being filled.
LEMMA EnqueueByteKeepsData == PoolInv /\ DataInv /\ EnqueueByte => DataInv'
<1> SUFFICES ASSUME PoolInv, DataInv, EnqueueByte PROVE DataInv'
  OBVIOUS
<1> USE WriteAssumption
<1> DEFINE n == tByteFifo.hwLength
<1>1. /\ n \in 0 .. WRITE_BUFF_CNT - 1 /\ tByteFifo.hwTail = n /\ tByteFifo.pchBuffer = ptByteFifo
      /\ Filling = {ptByteFifo} /\ Filling' = {ptByteFifo} /\ ptByteFifo \in Blocks
      /\ pc = "BYTE_FIFO_IN" /\ pc' = "idle" /\ accepted \in Nat
  <2>1. Filling = {ptByteFifo} /\ Filling' = {ptByteFifo}
    BY DEF EnqueueByte, Filling
  <2> QED BY <2>1 DEF EnqueueByte, PoolInv, RingOK, IsFull, TypeOK, ByteFifoType
<1>2. tByteFifo'.hwLength = n + 1
  BY DEF EnqueueByte, Enqueued, PoolInv, TypeOK, ByteFifoType
<1>3. /\ \A b \in Blocks \ {ptByteFifo} : chMemory'[b] = chMemory[b]
      /\ chMemory'[ptByteFifo][n] = accepted + 1
      /\ \A k \in 0 .. WRITE_BUFF_CNT - 1 : k # n => chMemory'[ptByteFifo][k] = chMemory[ptByteFifo][k]
  <2>1. chMemory' = [chMemory EXCEPT ![ptByteFifo] = [chMemory[ptByteFifo] EXCEPT ![n] = accepted + 1]]
    BY <1>1 DEF EnqueueByte
  <2>2. /\ chMemory \in [Blocks -> [0 .. WRITE_BUFF_CNT - 1 -> Nat]]
        /\ chMemory[ptByteFifo] \in [0 .. WRITE_BUFF_CNT - 1 -> Nat]
    BY <1>1 DEF PoolInv, TypeOK
  <2> HIDE DEF n
  <2> QED BY <1>1, <2>1, <2>2
<1>4. /\ accepted' = accepted + 1
      /\ UNCHANGED <<bBusy, ptFifoSend, ptByteFifo, fifo, CMAR, cpos, CNDTR, sent>>
  BY DEF EnqueueByte
<1>5. FillBase' = FillBase /\ FillBase = accepted + 1 - n
  BY <1>1, <1>2, <1>4 DEF FillBase
<1>6. \A i \in 1 .. Len(fifo) : fifo[i] \in Blocks \ {ptByteFifo}
  <2> SUFFICES ASSUME NEW i \in 1 .. Len(fifo) PROVE fifo[i] \in Blocks \ {ptByteFifo}
    OBVIOUS
  <2>1. fifo[i] \in Blocks /\ fifo[i] \in Elems(fifo)
    BY DEF PoolInv, TypeOK, Elems
  <2> QED BY <1>1, <2>1 DEF PoolInv, BlocksConserved
<1>7. \A i \in 1 .. Len(fifo) : chMemory'[fifo[i]] = chMemory[fifo[i]]
  BY <1>3, <1>6
<1>8. NextQueued' = NextQueued
  <2>1. CASE fifo = << >>
    BY <1>4, <1>5, <2>1 DEF NextQueued
  <2>2. CASE fifo # << >>
    <3>1. Head(fifo) = fifo[1] /\ 1 \in 1 .. Len(fifo)
      BY <2>2 DEF PoolInv, TypeOK
    <3> QED BY <1>4, <1>7, <2>2, <3>1 DEF NextQueued
  <2> QED BY <2>1, <2>2
<1>9. CNDTR > 0 => CMAR \in Blocks \ {ptByteFifo}
  BY <1>1 DEF PoolInv, ChannelOK, DmaRunning, BlocksConserved, Sending
<1>10. BytesInPlace'
  <2>1. ASSUME NEW k \in 0 .. n PROVE chMemory'[ptByteFifo][k] = FillBase + k
    <3>1. CASE k = n
      <4> HIDE DEF FillBase, n
      <4> QED BY <1>1, <1>3, <1>5, <3>1
    <3>2. CASE k # n
      <4>1. k \in 0 .. n - 1 /\ k \in 0 .. WRITE_BUFF_CNT - 1
        BY <1>1, <3>2
      <4>2. chMemory[ptByteFifo][k] = FillBase + k
        BY <1>1, <4>1 DEF DataInv, BytesInPlace
      <4> QED BY <1>3, <3>2, <4>1, <4>2
    <3> QED BY <3>1, <3>2
  <2>2. ASSUME NEW i \in 1 .. Len(fifo)
        PROVE  /\ \A k \in 0 .. WRITE_BUFF_CNT - 1 : chMemory'[fifo[i]][k] = chMemory'[fifo[i]][0] + k
               /\ chMemory'[fifo[i]][0] + WRITE_BUFF_CNT
                    = IF i = Len(fifo) THEN FillBase ELSE chMemory'[fifo[i + 1]][0]
               /\ chMemory'[fifo[i]][0] + WRITE_BUFF_CNT <= FillBase
    <3>1. i # Len(fifo) => i + 1 \in 1 .. Len(fifo)
      BY DEF PoolInv, TypeOK
    <3>2. chMemory'[fifo[i]] = chMemory[fifo[i]]
          /\ (i # Len(fifo) => chMemory'[fifo[i + 1]] = chMemory[fifo[i + 1]])
      BY <1>7, <3>1
    <3>3. /\ Run(fifo[i])
          /\ chMemory[fifo[i]][0] + WRITE_BUFF_CNT
                = IF i = Len(fifo) THEN FillBase ELSE chMemory[fifo[i + 1]][0]
          /\ chMemory[fifo[i]][0] + WRITE_BUFF_CNT <= FillBase
      BY DEF DataInv, BytesInPlace
    <3> HIDE DEF FillBase
    <3> QED BY <3>2, <3>3 DEF Run
  <2>3. Len(sent) + 1 + CNDTR = NextQueued
    BY <1>1 DEF DataInv, BytesInPlace
  <2>4. CNDTR > 0 => \A k \in cpos .. WRITE_BUFF_CNT - 1 :
                       chMemory'[CMAR][k] = Len(sent) + 1 + (k - cpos)
    BY <1>3, <1>9 DEF DataInv, BytesInPlace
  <2> HIDE DEF FillBase, NextQueued
  <2>5. Filling' # {} => \A k \in 0 .. tByteFifo'.hwLength - 1 : chMemory'[ptByteFifo'][k] = FillBase' + k
    BY <1>1, <1>2, <1>4, <1>5, <2>1
  <2> QED BY <1>1, <1>4, <1>5, <1>8, <2>2, <2>3, <2>4, <2>5 DEF BytesInPlace, Run
<1>11. SentInOrder'
  BY <1>1, <1>4 DEF DataInv, SentInOrder, PoolInv, TypeOK
<1> QED BY <1>10, <1>11 DEF DataInv

\* The block queued holds the bytes that follow the last queued block's.
LEMMA AppendBlockKeepsData == PoolInv /\ DataInv /\ AppendBlock => DataInv'
<1> SUFFICES ASSUME PoolInv, DataInv, AppendBlock PROVE DataInv'
  OBVIOUS
<1> USE WriteAssumption
<1>1. /\ tByteFifo.hwLength = WRITE_BUFF_CNT /\ Filling = {ptByteFifo} /\ Filling' = {}
      /\ accepted \in Nat /\ fifo \in Seq(Blocks) /\ ptByteFifo \in Blocks
      /\ fifo' = Append(fifo, ptByteFifo) /\ pc = "APPEND" /\ pc' = "IS_DMA_BUSY"
      /\ UNCHANGED <<chMemory, sent, CMAR, cpos, CNDTR, accepted, ptByteFifo, tByteFifo>>
  BY DEF AppendBlock, Appended, PoolInv, TypeOK, RingOK, Filling
<1>2. FillBase = accepted + 1 - WRITE_BUFF_CNT /\ FillBase' = FillBase + WRITE_BUFF_CNT
  BY <1>1 DEF FillBase
<1>3. Run(ptByteFifo) /\ chMemory[ptByteFifo][0] = FillBase
  <2>1. \A k \in 0 .. WRITE_BUFF_CNT - 1 : chMemory[ptByteFifo][k] = FillBase + k
    BY <1>1 DEF DataInv, BytesInPlace
  <2>2. chMemory[ptByteFifo][0] = FillBase
    BY <1>1, <1>2, <2>1, SMTT(60)
  <2> QED BY <2>1, <2>2 DEF Run
<1>4. /\ Len(fifo') = Len(fifo) + 1 /\ fifo'[Len(fifo')] = ptByteFifo /\ Len(fifo) \in Nat
      /\ \A i \in 1 .. Len(fifo) : fifo'[i] = fifo[i]
      /\ fifo' # << >> /\ Head(fifo') = IF fifo = << >> THEN ptByteFifo ELSE Head(fifo)
  BY <1>1
<1>5. NextQueued' = NextQueued
  BY <1>1, <1>3, <1>4 DEF NextQueued
<1>6. ASSUME NEW i \in 1 .. Len(fifo')
      PROVE  /\ Run(fifo'[i])
             /\ chMemory[fifo'[i]][0] + WRITE_BUFF_CNT
                  = IF i = Len(fifo') THEN FillBase' ELSE chMemory[fifo'[i + 1]][0]
             /\ chMemory[fifo'[i]][0] + WRITE_BUFF_CNT <= FillBase'
  <2>1. CASE i = Len(fifo')
    <3> HIDE DEF FillBase
    <3> QED BY <1>1, <1>2, <1>3, <1>4, <2>1
  <2>2. CASE i \in 1 .. Len(fifo)
    <3>1. /\ Run(fifo[i]) /\ chMemory[fifo[i]][0] + WRITE_BUFF_CNT <= FillBase
          /\ chMemory[fifo[i]][0] + WRITE_BUFF_CNT
                = IF i = Len(fifo) THEN FillBase ELSE chMemory[fifo[i + 1]][0]
      BY <2>2 DEF DataInv, BytesInPlace
    <3>2. chMemory[fifo[i]][0] \in Nat
      <4>1. 0 \in 0 .. WRITE_BUFF_CNT - 1 /\ fifo[i] \in Blocks
        BY <1>1, <2>2
      <4> QED BY <4>1 DEF PoolInv, TypeOK
    <3>3. fifo'[i] = fifo[i] /\ i # Len(fifo') /\ (i # Len(fifo) => fifo'[i + 1] = fifo[i + 1])
      BY <1>4, <2>2
    <3>4. i = Len(fifo) => fifo'[i + 1] = ptByteFifo
      BY <1>4
    <3>5. FillBase \in Int
      BY <1>1, <1>2
    <3> HIDE DEF FillBase
    <3> QED BY <1>2, <1>3, <3>1, <3>2, <3>3, <3>4, <3>5, SMTT(60)
  <2> QED BY <1>4, <2>1, <2>2
<1>7. BytesInPlace'
  <2>1. Len(sent) + 1 + CNDTR = NextQueued
    BY <1>1 DEF DataInv, BytesInPlace
  <2>2. CNDTR > 0 => \A k \in cpos .. WRITE_BUFF_CNT - 1 :
                       chMemory[CMAR][k] = Len(sent) + 1 + (k - cpos)
    BY DEF DataInv, BytesInPlace
  <2> HIDE DEF FillBase, NextQueued
  <2> QED BY <1>1, <1>5, <1>6, <2>1, <2>2 DEF BytesInPlace, Run
<1>8. SentInOrder'
  BY <1>1 DEF DataInv, SentInOrder
<1> QED BY <1>7, <1>8 DEF DataInv

\* The first block of the queue holds the bytes due next, and the queue
\* without it starts with the bytes that follow.
LEMMA TakeFirst ==
  PoolInv /\ DataInv /\ fifo # << >> /\ fifo' = Tail(fifo)
  /\ UNCHANGED <<chMemory, accepted, tByteFifo, ptByteFifo>> /\ Filling' = Filling
  => /\ Run(Head(fifo)) /\ NextQueued = chMemory[Head(fifo)][0]
     /\ FillBase' = FillBase
     /\ NextQueued' = NextQueued + WRITE_BUFF_CNT
     /\ \A i \in 1 .. Len(fifo') :
          /\ \A k \in 0 .. WRITE_BUFF_CNT - 1 : chMemory'[fifo'[i]][k] = chMemory'[fifo'[i]][0] + k
          /\ chMemory'[fifo'[i]][0] + WRITE_BUFF_CNT
               = IF i = Len(fifo') THEN FillBase' ELSE chMemory'[fifo'[i + 1]][0]
          /\ chMemory'[fifo'[i]][0] + WRITE_BUFF_CNT <= FillBase'
<1> SUFFICES ASSUME PoolInv, DataInv, fifo # << >>, fifo' = Tail(fifo), Filling' = Filling,
                    UNCHANGED <<chMemory, accepted, tByteFifo, ptByteFifo>>
             PROVE  /\ Run(Head(fifo)) /\ NextQueued = chMemory[Head(fifo)][0]
                    /\ FillBase' = FillBase
                    /\ NextQueued' = NextQueued + WRITE_BUFF_CNT
                    /\ \A i \in 1 .. Len(fifo') :
                         /\ \A k \in 0 .. WRITE_BUFF_CNT - 1 :
                              chMemory'[fifo'[i]][k] = chMemory'[fifo'[i]][0] + k
                         /\ chMemory'[fifo'[i]][0] + WRITE_BUFF_CNT
                              = IF i = Len(fifo') THEN FillBase' ELSE chMemory'[fifo'[i + 1]][0]
                         /\ chMemory'[fifo'[i]][0] + WRITE_BUFF_CNT <= FillBase'
  OBVIOUS
<1>1. FillBase' = FillBase
  BY DEF FillBase
<1>2. fifo \in Seq(Blocks) /\ Len(fifo) \in Nat /\ Len(fifo) > 0 /\ Head(fifo) = fifo[1]
  BY DEF PoolInv, TypeOK
<1>3. /\ Len(fifo') = Len(fifo) - 1 /\ fifo' \in Seq(Blocks)
      /\ \A i \in 1 .. Len(fifo') : fifo'[i] = fifo[i + 1] /\ i + 1 \in 1 .. Len(fifo)
  BY <1>2
<1> DEFINE n == Len(fifo)  m == Len(fifo')
<1>9. n \in Nat /\ n > 0 /\ m = n - 1 /\ m \in Nat
  BY <1>2, <1>3
<1> HIDE DEF n, m
<1>4. \A i \in 1 .. Len(fifo) :
       /\ Run(fifo[i])
       /\ chMemory[fifo[i]][0] + WRITE_BUFF_CNT
            = IF i = Len(fifo) THEN FillBase ELSE chMemory[fifo[i + 1]][0]
       /\ chMemory[fifo[i]][0] + WRITE_BUFF_CNT <= FillBase
  BY DEF DataInv, BytesInPlace
<1>5. NextQueued = chMemory[Head(fifo)][0]
  BY DEF NextQueued
<1>6. Run(Head(fifo))
  BY <1>2, <1>4
<1>7. NextQueued' = NextQueued + WRITE_BUFF_CNT
  <2>1. CASE Len(fifo) = 1
    <3>1. fifo' = << >>
      BY <1>2, <1>3, <2>1
    <3>2. NextQueued' = FillBase
      BY <1>1, <3>1 DEF NextQueued
    <3>3. chMemory[fifo[1]][0] + WRITE_BUFF_CNT = FillBase
      BY <1>2, <1>4, <2>1
    <3> QED BY <1>2, <1>5, <3>2, <3>3
  <2>2. CASE Len(fifo) > 1
    <3>0. 1 \in 1 .. Len(fifo') /\ fifo'[1] = fifo[2]
      <4>1. 1 \in 1 .. m
        BY <1>9, <2>2 DEF n
      <4> QED BY <1>3, <4>1 DEF m
    <3>1. fifo' # << >> /\ Head(fifo') = fifo[2]
      <4>1. fifo' # << >> /\ Head(fifo') = fifo'[1]
        BY <1>3, <3>0, HeadIsFirst
      <4> QED BY <3>0, <4>1
    <3>2. NextQueued' = chMemory[fifo[2]][0]
      BY <3>1 DEF NextQueued
    <3>3. chMemory[fifo[1]][0] + WRITE_BUFF_CNT = chMemory[fifo[2]][0]
      BY <1>2, <1>4, <2>2
    <3> QED BY <1>2, <1>5, <3>2, <3>3
  <2>3. n = 1 \/ n > 1
    BY <1>9
  <2> QED BY <2>1, <2>2, <2>3 DEF n
<1>8. ASSUME NEW i \in 1 .. Len(fifo')
      PROVE  /\ \A k \in 0 .. WRITE_BUFF_CNT - 1 : chMemory'[fifo'[i]][k] = chMemory'[fifo'[i]][0] + k
             /\ chMemory'[fifo'[i]][0] + WRITE_BUFF_CNT
                  = IF i = Len(fifo') THEN FillBase' ELSE chMemory'[fifo'[i + 1]][0]
             /\ chMemory'[fifo'[i]][0] + WRITE_BUFF_CNT <= FillBase'
  <2>1. fifo'[i] = fifo[i + 1] /\ i + 1 \in 1 .. Len(fifo) /\ i \in Nat
        /\ (i = Len(fifo') <=> i + 1 = Len(fifo))
    BY <1>2, <1>3
  <2>2. i # Len(fifo') => fifo'[i + 1] = fifo[i + 1 + 1]
    <3>1. i \in 1 .. m
      BY DEF m
    <3>2. i # m => i + 1 \in 1 .. m
      BY <1>9, <3>1
    <3> QED BY <1>3, <3>2 DEF m
  <2>3. /\ Run(fifo[i + 1])
        /\ chMemory[fifo[i + 1]][0] + WRITE_BUFF_CNT
             = IF i + 1 = Len(fifo) THEN FillBase ELSE chMemory[fifo[i + 1 + 1]][0]
        /\ chMemory[fifo[i + 1]][0] + WRITE_BUFF_CNT <= FillBase
    BY <1>4, <2>1
  <2> HIDE DEF FillBase
  <2> QED BY <1>1, <2>1, <2>2, <2>3 DEF Run
<1> QED BY <1>1, <1>5, <1>6, <1>7, <1>8

\* The block the writer fetches holds the bytes next to be sent.
LEMMA FetchBlockKeepsData == PoolInv /\ DataInv /\ FetchBlock => DataInv'
<1> SUFFICES ASSUME PoolInv, DataInv, FetchBlock PROVE DataInv'
  OBVIOUS
<1>1. /\ pc = "GET_BLOCK" /\ pc' # "GET_BYTE_FIFO" /\ Filling = {} /\ Filling' = {} /\ CNDTR = 0
      /\ UNCHANGED <<accepted, chMemory, sent, CMAR, cpos, CNDTR, tByteFifo, ptByteFifo>>
  BY DEF FetchBlock, Filling, PoolInv, BusyOwner, DmaRunning, TypeOK
<1>2. CASE fifo = << >>
  BY <1>1, <1>2, NothingMoved DEF FetchBlock
<1>3. CASE fifo # << >>
  <2>1. fifo' = Tail(fifo) /\ ptFifoSend' = Head(fifo) /\ pc' = "DMA_START"
    BY <1>3 DEF FetchBlock
  <2>2. Len(sent) + 1 = NextQueued /\ Len(sent) \in Nat
    BY <1>1 DEF DataInv, BytesInPlace, PoolInv, TypeOK
  <2>3. /\ Run(Head(fifo)) /\ NextQueued = chMemory[Head(fifo)][0]
        /\ NextQueued' = NextQueued + WRITE_BUFF_CNT
        /\ \A i \in 1 .. Len(fifo') :
             /\ \A k \in 0 .. WRITE_BUFF_CNT - 1 : chMemory'[fifo'[i]][k] = chMemory'[fifo'[i]][0] + k
             /\ chMemory'[fifo'[i]][0] + WRITE_BUFF_CNT
                  = IF i = Len(fifo') THEN FillBase' ELSE chMemory'[fifo'[i + 1]][0]
             /\ chMemory'[fifo'[i]][0] + WRITE_BUFF_CNT <= FillBase'
    BY <1>1, <1>3, <2>1, TakeFirst
  <2>4. BytesInPlace'
    <3> HIDE DEF NextQueued, FillBase
    <3> QED BY <1>1, <2>1, <2>2, <2>3 DEF BytesInPlace, Run
  <2>5. SentInOrder'
    BY <1>1 DEF DataInv, SentInOrder
  <2> QED BY <2>4, <2>5 DEF DataInv
<1> QED BY <1>2, <1>3

\* The channel starts on the first byte of the block next to be sent.
LEMMA StartDmaKeepsData == PoolInv /\ DataInv /\ StartDma => DataInv'
<1> SUFFICES ASSUME PoolInv, DataInv, StartDma PROVE DataInv'
  OBVIOUS
<1> USE WriteAssumption
<1>1. /\ Filling = {} /\ Filling' = {} /\ CMAR' = ptFifoSend /\ cpos' = 0
      /\ CNDTR' = WRITE_BUFF_CNT /\ pc = "DMA_START" /\ pc' = "GET_BYTE_FIFO"
      /\ UNCHANGED <<accepted, chMemory, sent, fifo, tByteFifo, ptByteFifo>>
  BY DEF StartDma, ProgramDma, Filling, PoolInv, ChannelOK
<1>2. FillBase' = FillBase /\ NextQueued' = NextQueued
  BY <1>1 DEF FillBase, NextQueued
<1>3. /\ Run(ptFifoSend) /\ chMemory[ptFifoSend][0] = Len(sent) + 1 /\ Len(sent) \in Nat
      /\ Len(sent) + 1 + WRITE_BUFF_CNT = NextQueued
  BY <1>1 DEF DataInv, BytesInPlace, PoolInv, TypeOK
<1>4. BytesInPlace'
  <2>1. \A k \in cpos' .. WRITE_BUFF_CNT - 1 : chMemory[CMAR'][k] = Len(sent) + 1 + (k - cpos')
    BY <1>1, <1>3, SMTT(60) DEF Run
  <2>2. \A i \in 1 .. Len(fifo) :
       /\ Run(fifo[i])
       /\ chMemory[fifo[i]][0] + WRITE_BUFF_CNT
            = IF i = Len(fifo) THEN FillBase ELSE chMemory[fifo[i + 1]][0]
       /\ chMemory[fifo[i]][0] + WRITE_BUFF_CNT <= FillBase
    BY DEF DataInv, BytesInPlace
  <2> HIDE DEF FillBase, NextQueued
  <2> QED BY <1>1, <1>2, <1>3, <2>1, <2>2 DEF BytesInPlace, Run
<1>5. SentInOrder'
  BY <1>1 DEF DataInv, SentInOrder
<1> QED BY <1>4, <1>5 DEF DataInv

\* The new block holds no byte yet, and no waiting byte is in it.
LEMMA NewBlockKeepsData == PoolInv /\ DataInv /\ NewBlock => DataInv'
<1> SUFFICES ASSUME PoolInv, DataInv, NewBlock PROVE DataInv'
  OBVIOUS
<1> USE WriteAssumption
<1>1. /\ Filling = {} /\ Filling' # {} /\ pc = "GET_BYTE_FIFO" /\ pc' = "BYTE_FIFO_IN"
      /\ UNCHANGED <<accepted, chMemory, sent, fifo, CMAR, cpos, CNDTR>> /\ accepted \in Nat
  BY DEF NewBlock, Filling, PoolInv, TypeOK
<1>2. tByteFifo'.hwLength = 0
  <2>1. Head(freeList) \in Blocks
    BY Taken DEF NewBlock, PoolInv, TypeOK
  <2>2. tSizeInByte[Head(freeList)] # 0
    BY <1>1, <2>1 DEF PoolInv, ChannelOK
  <2> QED BY <2>2 DEF NewBlock, InitEmpty
<1>3. FillBase' = FillBase /\ NextQueued' = NextQueued
  <2>1. FillBase' = FillBase
    BY <1>1, <1>2 DEF FillBase
  <2> QED BY <1>1, <2>1 DEF NextQueued
<1>4. BytesInPlace'
  <2>1. \A i \in 1 .. Len(fifo) :
       /\ Run(fifo[i])
       /\ chMemory[fifo[i]][0] + WRITE_BUFF_CNT
            = IF i = Len(fifo) THEN FillBase ELSE chMemory[fifo[i + 1]][0]
       /\ chMemory[fifo[i]][0] + WRITE_BUFF_CNT <= FillBase
    BY DEF DataInv, BytesInPlace
  <2>2. /\ Len(sent) + 1 + CNDTR = NextQueued
        /\ CNDTR > 0 => \A k \in cpos .. WRITE_BUFF_CNT - 1 :
                         chMemory[CMAR][k] = Len(sent) + 1 + (k - cpos)
    BY <1>1 DEF DataInv, BytesInPlace
  <2> HIDE DEF FillBase, NextQueued
  <2> QED BY <1>1, <1>2, <1>3, <2>1, <2>2 DEF BytesInPlace, Run
<1>5. SentInOrder'
  BY <1>1 DEF DataInv, SentInOrder
<1> QED BY <1>4, <1>5 DEF DataInv

\* The byte the channel sends is the one after the last byte sent.
LEMMA DmaByteKeepsData == PoolInv /\ DataInv /\ DmaByte => DataInv'
<1> SUFFICES ASSUME PoolInv, DataInv, DmaByte PROVE DataInv'
  OBVIOUS
<1> USE WriteAssumption
<1>1. /\ CNDTR > 0 /\ CNDTR \in Nat /\ cpos \in Nat /\ cpos <= WRITE_BUFF_CNT - 1
      /\ pc # "DMA_START" /\ sent \in Seq(Nat) /\ Len(sent) \in Nat
      /\ UNCHANGED <<bBusy, ptFifoSend, mainVars, listVars, dataVars, CMAR>>
      /\ cpos' = cpos + 1 /\ CNDTR' = CNDTR - 1
  BY SMTT(60) DEF DmaByte, PoolInv, TypeOK, ChannelOK, BusyOwner, DmaRunning
<1>2. chMemory[CMAR][cpos] = Len(sent) + 1
  <2>1. cpos \in cpos .. WRITE_BUFF_CNT - 1
    BY <1>1
  <2>2. chMemory[CMAR][cpos] = Len(sent) + 1 + (cpos - cpos)
    BY <1>1, <2>1 DEF DataInv, BytesInPlace
  <2> QED BY <1>1, <2>2
<1>3. /\ sent' = Append(sent, Len(sent) + 1) /\ Len(sent') = Len(sent) + 1
      /\ \A i \in 1 .. Len(sent) : sent'[i] = sent[i]
      /\ sent'[Len(sent) + 1] = Len(sent) + 1
  BY <1>1, <1>2 DEF DmaByte
<1>4. FillBase' = FillBase /\ NextQueued' = NextQueued /\ Filling' = Filling
  <2>1. Filling' = Filling
    BY <1>1 DEF Filling
  <2>2. FillBase' = FillBase
    BY <1>1, <2>1 DEF FillBase
  <2> QED BY <1>1, <2>1, <2>2 DEF NextQueued
<1>5. Len(sent) + 1 + CNDTR = NextQueued
  BY <1>1 DEF DataInv, BytesInPlace
<1>6. BytesInPlace'
  <2>1. /\ Filling # {} =>
             \A k \in 0 .. tByteFifo.hwLength - 1 : chMemory[ptByteFifo][k] = FillBase + k
        /\ \A i \in 1 .. Len(fifo) :
             /\ Run(fifo[i])
             /\ chMemory[fifo[i]][0] + WRITE_BUFF_CNT
                  = IF i = Len(fifo) THEN FillBase ELSE chMemory[fifo[i + 1]][0]
             /\ chMemory[fifo[i]][0] + WRITE_BUFF_CNT <= FillBase
    BY DEF DataInv, BytesInPlace
  <2>2. Len(sent') + 1 + CNDTR' = NextQueued'
    BY <1>1, <1>3, <1>4, <1>5
  <2>3. ASSUME NEW k \in cpos' .. WRITE_BUFF_CNT - 1
        PROVE  chMemory[CMAR][k] = Len(sent') + 1 + (k - cpos')
    <3>1. k \in cpos .. WRITE_BUFF_CNT - 1
      BY <1>1
    <3>2. chMemory[CMAR][k] = Len(sent) + 1 + (k - cpos)
      BY <1>1, <3>1 DEF DataInv, BytesInPlace
    <3> QED BY <1>1, <1>3, <3>1, <3>2
  <2> HIDE DEF FillBase, NextQueued
  <2> QED BY <1>1, <1>4, <2>1, <2>2, <2>3 DEF BytesInPlace, Run
<1>7. SentInOrder'
  <2>1. Len(sent) + 1 <= accepted
    <3>1. /\ NextQueued \in Nat /\ FillBase \in Nat /\ NextQueued <= FillBase
          /\ FillBase <= accepted + 1 /\ accepted \in Nat
      BY InOrder DEF PoolInv, TypeOK
    <3> HIDE DEF NextQueued, FillBase
    <3> QED BY <1>1, <1>5, <3>1
  <2>2. accepted' = accepted
    BY <1>1
  <2>3. \A i \in 1 .. Len(sent') : sent'[i] = i
    BY <1>1, <1>3 DEF DataInv, SentInOrder
  <2> QED BY <1>3, <2>1, <2>2, <2>3 DEF SentInOrder
<1> QED BY <1>6, <1>7 DEF DataInv

\* The block the handler frees has been sent; the one it starts comes next.
LEMMA SendDataCplKeepsData == PoolInv /\ DataInv /\ SendDataCpl => DataInv'
<1> SUFFICES ASSUME PoolInv, DataInv, SendDataCpl PROVE DataInv'
  OBVIOUS
<1> USE WriteAssumption
<1>1. /\ CNDTR = 0 /\ pc # "DMA_START" /\ Filling' = Filling
      /\ UNCHANGED <<ptByteFifo, tByteFifo, pc, accepted, chMemory, sent>>
  BY DEF SendDataCpl, PoolInv, ChannelOK, BusyOwner, DmaRunning, Filling
<1>2. CASE fifo = << >>
  <2>1. UNCHANGED <<fifo, CMAR, cpos, CNDTR>>
    BY <1>2 DEF SendDataCpl, FlushAuto
  <2> QED BY <1>1, <2>1, NothingMoved
<1>3. CASE fifo # << >>
  <2>1. Head(fifo) \in Blocks /\ Head(fifo) \notin Filling
    <3>1. fifo \in Seq(Blocks)
      BY DEF PoolInv, TypeOK
    <3>2. Head(fifo) \in Blocks /\ Head(fifo) \in Elems(fifo)
      BY <1>3, <3>1, Taken
    <3> QED BY <3>2 DEF PoolInv, BlocksConserved
  <2>2. /\ fifo' = Tail(fifo) /\ CMAR' = Head(fifo) /\ cpos' = 0
        /\ CNDTR' = WRITE_BUFF_CNT
    BY <1>3, <2>1 DEF SendDataCpl, FlushAuto, ProgramDma, PoolInv, ChannelOK
  <2>3. Len(sent) + 1 = NextQueued /\ Len(sent) \in Nat
    BY <1>1 DEF DataInv, BytesInPlace, PoolInv, TypeOK
  <2>4. /\ Run(Head(fifo)) /\ NextQueued = chMemory[Head(fifo)][0] /\ FillBase' = FillBase
        /\ NextQueued' = NextQueued + WRITE_BUFF_CNT
        /\ \A i \in 1 .. Len(fifo') :
             /\ \A k \in 0 .. WRITE_BUFF_CNT - 1 : chMemory'[fifo'[i]][k] = chMemory'[fifo'[i]][0] + k
             /\ chMemory'[fifo'[i]][0] + WRITE_BUFF_CNT
                  = IF i = Len(fifo') THEN FillBase' ELSE chMemory'[fifo'[i + 1]][0]
             /\ chMemory'[fifo'[i]][0] + WRITE_BUFF_CNT <= FillBase'
    BY <1>1, <1>3, <2>2, TakeFirst
  <2>5. Filling # {} =>
          \A k \in 0 .. tByteFifo.hwLength - 1 : chMemory[ptByteFifo][k] = FillBase + k
    BY DEF DataInv, BytesInPlace
  <2>6. \A k \in 0 .. WRITE_BUFF_CNT - 1 : chMemory[Head(fifo)][k] = Len(sent) + 1 + (k - 0)
    BY <2>3, <2>4 DEF Run
  <2>7. BytesInPlace'
    <3> HIDE DEF NextQueued, FillBase
    <3> QED BY <1>1, <2>2, <2>3, <2>4, <2>5, <2>6 DEF BytesInPlace, Run
  <2>8. SentInOrder'
    BY <1>1 DEF DataInv, SentInOrder
  <2> QED BY <2>7, <2>8 DEF DataInv
<1> QED BY <1>2, <1>3

\* Every step keeps every byte where the channel will pick it up.
THEOREM DataStep == PoolInv /\ DataInv /\ [Next]_vars => DataInv'
<1> SUFFICES ASSUME PoolInv, DataInv, [Next]_vars PROVE DataInv'
  OBVIOUS
<1>1. CASE UNCHANGED vars
  BY <1>1 DEF DataInv, BytesInPlace, SentInOrder, FillBase, NextQueued, Filling, Run
<1>2. CASE CallWrite
  <2>1. Filling' = Filling /\ pc # "DMA_START" /\ pc' # "DMA_START"
    BY <1>2 DEF CallWrite, Filling, PoolInv, RingOK
  <2> QED BY <1>2, <2>1, NothingMoved DEF CallWrite
<1>3. CASE BlockIsFull
  <2>1. Filling' = Filling /\ pc # "DMA_START" /\ pc' # "DMA_START"
    BY <1>3 DEF BlockIsFull, Filling
  <2> QED BY <1>3, <2>1, NothingMoved DEF BlockIsFull
<1>4. CASE ClaimDma
  <2>1. Filling' = Filling /\ pc # "DMA_START" /\ pc' # "DMA_START"
    BY <1>4 DEF ClaimDma, Filling
  <2> QED BY <1>4, <2>1, NothingMoved DEF ClaimDma
<1>5. CASE ReleaseDma
  <2>1. Filling' = Filling /\ pc # "DMA_START" /\ pc' # "DMA_START"
    BY <1>5 DEF ReleaseDma, Filling
  <2> QED BY <1>5, <2>1, NothingMoved DEF ReleaseDma
<1>6. CASE RefuseByte
  <2>1. Filling' = Filling /\ pc # "DMA_START" /\ pc' # "DMA_START"
    BY <1>6 DEF RefuseByte, Filling, PoolInv, RingOK
  <2> QED BY <1>6, <2>1, NothingMoved DEF RefuseByte
<1> QED BY <1>1, <1>2, <1>3, <1>4, <1>5, <1>6, EnqueueByteKeepsData, AppendBlockKeepsData,
        FetchBlockKeepsData, StartDmaKeepsData, NewBlockKeepsData, DmaByteKeepsData,
        SendDataCplKeepsData DEF Next, WriteStep

\* Every accepted byte waits where the channel will find it, in its turn.
THEOREM BytesAlwaysInPlace == Spec => []BytesInPlace
BY PoolInit, PoolStep, DataInit, DataStep, PTL DEF Spec, DataInv

\* The wire carries exactly the bytes written, in order, for any number and
\* size of blocks and any placement of the interrupt between the writer's steps.
THEOREM SentIsInOrder == Spec => []SentInOrder
BY PoolInit, PoolStep, DataInit, DataStep, PTL DEF Spec, DataInv

---------------------------------------------------------------------------
(* The length of the queue, and the refinement of the byte pipe.            *)

\* zero_strm_write_init queues nothing.
LEMMA WholeInit == Init => QueuedWhole
<1> SUFFICES ASSUME Init PROVE QueuedWhole
  OBVIOUS
<1>1. /\ fifo = <<>> /\ Len(fifo) = 0 /\ accepted = 0 /\ tByteFifo.hwLength = 0
  BY DEF Init
<1>2. FillBase = 1 /\ NextQueued = 1
  BY <1>1 DEF FillBase, NextQueued
<1> QED BY <1>1, <1>2, WriteAssumption DEF QueuedWhole

\* A step that leaves the queue alone leaves its bytes alone.
LEMMA SameQueue ==
  ASSUME QueuedWhole, fifo' = fifo, FillBase' = FillBase,
         fifo # <<>> => chMemory'[Head(fifo)][0] = chMemory[Head(fifo)][0]
  PROVE  QueuedWhole'
<1>1. NextQueued' = NextQueued
  BY DEF NextQueued
<1> QED BY <1>1 DEF QueuedWhole

\* A step that takes the first block off the queue takes a block of bytes off it.
LEMMA ShorterQueue ==
  ASSUME PoolInv, DataInv, QueuedWhole, fifo # <<>>, fifo' = Tail(fifo), Filling' = Filling,
         UNCHANGED <<chMemory, accepted, tByteFifo, ptByteFifo>>
  PROVE  QueuedWhole'
<1> USE WriteAssumption
<1>0. PICK n \in Nat : Len(fifo) = n + 1
  <2>1. fifo \in Seq(Blocks)
    BY DEF PoolInv, TypeOK
  <2>2. Len(fifo) \in Nat /\ Len(fifo) # 0
    BY <2>1
  <2>3. Len(fifo) - 1 \in Nat /\ Len(fifo) = (Len(fifo) - 1) + 1
    BY <2>2
  <2> QED BY <2>3
<1>1. Len(fifo') = n
  BY <1>0 DEF PoolInv, TypeOK
<1>2. FillBase' = FillBase /\ NextQueued' = NextQueued + WRITE_BUFF_CNT
  BY TakeFirst
<1>3. FillBase \in Nat /\ NextQueued \in Nat /\ WRITE_BUFF_CNT \in Nat
  BY InOrder
<1>4. (n + 1) * WRITE_BUFF_CNT = n * WRITE_BUFF_CNT + WRITE_BUFF_CNT
  BY <1>3, OneMore
<1> DEFINE rest == n * WRITE_BUFF_CNT
<1>5. rest \in Nat
  BY <1>3
<1> HIDE DEF FillBase, NextQueued, rest
<1>6. FillBase - NextQueued = rest + WRITE_BUFF_CNT
  BY <1>0, <1>4 DEF QueuedWhole, rest
<1>7. FillBase' - NextQueued' = rest
  BY <1>2, <1>3, <1>5, <1>6
<1> QED BY <1>1, <1>7 DEF QueuedWhole, rest

\* The block appended is a full one.
LEMMA LongerQueue ==
  ASSUME PoolInv, DataInv, QueuedWhole, AppendBlock
  PROVE  QueuedWhole'
<1> USE WriteAssumption
<1>1. /\ tByteFifo.hwLength = WRITE_BUFF_CNT /\ Filling = {ptByteFifo} /\ Filling' = {}
      /\ accepted \in Nat /\ fifo \in Seq(Blocks) /\ ptByteFifo \in Blocks
      /\ fifo' = Append(fifo, ptByteFifo) /\ WRITE_BUFF_CNT \in Nat
      /\ UNCHANGED <<chMemory, accepted, ptByteFifo, tByteFifo>>
  BY DEF AppendBlock, Appended, PoolInv, TypeOK, RingOK, Filling
<1>2. FillBase = accepted + 1 - WRITE_BUFF_CNT /\ FillBase' = FillBase + WRITE_BUFF_CNT
  BY <1>1 DEF FillBase
<1>3. chMemory[ptByteFifo][0] = FillBase
  <2>1. \A k \in 0 .. WRITE_BUFF_CNT - 1 : chMemory[ptByteFifo][k] = FillBase + k
    BY <1>1 DEF DataInv, BytesInPlace
  <2> QED BY <1>1, <1>2, <2>1, SMTT(60)
<1>4. /\ Len(fifo') = Len(fifo) + 1 /\ Len(fifo) \in Nat
      /\ fifo' # << >> /\ Head(fifo') = IF fifo = << >> THEN ptByteFifo ELSE Head(fifo)
  BY <1>1
<1>5. NextQueued' = NextQueued
  BY <1>1, <1>3, <1>4 DEF NextQueued
<1> DEFINE queued == Len(fifo) * WRITE_BUFF_CNT
<1>6. FillBase \in Nat /\ NextQueued \in Nat /\ queued \in Nat
  BY <1>1, <1>4, InOrder
<1>7. Len(fifo') * WRITE_BUFF_CNT = queued + WRITE_BUFF_CNT
  BY <1>1, <1>4, OneMore
<1>8. FillBase - NextQueued = queued
  BY DEF QueuedWhole
<1> HIDE DEF FillBase, NextQueued, queued
<1>9. FillBase' - NextQueued' = queued + WRITE_BUFF_CNT
  BY <1>1, <1>2, <1>5, <1>6, <1>8
<1> QED BY <1>7, <1>9 DEF QueuedWhole

\* Every step keeps the queue as long in bytes as in blocks.
LEMMA WholeStep ==
  ASSUME PoolInv, DataInv, QueuedWhole, [Next]_vars
  PROVE  QueuedWhole'
<1> USE WriteAssumption
<1>1. CASE AppendBlock
  BY <1>1, LongerQueue
<1>2. CASE FetchBlock
  <2>1. UNCHANGED <<accepted, chMemory, tByteFifo, ptByteFifo>> /\ Filling' = Filling
    BY <1>2 DEF FetchBlock, Filling, PoolInv, TypeOK
  <2>2. CASE fifo = <<>>
    <3>1. FillBase' = FillBase
      BY <2>1 DEF FillBase
    <3> QED BY <1>2, <2>2, <3>1, SameQueue DEF FetchBlock
  <2>3. CASE fifo # <<>>
    BY <1>2, <2>1, <2>3, ShorterQueue DEF FetchBlock
  <2> QED BY <2>2, <2>3
<1>3. CASE SendDataCpl
  <2>1. UNCHANGED <<accepted, chMemory, tByteFifo, ptByteFifo>> /\ Filling' = Filling
    BY <1>3 DEF SendDataCpl, Filling
  <2>2. CASE fifo = <<>>
    <3>1. FillBase' = FillBase /\ fifo' = fifo
      BY <1>3, <2>1, <2>2 DEF FillBase, SendDataCpl, FlushAuto
    <3> QED BY <2>2, <3>1, SameQueue
  <2>3. CASE fifo # <<>>
    <3>1. fifo' = Tail(fifo)
      BY <1>3, <2>3 DEF SendDataCpl, FlushAuto
    <3> QED BY <2>1, <2>3, <3>1, ShorterQueue
  <2> QED BY <2>2, <2>3
<1>4. CASE EnqueueByte
  <2>1. /\ tByteFifo.hwLength \in Nat /\ accepted \in Nat /\ fifo \in Seq(Blocks)
        /\ tByteFifo'.hwLength = tByteFifo.hwLength + 1
        /\ Filling = {ptByteFifo} /\ Filling' = {ptByteFifo} /\ tByteFifo.pchBuffer = ptByteFifo
        /\ accepted' = accepted + 1 /\ fifo' = fifo
    BY <1>4 DEF EnqueueByte, Enqueued, Filling, PoolInv, TypeOK, RingOK, ByteFifoType
  <2>2. FillBase' = FillBase
    BY <2>1 DEF FillBase
  <2>3. ASSUME fifo # <<>> PROVE chMemory'[Head(fifo)] = chMemory[Head(fifo)]
    <3>1. Head(fifo) \in Blocks /\ Head(fifo) \in Elems(fifo)
      BY <2>1, <2>3, Taken
    <3>2. Head(fifo) # ptByteFifo
      BY <2>1, <3>1 DEF PoolInv, BlocksConserved
    <3>3. /\ chMemory' = [chMemory EXCEPT ![ptByteFifo][tByteFifo.hwTail] = accepted + 1]
          /\ chMemory \in [Blocks -> [0 .. WRITE_BUFF_CNT - 1 -> Nat]]
      BY <1>4, <2>1 DEF EnqueueByte, PoolInv, TypeOK
    <3> QED BY <3>1, <3>2, <3>3
  <2> QED BY <2>1, <2>2, <2>3, SameQueue
<1>5. CASE NewBlock
  <2>1. /\ Filling = {} /\ UNCHANGED <<accepted, chMemory, fifo>> /\ accepted \in Nat
    BY <1>5 DEF NewBlock, Filling, PoolInv, TypeOK
  <2>2. tByteFifo'.hwLength = 0
    <3>1. Head(freeList) \in Blocks
      BY <1>5, Taken DEF NewBlock, PoolInv, TypeOK
    <3>2. tSizeInByte[Head(freeList)] # 0
      BY <2>1, <3>1 DEF PoolInv, ChannelOK
    <3> QED BY <1>5, <3>2 DEF NewBlock, InitEmpty
  <2>3. FillBase' = FillBase
    BY <2>1, <2>2 DEF FillBase
  <2> QED BY <2>1, <2>3, SameQueue
<1>6. CASE \/ CallWrite \/ BlockIsFull \/ ClaimDma \/ ReleaseDma \/ StartDma \/ RefuseByte
           \/ DmaByte \/ UNCHANGED vars
  <2>1. UNCHANGED <<accepted, chMemory, fifo, tByteFifo, ptByteFifo>>
    BY <1>6 DEF CallWrite, BlockIsFull, ClaimDma, ReleaseDma, StartDma, RefuseByte, DmaByte
  <2>2. Filling' = Filling
    BY <1>6 DEF CallWrite, BlockIsFull, ClaimDma, ReleaseDma, StartDma, RefuseByte, DmaByte,
                Filling, PoolInv, RingOK
  <2>3. FillBase' = FillBase
    BY <2>1, <2>2 DEF FillBase
  <2> QED BY <2>1, <2>3, SameQueue
<1> QED BY <1>1, <1>2, <1>3, <1>4, <1>5, <1>6 DEF Next, WriteStep

\* The bytes accepted and not sent are in the queue, the channel and the block being
\* filled.
LEMMA Backlog ==
  ASSUME PoolInv, DataInv, QueuedWhole, pc # "DMA_START"
  PROVE  accepted - Len(sent)
           = Len(fifo) * WRITE_BUFF_CNT + CNDTR + (IF Filling = {} THEN 0 ELSE tByteFifo.hwLength)
<1> USE WriteAssumption
<1> DEFINE queued == Len(fifo) * WRITE_BUFF_CNT
           filled == IF Filling = {} THEN 0 ELSE tByteFifo.hwLength
<1>1. /\ accepted \in Nat /\ filled \in Nat /\ Len(sent) \in Nat /\ CNDTR \in Nat
      /\ Len(fifo) \in Nat /\ WRITE_BUFF_CNT \in Nat
  <2>1. tByteFifo \in ByteFifoType(Blocks, WRITE_BUFF_CNT)
    BY DEF PoolInv, TypeOK
  <2>2. filled \in Nat
    BY <2>1 DEF ByteFifoType
  <2> QED BY <2>2 DEF PoolInv, TypeOK
<1>2. queued \in Nat
  BY <1>1
<1>3. FillBase = accepted + 1 - filled
  BY DEF FillBase
<1>4. FillBase \in Nat /\ NextQueued \in Nat
  BY InOrder
<1>5. FillBase - NextQueued = queued
  BY DEF QueuedWhole
<1>6. Len(sent) + 1 + CNDTR = NextQueued
  BY DEF DataInv, BytesInPlace
<1> HIDE DEF queued, filled, FillBase, NextQueued
<1>7. accepted - Len(sent) = queued + CNDTR + filled
  BY <1>1, <1>2, <1>3, <1>4, <1>5, <1>6
<1> QED BY <1>7 DEF queued, filled

\* The queue is as long in bytes as in blocks, always.
LEMMA WholeAlways == Spec => [](PoolInv /\ DataInv /\ QueuedWhole)
<1>1. PoolInv /\ DataInv /\ QueuedWhole /\ [Next]_vars => QueuedWhole'
  BY WholeStep
<1> QED BY PoolInit, PoolStep, DataInit, DataStep, WholeInit, <1>1, PTL DEF Spec

\* zero_strm_write returns false only when the channel is at work and every block
\* but the one it sends is full and in the queue.
LEMMA FalseStepIsFull ==
  ASSUME PoolInv, DataInv, QueuedWhole, [Next]_vars, pc = "GET_BYTE_FIFO", pc' = "idle"
  PROVE  /\ DmaRunning
         /\ accepted - Len(sent) >= (chCnt - 1) * WRITE_BUFF_CNT
<1> USE WriteAssumption
<1>1. freeList = <<>>
  BY DEF Next, WriteStep, CallWrite, EnqueueByte, BlockIsFull, AppendBlock, ClaimDma,
         FetchBlock, ReleaseDma, StartDma, NewBlock, RefuseByte, DmaByte, SendDataCpl
<1>2. /\ Filling = {} /\ Elems(freeList) = {} /\ fifo \in Seq(Blocks) /\ CNDTR \in Nat
      /\ chCnt \in Nat /\ chCnt > 0 /\ WRITE_BUFF_CNT \in Nat
  BY <1>1, EmptyList DEF Filling, PoolInv, TypeOK
<1>3. Elems(fifo) \union Sending = Blocks
  BY <1>2 DEF PoolInv, BlocksConserved
<1>4. DmaRunning
  <2> SUFFICES ASSUME ~DmaRunning PROVE FALSE
    OBVIOUS
  <2>1. Sending = {} /\ fifo = <<>>
    BY DEF Sending, PoolInv, BusyOwner, NoStall
  <2>2. 0 \in Blocks
    BY <1>2 DEF Blocks
  <2> QED BY <1>3, <2>1, <2>2, EmptyList
<1>5. Sending = {ptFifoSend} /\ ptFifoSend \in Blocks
  BY <1>4 DEF Sending, PoolInv, ChannelOK
<1>6. chCnt <= Len(fifo) + 1
  <2> DEFINE held == Append(fifo, ptFifoSend)
  <2>1. /\ held \in Seq(Blocks) /\ Elems(held) = Elems(fifo) \union {ptFifoSend}
        /\ Len(held) = Len(fifo) + 1
    BY <1>2, <1>5, AppendedLast
  <2>2. held \in Seq(0 .. chCnt - 1) /\ 0 .. chCnt - 1 \subseteq Elems(held)
    BY <1>3, <1>5, <2>1 DEF Blocks
  <2> HIDE DEF held
  <2>3. chCnt <= Len(held)
    BY <1>2, <2>2, ListOfAll
  <2> QED BY <2>1, <2>3
<1>7. (chCnt - 1) * WRITE_BUFF_CNT <= Len(fifo) * WRITE_BUFF_CNT
  <2>1. chCnt - 1 \in Nat /\ Len(fifo) \in Nat /\ chCnt - 1 <= Len(fifo)
    BY <1>2, <1>6
  <2> QED BY <1>2, <2>1, MoreBlocks
<1>8. accepted - Len(sent) = Len(fifo) * WRITE_BUFF_CNT + CNDTR
  <2>1. accepted - Len(sent) = Len(fifo) * WRITE_BUFF_CNT + CNDTR + 0
    BY <1>2, Backlog
  <2> QED BY <1>2, <2>1
<1> DEFINE most == (chCnt - 1) * WRITE_BUFF_CNT  queued == Len(fifo) * WRITE_BUFF_CNT
<1>9. most \in Nat /\ queued \in Nat
  BY <1>2
<1> HIDE DEF most, queued
<1>10. accepted - Len(sent) >= most
  BY <1>2, <1>7, <1>8, <1>9 DEF most, queued
<1> QED BY <1>4, <1>10 DEF most

THEOREM FalseIsFull == Spec => FalseMeansFull
<1>1. PoolInv /\ DataInv /\ QueuedWhole /\ [Next]_vars
        => [pc = "GET_BYTE_FIFO" /\ pc' = "idle" =>
              /\ DmaRunning
              /\ accepted - Len(sent) >= (chCnt - 1) * WRITE_BUFF_CNT]_vars
  BY FalseStepIsFull
<1> QED BY WholeAlways, <1>1, PTL DEF Spec, FalseMeansFull

\* A call stores a byte as its last step, or ends in the FSM's wait for a block.
LEMMA CallEnds ==
  ASSUME PoolInv, CallWrite \/ WriteStep
  PROVE  /\ accepted' = accepted \/ (accepted' = accepted + 1 /\ pc' = "idle")
         /\ accepted' = accepted /\ pc' = "idle" => pc = "GET_BYTE_FIFO"
BY DEF PoolInv, TypeOK, CallWrite, WriteStep, EnqueueByte, BlockIsFull, AppendBlock, ClaimDma,
       FetchBlock, ReleaseDma, StartDma, NewBlock, RefuseByte

\* A block with room for a byte leaves the pipe room for one.
LEMMA WriterHasRoom ==
  ASSUME PoolInv, DataInv, QueuedWhole, EnqueueByte
  PROVE  accepted - Len(sent) < chCnt * WRITE_BUFF_CNT
<1> USE WriteAssumption
<1> DEFINE W == WRITE_BUFF_CNT  running == IF CNDTR = 0 THEN 0 ELSE 1
<1>0. PICK n \in Nat : n = Len(fifo)
  BY DEF PoolInv, TypeOK
<1>1. /\ fifo \in Seq(Blocks) /\ ptByteFifo \in Blocks /\ CNDTR \in 0 .. W /\ W \in Nat
      /\ W > 0 /\ chCnt \in Nat /\ accepted \in Nat /\ Len(sent) \in Nat
      /\ tByteFifo.hwLength \in Nat /\ pc = "BYTE_FIFO_IN"
  BY DEF EnqueueByte, PoolInv, TypeOK, ByteFifoType
<1>2. Filling = {ptByteFifo} /\ tByteFifo.hwLength < W
  <2>1. Filling = {ptByteFifo}
    BY <1>1 DEF Filling
  <2>2. tByteFifo.hwLength \in 0 .. W
    BY DEF PoolInv, TypeOK, ByteFifoType
  <2>3. tByteFifo.hwLength # W
    BY <1>1 DEF EnqueueByte, IsFull, PoolInv, RingOK
  <2> QED BY <2>1, <2>2, <2>3
<1>3. n + running + 1 <= chCnt
  <2>0. ASSUME NEW list \in Seq(Blocks), Distinct(list) PROVE Len(list) <= chCnt
    <3>1. list \in Seq(0 .. chCnt - 1)
      BY DEF Blocks
    <3> QED BY <1>1, <2>0, <3>1, ListFits
  <2>1. Distinct(fifo) /\ ptByteFifo \notin Elems(fifo)
    BY <1>2 DEF PoolInv, BlocksConserved
  <2> DEFINE held == Append(fifo, ptByteFifo)
  <2>2. /\ held \in Seq(Blocks) /\ Distinct(held)
        /\ Elems(held) = Elems(fifo) \union {ptByteFifo}
    BY <1>1, <2>1, AppendedLast
  <2>3. Len(held) = n + 1
    BY <1>0, <1>1
  <2> HIDE DEF held
  <2>4. CASE CNDTR = 0
    <3>1. n + 1 <= chCnt
      BY <2>0, <2>2, <2>3
    <3> QED BY <2>4, <3>1
  <2>5. CASE CNDTR # 0
    <3>1. DmaRunning
      BY <1>1, <2>5 DEF DmaRunning
    <3>2. Sending = {ptFifoSend} /\ ptFifoSend \in Blocks
      BY <3>1 DEF Sending, PoolInv, ChannelOK
    <3>3. ptFifoSend \notin Elems(held)
      BY <1>2, <2>2, <3>2 DEF PoolInv, BlocksConserved
    <3>4. Append(held, ptFifoSend) \in Seq(Blocks) /\ Distinct(Append(held, ptFifoSend))
      BY <2>2, <3>2, <3>3, AppendedLast
    <3>5. Len(Append(held, ptFifoSend)) = n + 2
      BY <2>2, <2>3, <3>2
    <3>6. n + 2 <= chCnt
      BY <2>0, <3>4, <3>5
    <3> QED BY <2>5, <3>6
  <2> QED BY <2>4, <2>5
<1>4. accepted - Len(sent) = n * W + CNDTR + tByteFifo.hwLength
  BY <1>0, <1>1, <1>2, Backlog
<1> DEFINE queued == n * W  sending == running * W
           total == (n + running + 1) * W  capacity == chCnt * W
<1>5. running \in Nat /\ running \in {0, 1}
  OBVIOUS
<1>6. CNDTR <= sending
  BY <1>1
<1>7. queued + sending + W = total
  <2>1. n * W + 1 * W = (n + 1) * W /\ (n + 0) * W = n * W
    BY <1>1, OneMore
  <2>2. (n + running + 1) * W = (n + running) * W + W
    BY <1>1, <1>5, OneMore
  <2>3. (n + running) * W = n * W + running * W
    BY <1>1, <1>5, <2>1
  <2> QED BY <2>2, <2>3
<1>8. total <= capacity
  <2>1. n + running + 1 \in Nat
    BY <1>5
  <2> HIDE DEF running
  <2> QED BY <1>1, <1>3, <2>1, MoreBlocks
<1>9. queued \in Nat /\ sending \in Nat /\ total \in Nat /\ capacity \in Nat
  <2>1. queued \in Nat /\ sending \in Nat /\ capacity \in Nat
    BY <1>1, <1>5
  <2> QED BY <1>1, <1>7, <2>1
<1> HIDE DEF running, queued, sending, total, capacity
<1>10. accepted - Len(sent) = queued + CNDTR + tByteFifo.hwLength
  BY <1>4 DEF queued
<1>11. accepted - Len(sent) < capacity
  BY <1>1, <1>2, <1>6, <1>7, <1>8, <1>9, <1>10
<1> QED BY <1>11 DEF capacity

\* A step of the writer is a byte accepted, a byte sent or neither.
LEMMA WriteStepIsPipeStep ==
  ASSUME PoolInv, DataInv, QueuedWhole, [Next]_vars
  PROVE  [Pipe!Accept \/ Pipe!Deliver]_(Pipe!channelVars)
<1>1. CASE EnqueueByte
  <2>1. accepted - Len(sent) < chCnt * WRITE_BUFF_CNT
    BY <1>1, WriterHasRoom
  <2> QED BY <1>1, <2>1 DEF EnqueueByte, Pipe!Accept
<1>2. CASE DmaByte
  <2>1. DataInv'
    BY <1>2, DmaByteKeepsData
  <2>2. /\ sent \in Seq(Nat) /\ accepted \in Nat /\ accepted' = accepted
        /\ sent' = Append(sent, chMemory[CMAR][cpos])
    BY <1>2 DEF DmaByte, PoolInv, TypeOK
  <2>3. Len(sent') = Len(sent) + 1 /\ Len(sent) + 1 \in 1 .. Len(sent')
    BY <2>2
  <2>4. Len(sent') <= accepted' /\ sent'[Len(sent) + 1] = Len(sent) + 1
    BY <2>1, <2>3 DEF DataInv, SentInOrder
  <2>5. Len(sent) < accepted
    BY <2>2, <2>3, <2>4
  <2>6. sent' = Append(sent, Len(sent) + 1)
    BY <2>2, <2>4
  <2> QED BY <2>2, <2>5, <2>6 DEF Pipe!Deliver
<1>3. CASE ~EnqueueByte /\ ~DmaByte
  <2>1. UNCHANGED <<accepted, sent>>
    BY <1>3 DEF Next, WriteStep, CallWrite, BlockIsFull, AppendBlock, ClaimDma, FetchBlock,
                ReleaseDma, StartDma, NewBlock, RefuseByte, SendDataCpl
  <2> QED BY <2>1 DEF Pipe!channelVars
<1> QED BY <1>1, <1>2, <1>3

\* The writer implements the byte pipe of all its blocks.
THEOREM WriterIsPipe == Spec => PipeSpec
<1>1. Init => Pipe!Init
  BY DEF Init, Pipe!Init
<1>2. PoolInv /\ DataInv /\ QueuedWhole /\ [Next]_vars
        => [Pipe!Accept \/ Pipe!Deliver]_(Pipe!channelVars)
  BY WriteStepIsPipeStep
<1> QED BY WholeAlways, <1>1, <1>2, PTL DEF Spec, PipeSpec, Pipe!Spec
=============================================================================
