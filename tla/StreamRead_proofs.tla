-------------------------- MODULE StreamRead_proofs --------------------------
(***************************************************************************)
(* Proofs about StreamRead for any number of blocks of any size and a timer*)
(* of any length, and at the end about StreamReadNested.                   *)
(***************************************************************************)
EXTENDS StreamReadNested, Lists_proofs

\* Definitions that only name tuples of variables.
USE DEF vars, mainVars, listVars, dataVars, timerVars, flushVars, dmaVars, lineVars

\* zero_strm_read_init gives the channel and the reader a block each.
THEOREM ReadInit == Init => ReadInv
<1> SUFFICES ASSUME Init PROVE ReadInv
  OBVIOUS
<1> USE ReadAssumption DEF Init, Blocks
<1>1. /\ freeList \in Seq(Blocks) /\ Len(freeList) = chCnt - 2
      /\ \A i \in 1 .. chCnt - 2 : freeList[i] = chCnt - 2 - i
      /\ fifo = << >> /\ fifo \in Seq(Blocks)
  OBVIOUS
<1>2. TypeOK
  <2>1. tSizeInByte \in [Blocks -> 0 .. READ_BUFF_CNT]
    OBVIOUS
  <2>2. chMemory \in [Blocks -> [0 .. READ_BUFF_CNT - 1 -> Nat]]
    OBVIOUS
  <2>3. tByteFifo \in ByteFifoType(Blocks, READ_BUFF_CNT)
    BY DEF ByteFifoType
  <2>4. delivered \in Seq(Nat)
    OBVIOUS
  <2>5. /\ bBusy = FALSE /\ bUartIdle = FALSE /\ bTimerStart = FALSE
        /\ wTimeStamp \in 0 .. wSetTime /\ hwDmaCntUartIdle \in 0 .. READ_BUFF_CNT
        /\ ptByteFifoDmaRx \in Blocks /\ ptByteFifo \in Blocks
        /\ chState = "START" /\ pc = "idle" /\ isr = "none" /\ ptFlush = NULL
        /\ hwDataCnt \in 0 .. READ_BUFF_CNT /\ CMAR \in Blocks
        /\ CNDTR \in 0 .. READ_BUFF_CNT /\ HTIF = FALSE
        /\ line = "quiet" /\ IDLE = FALSE /\ sinceIdle = FALSE /\ arrived = 0
    OBVIOUS
  <2> HIDE DEF Init, Blocks
  <2> QED BY <1>1, <2>1, <2>2, <2>3, <2>4, <2>5 DEF TypeOK
<1>3. BlocksConserved
  <2>1. Elems(freeList) = 0 .. chCnt - 3
    <3> HIDE DEF Init
    <3>1. \A b \in 0 .. chCnt - 3 : chCnt - 2 - b \in 1 .. chCnt - 2 /\ freeList[chCnt - 2 - b] = b
      BY <1>1
    <3>2. \A b \in 0 .. chCnt - 3 : b \in Elems(freeList)
      BY <1>1, <3>1 DEF Elems
    <3>3. \A i \in 1 .. Len(freeList) : freeList[i] \in 0 .. chCnt - 3
      BY <1>1
    <3>4. \A b \in Elems(freeList) : b \in 0 .. chCnt - 3
      BY <3>3 DEF Elems
    <3> QED BY <3>2, <3>4
  <2>2. Distinct(freeList)
    BY <1>1 DEF Distinct
  <2>3. Elems(fifo) = {} /\ Distinct(fifo)
    BY EmptyList
  <2>4. Reading = {chCnt - 2} /\ Spare = {} /\ ptByteFifoDmaRx = chCnt - 1
    BY DEF Reading, Spare
  <2> HIDE DEF Init
  <2> QED BY <2>1, <2>2, <2>3, <2>4 DEF BlocksConserved
<1>4. ChannelFillsRx /\ QueuedHoldBytes
  BY DEF ChannelFillsRx, QueuedHoldBytes
<1>5. RingRead /\ FlushOK
  BY DEF RingRead, FlushOK
<1> QED BY <1>2, <1>3, <1>4, <1>5 DEF ReadInv

---------------------------------------------------------------------------
(* The hardware and the interrupts.                                         *)

\* A byte changes the memory and the counter only, and comes while a block is
\* free: the next flush will find one.
LEMMA ByteArrivesKeeps == ReaderKeepsUp /\ ReadInv /\ ByteArrives => ReadInv'
<1> SUFFICES ASSUME ReaderKeepsUp, ReadInv, ByteArrives PROVE ReadInv'
  OBVIOUS
<1> USE ReadAssumption DEF ReadInv, ByteArrives
<1>1. /\ CNDTR' \in 0 .. READ_BUFF_CNT /\ HTIF' \in BOOLEAN /\ arrived' \in Nat
  <2>1. /\ READ_BUFF_CNT \in Nat /\ CNDTR \in 0 .. READ_BUFF_CNT
        /\ HTIF \in BOOLEAN /\ arrived \in Nat
    BY DEF TypeOK
  <2>2. /\ CNDTR' = CNDTR /\ HTIF' = HTIF
        \/ /\ CNDTR > 0 /\ CNDTR' = CNDTR - 1
           /\ HTIF' = (HTIF \/ CNDTR' = READ_BUFF_CNT \div 2)
    OBVIOUS
  <2>3. arrived' = arrived + 1
    OBVIOUS
  <2> HIDE DEF ReadInv, ByteArrives
  <2>4. HTIF' \in BOOLEAN
    BY <2>1, <2>2, Zenon
  <2>5. CNDTR' \in 0 .. READ_BUFF_CNT
    BY <2>1, <2>2
  <2> QED BY <2>1, <2>3, <2>4, <2>5
<1>2. chMemory' \in [Blocks -> [0 .. READ_BUFF_CNT - 1 -> Nat]]
  <2>1. CASE ~(CNDTR > 0)
    <3>1. chMemory' = chMemory
      BY <2>1
    <3> QED BY <3>1 DEF TypeOK
  <2>2. CASE CNDTR > 0
    <3> DEFINE k == READ_BUFF_CNT - CNDTR
               cell == [chMemory[CMAR] EXCEPT ![k] = arrived + 1]
    <3>1. /\ chMemory \in [Blocks -> [0 .. READ_BUFF_CNT - 1 -> Nat]]
          /\ CMAR \in Blocks /\ arrived \in Nat
      BY DEF TypeOK
    <3>2. chMemory' = [chMemory EXCEPT ![CMAR] = cell]
      <4>1. CNDTR # 0
        BY <2>2
      <4> QED BY <4>1
    <3> HIDE DEF k, ReadInv, ByteArrives
    <3>3. cell \in [0 .. READ_BUFF_CNT - 1 -> Nat]
      <4>1. chMemory[CMAR] \in [0 .. READ_BUFF_CNT - 1 -> Nat] /\ arrived + 1 \in Nat
        BY <3>1
      <4> QED BY <4>1
    <3> HIDE DEF cell
    <3> QED BY <3>1, <3>2, <3>3
  <2> QED BY <2>1, <2>2
<1>3. TypeOK'
  BY <1>1, <1>2, ZenonT(60) DEF TypeOK
<1>4. BlocksConserved' /\ ChannelFillsRx' /\ QueuedHoldBytes' /\ RingRead'
  BY DEF BlocksConserved, Reading, Spare, ChannelFillsRx, QueuedHoldBytes, RingRead
<1>5. FlushOK'
  BY DEF FlushOK
<1> QED BY <1>3, <1>4, <1>5

\* The line's silence, and the two handlers that only take notes or a claim.
LEMMA NotesKeep ==
  ReadInv /\ (LineGoesIdle \/ UartIdleIrq \/ DmaHalfIrq \/ TickIrq) => ReadInv'
<1> SUFFICES ASSUME ReadInv, LineGoesIdle \/ UartIdleIrq \/ DmaHalfIrq \/ TickIrq
             PROVE ReadInv'
  OBVIOUS
<1> USE ReadAssumption DEF ReadInv
<1>1. TypeOK'
  <2>1. CASE LineGoesIdle
    BY <2>1, ZenonT(60) DEF LineGoesIdle, TypeOK
  <2>2. CASE UartIdleIrq
    <3>1. wTimeStamp' = wSetTime /\ wTimeStamp' \in 0 .. wSetTime
      BY <2>2 DEF UartIdleIrq, TargetTime
    <3> QED BY <2>2, <3>1 DEF UartIdleIrq, TargetTime, TypeOK
  <2>3. CASE DmaHalfIrq
    BY <2>3 DEF DmaHalfIrq, TypeOK
  <2>4. CASE TickIrq
    <3>1. wTimeStamp \in 0 .. wSetTime
      BY DEF TypeOK
    <3>2. wTimeStamp' = 0 \/ (wTimeStamp > 1 /\ wTimeStamp' = wTimeStamp - 1)
      BY <2>4 DEF TickIrq, TimerCounts
    <3>3. wTimeStamp' \in 0 .. wSetTime
      <4> HIDE DEF ReadInv
      <4> QED BY <3>1, <3>2
    <3>4. bTimerStart' \in BOOLEAN /\ isr' \in {"none", "GET_BLOCK"}
      <4>1. bTimerStart \in BOOLEAN
        BY DEF TypeOK
      <4> HIDE DEF ReadInv
      <4> QED BY <2>4, <4>1 DEF TickIrq, TimerCounts
    <3> QED BY <2>4, <3>3, <3>4, ZenonT(60) DEF TickIrq, TimerCounts, TypeOK
  <2> QED BY <2>1, <2>2, <2>3, <2>4
<1>2. /\ UNCHANGED <<mainVars, listVars, dataVars, ptByteFifoDmaRx, ptFlush, dmaVars>>
      /\ isr' = isr \/ (isr = "none" /\ isr' \in {"none", "GET_BLOCK"})
  BY DEF LineGoesIdle, UartIdleIrq, DmaHalfIrq, TickIrq, TimerCounts
<1>3. BlocksConserved' /\ ChannelFillsRx' /\ QueuedHoldBytes' /\ RingRead'
  BY <1>2 DEF BlocksConserved, Reading, Spare, ChannelFillsRx, QueuedHoldBytes, RingRead
<1>4. hwDataCnt' = hwDataCnt
  BY DEF LineGoesIdle, UartIdleIrq, DmaHalfIrq, TickIrq, TimerCounts
<1>5. FlushOK'
  BY <1>2, <1>4 DEF FlushOK
<1> QED BY <1>1, <1>3, <1>5

\* The flush takes the first free block, or none and then the channel is empty.
LEMMA FlushGetBlockKeeps == ReadInv /\ FlushGetBlock => ReadInv'
<1> SUFFICES ASSUME ReadInv, FlushGetBlock PROVE ReadInv'
  OBVIOUS
<1> USE ReadAssumption DEF ReadInv, FlushGetBlock
<1>1. CASE freeList = <<>>
  <2>1. TypeOK'
    BY <1>1, ZenonT(60) DEF TypeOK
  <2>2. BlocksConserved'
    BY <1>1 DEF BlocksConserved, Reading, Spare
  <2>3. ChannelFillsRx' /\ QueuedHoldBytes' /\ RingRead'
    BY <1>1 DEF ChannelFillsRx, QueuedHoldBytes, RingRead
  <2>4. FlushOK'
    BY <1>1 DEF FlushOK
  <2> QED BY <2>1, <2>2, <2>3, <2>4
<1>2. CASE freeList # <<>>
  <2> DEFINE b == Head(freeList)
  <2>1. /\ b \in Blocks /\ Tail(freeList) \in Seq(Blocks)
        /\ Elems(freeList) = Elems(Tail(freeList)) \union {b}
        /\ Distinct(freeList) => Distinct(Tail(freeList)) /\ b \notin Elems(Tail(freeList))
    BY <1>2, Taken DEF TypeOK
  <2>2. /\ isr = "GET_BLOCK" /\ isr' = "GET_DATA_CNT"
        /\ ptFlush' = b /\ freeList' = Tail(freeList)
        /\ tSizeInByte' = [tSizeInByte EXCEPT ![b] = READ_BUFF_CNT]
        /\ UNCHANGED <<mainVars, fifo, chMemory, timerVars, bBusy, ptByteFifoDmaRx,
                       hwDataCnt, dmaVars, HTIF, lineVars>>
    BY <1>2
  <2> HIDE DEF b, FlushGetBlock
  <2>3. b # NULL
    BY <2>1
  <2>4. tSizeInByte' \in [Blocks -> 0 .. READ_BUFF_CNT] /\ tSizeInByte'[b] = READ_BUFF_CNT
    BY <2>1, <2>2 DEF TypeOK
  <2>5. TypeOK'
    BY <2>1, <2>2, <2>4, ZenonT(60) DEF TypeOK
  <2>6. Spare = {} /\ Spare' = {b} /\ Reading' = Reading
    BY <2>2, <2>3 DEF Spare, Reading
  <2>7. BlocksConserved'
    BY <2>1, <2>2, <2>6 DEF BlocksConserved
  <2>8. QueuedHoldBytes'
    <3>1. \A i \in 1 .. Len(fifo) : fifo[i] \in Blocks
      BY DEF TypeOK
    <3>2. tSizeInByte \in [Blocks -> 0 .. READ_BUFF_CNT] /\ READ_BUFF_CNT \in 1 .. READ_BUFF_CNT
      BY DEF TypeOK
    <3>3. ASSUME NEW i \in 1 .. Len(fifo) PROVE tSizeInByte'[fifo[i]] \in 1 .. READ_BUFF_CNT
      <4>1. tSizeInByte[fifo[i]] \in 1 .. READ_BUFF_CNT /\ fifo[i] \in Blocks
        BY <3>1 DEF QueuedHoldBytes
      <4>2. tSizeInByte'[fifo[i]] = IF fifo[i] = b THEN READ_BUFF_CNT ELSE tSizeInByte[fifo[i]]
        BY <2>2, <3>2, <4>1
      <4> HIDE DEF ReadInv
      <4> QED BY <3>2, <4>1, <4>2
    <3> QED BY <2>2, <3>3 DEF QueuedHoldBytes
  <2>9. ChannelFillsRx' /\ RingRead'
    BY <2>2 DEF ChannelFillsRx, RingRead
  <2>10. FlushOK'
    BY <2>2, <2>3, <2>4 DEF FlushOK
  <2> QED BY <2>5, <2>7, <2>8, <2>9, <2>10
<1> QED BY <1>1, <1>2

\* Nothing stored: the block taken, if any, is free again.
LEMMA FlushNothingKeeps == ReadInv /\ FlushNothing => ReadInv'
<1> SUFFICES ASSUME ReadInv, FlushNothing PROVE ReadInv'
  OBVIOUS
<1> USE ReadAssumption DEF ReadInv, FlushNothing
<1>1. CASE ptFlush = NULL
  <2>1. freeList' = freeList
    BY <1>1 DEF Freed
  <2>2. TypeOK'
    BY <2>1, ZenonT(60) DEF TypeOK
  <2>3. BlocksConserved'
    BY <1>1, <2>1 DEF BlocksConserved, Reading, Spare
  <2>4. ChannelFillsRx' /\ QueuedHoldBytes' /\ RingRead'
    BY DEF ChannelFillsRx, QueuedHoldBytes, RingRead
  <2>5. FlushOK'
    BY <1>1, <2>1 DEF FlushOK
  <2> QED BY <2>2, <2>3, <2>4, <2>5
<1>2. CASE ptFlush # NULL
  <2>1. ptFlush \in Blocks /\ freeList \in Seq(Blocks)
    BY <1>2 DEF TypeOK
  <2>2. freeList' = <<ptFlush>> \o freeList
    BY <1>2 DEF Freed
  <2>3. /\ freeList' \in Seq(Blocks) /\ Elems(freeList') = Elems(freeList) \union {ptFlush}
        /\ Distinct(freeList) /\ ptFlush \notin Elems(freeList) => Distinct(freeList')
    BY <2>1, <2>2, Pushed
  <2>4. freeList' # <<>>
    BY <2>1, <2>2
  <2>5. TypeOK'
    BY <2>3, ZenonT(60) DEF TypeOK
  <2>6. Spare = {ptFlush} /\ Spare' = {} /\ Reading' = Reading
    BY <1>2 DEF Spare, Reading
  <2>7. BlocksConserved'
    BY <2>3, <2>6 DEF BlocksConserved
  <2>8. ChannelFillsRx' /\ QueuedHoldBytes' /\ RingRead'
    BY DEF ChannelFillsRx, QueuedHoldBytes, RingRead
  <2>9. FlushOK'
    BY <2>4 DEF FlushOK
  <2> QED BY <2>5, <2>7, <2>8, <2>9
<1> QED BY <1>1, <1>2

\* Bytes stored, so that there is a block for the channel to go on in.
LEMMA FlushCountKeeps == ReadInv /\ FlushCount => ReadInv'
<1> SUFFICES ASSUME ReadInv, FlushCount PROVE ReadInv'
  OBVIOUS
<1> USE ReadAssumption DEF ReadInv, FlushCount, NothingStored, DataCnt
<1>1. /\ hwDataCnt' \in 0 .. READ_BUFF_CNT /\ hwDataCnt' > 0
      /\ CNDTR # READ_BUFF_CNT
  BY DEF TypeOK
<1>2. ptFlush # NULL
  BY <1>1 DEF FlushOK
<1>3. TypeOK'
  BY <1>1, ZenonT(60) DEF TypeOK
<1>4. BlocksConserved'
  BY DEF BlocksConserved, Reading, Spare
<1>5. ChannelFillsRx' /\ QueuedHoldBytes' /\ RingRead'
  BY DEF ChannelFillsRx, QueuedHoldBytes, RingRead
<1>6. FlushOK'
  BY <1>1, <1>2 DEF FlushOK
<1> QED BY <1>3, <1>4, <1>5, <1>6

\* The block goes to the queue with its count, the channel to the new block.
LEMMA FlushSwitchKeeps == ReadInv /\ FlushSwitch => ReadInv'
<1> SUFFICES ASSUME ReadInv, FlushSwitch PROVE ReadInv'
  OBVIOUS
<1> USE ReadAssumption DEF ReadInv
<1> DEFINE rx == ptByteFifoDmaRx  b == ptFlush
<1>1. /\ isr = "DMA_START" /\ b # NULL /\ b \in Blocks /\ rx \in Blocks
      /\ hwDataCnt \in 1 .. READ_BUFF_CNT /\ tSizeInByte[b] = READ_BUFF_CNT
  BY DEF FlushSwitch, FlushOK, TypeOK
<1>2. /\ tSizeInByte' = [tSizeInByte EXCEPT ![rx] = hwDataCnt]
      /\ fifo' = Append(fifo, rx)
      /\ CMAR' = b /\ CNDTR' = READ_BUFF_CNT /\ ptByteFifoDmaRx' = b
      /\ ptFlush' = NULL /\ hwDataCnt' = 0 /\ isr' = "none"
      /\ UNCHANGED <<mainVars, freeList, chMemory, timerVars, bBusy, HTIF, lineVars>>
  BY <1>1 DEF FlushSwitch, StartRx, Appended
<1> HIDE DEF rx, b
<1>3. /\ fifo' \in Seq(Blocks) /\ Elems(fifo') = Elems(fifo) \union {rx}
      /\ Distinct(fifo) /\ rx \notin Elems(fifo) => Distinct(fifo')
  BY <1>1, <1>2, AppendedLast DEF TypeOK
<1>4. tSizeInByte' \in [Blocks -> 0 .. READ_BUFF_CNT] /\ tSizeInByte'[rx] = hwDataCnt
  BY <1>1, <1>2 DEF TypeOK
<1>5. TypeOK'
  <2>1. CNDTR' \in 0 .. READ_BUFF_CNT /\ hwDataCnt' \in 0 .. READ_BUFF_CNT
    BY <1>2
  <2> QED BY <1>1, <1>2, <1>3, <1>4, <2>1, ZenonT(60) DEF TypeOK
<1>6. Spare = {b} /\ Spare' = {} /\ Reading' = Reading
  BY <1>1, <1>2 DEF Spare, Reading, b
<1>7. BlocksConserved'
  BY <1>2, <1>3, <1>6 DEF BlocksConserved, rx
<1>8. QueuedHoldBytes'
  <2>1. fifo \in Seq(Blocks) /\ Len(fifo') = Len(fifo) + 1
    BY <1>1, <1>2 DEF TypeOK
  <2>2. \A i \in 1 .. Len(fifo) : fifo'[i] = fifo[i] /\ fifo[i] \in Blocks
    BY <1>1, <1>2, <2>1
  <2>3. fifo'[Len(fifo) + 1] = rx
    BY <1>1, <1>2, <2>1
  <2>4. ASSUME NEW i \in 1 .. Len(fifo) PROVE tSizeInByte'[fifo'[i]] \in 1 .. READ_BUFF_CNT
    BY <1>1, <1>2, <2>2 DEF QueuedHoldBytes, TypeOK
  <2> QED BY <1>1, <1>4, <2>1, <2>3, <2>4 DEF QueuedHoldBytes
<1>9. ChannelFillsRx' /\ RingRead'
  BY <1>2 DEF ChannelFillsRx, RingRead
<1>10. FlushOK'
  BY <1>2 DEF FlushOK
<1> QED BY <1>5, <1>7, <1>8, <1>9, <1>10

---------------------------------------------------------------------------
(* The main program, which moves between interrupts only.                   *)

\* A call resumes the machine where it was left.
LEMMA CallReadKeeps == ReadInv /\ CallRead => ReadInv'
<1> SUFFICES ASSUME ReadInv, CallRead PROVE ReadInv'
  OBVIOUS
<1> USE DEF ReadInv, CallRead
<1>1. TypeOK'
  BY DEF TypeOK
<1>2. BlocksConserved'
  BY DEF BlocksConserved, Reading, Spare, TypeOK
<1>3. ChannelFillsRx' /\ QueuedHoldBytes' /\ RingRead' /\ FlushOK'
  BY DEF ChannelFillsRx, QueuedHoldBytes, RingRead, FlushOK
<1> QED BY <1>1, <1>2, <1>3

\* A byte taken leaves the rest of the ring, and its end is its start again.
LEMMA DequeueByteKeeps == ReadInv /\ DequeueByte => ReadInv'
<1> SUFFICES ASSUME ReadInv, DequeueByte PROVE ReadInv'
  OBVIOUS
<1> USE ReadAssumption DEF ReadInv
<1> DEFINE ring == tByteFifo
<1>1. /\ ring \in ByteFifoType(Blocks, READ_BUFF_CNT) /\ ring.hwTail = 0
      /\ ring.hwHead < ring.hwSize
      /\ ring.hwLength = ring.hwSize - ring.hwHead
      /\ ring' = [ring EXCEPT !.hwHead = IF ring.hwHead + 1 >= ring.hwSize THEN 0 ELSE ring.hwHead + 1,
                              !.hwLength = ring.hwLength - 1]
  BY DEF DequeueByte, IsEmpty, Dequeued, Wrapped, RingRead, TypeOK, ByteFifoType
<1> HIDE DEF ring, ReadInv
<1>2. /\ ring' \in ByteFifoType(Blocks, READ_BUFF_CNT) /\ ring'.hwTail = 0
      /\ ring'.hwHead < ring'.hwSize
      /\ ring'.hwLength \in IF ring'.hwHead = 0 THEN {0, ring'.hwSize}
                            ELSE {ring'.hwSize - ring'.hwHead}
  <2> DEFINE head == IF ring.hwHead + 1 >= ring.hwSize THEN 0 ELSE ring.hwHead + 1
             left == ring.hwLength - 1
  <2>1. /\ head \in 0 .. READ_BUFF_CNT /\ left \in 0 .. READ_BUFF_CNT
        /\ head < ring.hwSize
        /\ left \in IF head = 0 THEN {0, ring.hwSize} ELSE {ring.hwSize - head}
    BY <1>1 DEF ByteFifoType
  <2>2. ring' = [ring EXCEPT !.hwHead = head, !.hwLength = left]
    BY <1>1
  <2> HIDE DEF head, left
  <2> QED BY <1>1, <2>1, <2>2 DEF ByteFifoType
<1>3. delivered' \in Seq(Nat)
  <2>1. /\ chMemory \in [Blocks -> [0 .. READ_BUFF_CNT - 1 -> Nat]] /\ delivered \in Seq(Nat)
        /\ delivered' = Append(delivered, chMemory[ring.pchBuffer][ring.hwHead])
    BY DEF ReadInv, TypeOK, DequeueByte, ring
  <2>2. ring.pchBuffer \in Blocks /\ ring.hwHead \in 0 .. READ_BUFF_CNT - 1
    BY <1>1 DEF ByteFifoType
  <2> QED BY <2>1, <2>2
<1>4. /\ pc = "BYTE_FIFO_OUT" /\ pc' = "idle" /\ chState' = "START"
      /\ UNCHANGED <<ptByteFifo, listVars, dataVars, timerVars, flushVars, dmaVars, HTIF, lineVars>>
  BY DEF DequeueByte
<1> USE DEF ReadInv
<1>5. TypeOK'
  BY <1>2, <1>3, <1>4, ZenonT(60) DEF TypeOK, ring
<1>6. BlocksConserved'
  BY <1>4 DEF BlocksConserved, Reading, Spare
<1>7. ChannelFillsRx' /\ QueuedHoldBytes' /\ RingRead' /\ FlushOK'
  BY <1>2, <1>4 DEF ChannelFillsRx, QueuedHoldBytes, RingRead, FlushOK, ring
<1> QED BY <1>5, <1>6, <1>7

\* The block read to its end is free again, and read no more.
LEMMA FreeBlockKeeps == ReadInv /\ FreeBlock => ReadInv'
<1> SUFFICES ASSUME ReadInv, FreeBlock PROVE ReadInv'
  OBVIOUS
<1> USE ReadAssumption DEF ReadInv, FreeBlock
<1>1. ptByteFifo \in Blocks /\ freeList \in Seq(Blocks) /\ ptByteFifo # NULL
  BY DEF TypeOK
<1>2. freeList' = <<ptByteFifo>> \o freeList
  BY <1>1 DEF Freed
<1>3. /\ freeList' \in Seq(Blocks) /\ Elems(freeList') = Elems(freeList) \union {ptByteFifo}
      /\ Distinct(freeList) /\ ptByteFifo \notin Elems(freeList) => Distinct(freeList')
  BY <1>1, <1>2, Pushed
<1>4. freeList' # <<>>
  BY <1>1, <1>2
<1>5. TypeOK'
  BY <1>3 DEF TypeOK
<1>6. Reading = {ptByteFifo} /\ Reading' = {} /\ Spare' = Spare
  BY DEF Reading, Spare
<1>7. BlocksConserved'
  BY <1>3, <1>6 DEF BlocksConserved
<1>8. ChannelFillsRx' /\ QueuedHoldBytes' /\ RingRead'
  BY DEF ChannelFillsRx, QueuedHoldBytes, RingRead
<1>9. FlushOK'
  BY <1>4 DEF FlushOK
<1> QED BY <1>5, <1>7, <1>8, <1>9

\* The first block queued is read from its start; it holds bytes, so that the
\* ring is laid over it.
LEMMA FetchBlockKeeps == ReadInv /\ FetchBlock => ReadInv'
<1> SUFFICES ASSUME ReadInv, FetchBlock PROVE ReadInv'
  OBVIOUS
<1> USE ReadAssumption DEF ReadInv
<1> DEFINE b == Head(fifo)
<1>1. /\ b \in Blocks /\ Tail(fifo) \in Seq(Blocks)
      /\ Elems(fifo) = Elems(Tail(fifo)) \union {b}
      /\ Distinct(fifo) => Distinct(Tail(fifo)) /\ b \notin Elems(Tail(fifo))
  BY Taken DEF FetchBlock, TypeOK
<1>2. tSizeInByte[b] \in 1 .. READ_BUFF_CNT
  <2>1. fifo \in Seq(Blocks) /\ fifo # <<>>
    BY DEF FetchBlock, TypeOK
  <2>2. 1 \in 1 .. Len(fifo) /\ b = fifo[1]
    <3> HIDE DEF ReadInv
    <3> QED BY <2>1
  <2> QED BY <2>2 DEF QueuedHoldBytes
<1>3. /\ pc = "GET_BYTE_FIFO" /\ pc' = "BYTE_FIFO_OUT" /\ chState' = "BYTE_FIFO_OUT"
      /\ ptByteFifo' = b /\ fifo' = Tail(fifo)
      /\ tByteFifo' = [pchBuffer |-> b, hwSize |-> tSizeInByte[b],
                       hwHead |-> 0, hwTail |-> 0, hwLength |-> tSizeInByte[b]]
      /\ UNCHANGED <<delivered, freeList, dataVars, timerVars, flushVars, dmaVars, HTIF, lineVars>>
  BY <1>2 DEF FetchBlock, InitFull
<1> HIDE DEF b
<1>4. tByteFifo' \in ByteFifoType(Blocks, READ_BUFF_CNT) /\ RingRead'
  <2>1. tSizeInByte[b] \in 0 .. READ_BUFF_CNT /\ 0 \in 0 .. READ_BUFF_CNT /\ tSizeInByte[b] > 0
    BY <1>2
  <2> HIDE DEF ReadInv
  <2> QED BY <1>1, <1>3, <2>1 DEF ByteFifoType, RingRead
<1>5. TypeOK'
  BY <1>1, <1>3, <1>4, ZenonT(60) DEF TypeOK
<1>6. Reading = {} /\ Reading' = {b} /\ Spare' = Spare
  BY <1>3 DEF Reading, Spare
<1>7. BlocksConserved'
  BY <1>1, <1>3, <1>6 DEF BlocksConserved
<1>8. QueuedHoldBytes'
  <2>1. fifo \in Seq(Blocks) /\ fifo # <<>>
    BY DEF FetchBlock, TypeOK
  <2>2. \A i \in 1 .. Len(fifo') : i + 1 \in 1 .. Len(fifo) /\ fifo'[i] = fifo[i + 1]
    <3> HIDE DEF ReadInv
    <3> QED BY <1>3, <2>1
  <2> QED BY <1>3, <2>2 DEF QueuedHoldBytes
<1>9. ChannelFillsRx' /\ FlushOK'
  BY <1>3 DEF ChannelFillsRx, FlushOK
<1> QED BY <1>4, <1>5, <1>7, <1>8, <1>9

\* Without a block the machine waits where it is, and holds none.
LEMMA ReturnFalseKeeps == ReadInv /\ ReturnFalse => ReadInv'
<1> SUFFICES ASSUME ReadInv, ReturnFalse PROVE ReadInv'
  OBVIOUS
<1> USE DEF ReadInv, ReturnFalse
<1>1. TypeOK'
  BY DEF TypeOK
<1>2. BlocksConserved'
  BY DEF BlocksConserved, Reading, Spare, FlushOK
<1>3. ChannelFillsRx' /\ QueuedHoldBytes' /\ RingRead' /\ FlushOK'
  BY DEF ChannelFillsRx, QueuedHoldBytes, RingRead, FlushOK
<1> QED BY <1>1, <1>2, <1>3

---------------------------------------------------------------------------
(* The theorems.                                                            *)

\* Every step of the receiver keeps the invariant, if its reader keeps up.
THEOREM ReadStepKeeps == ReaderKeepsUp /\ ReadInv /\ [Next]_vars => ReadInv'
<1> SUFFICES ASSUME ReaderKeepsUp, ReadInv, [Next]_vars PROVE ReadInv'
  OBVIOUS
<1>1. CASE UNCHANGED vars
  <2>1. TypeOK' /\ BlocksConserved'
    BY <1>1 DEF ReadInv, TypeOK, BlocksConserved, Reading, Spare
  <2>2. ChannelFillsRx' /\ QueuedHoldBytes' /\ RingRead' /\ FlushOK'
    BY <1>1 DEF ReadInv, ChannelFillsRx, QueuedHoldBytes, RingRead, FlushOK
  <2> QED BY <2>1, <2>2 DEF ReadInv
<1> QED BY <1>1, ByteArrivesKeeps, NotesKeep, FlushGetBlockKeeps, FlushNothingKeeps,
        FlushCountKeeps, FlushSwitchKeeps, CallReadKeeps, DequeueByteKeeps, FreeBlockKeeps,
        FetchBlockKeeps, ReturnFalseKeeps DEF Next, FlushStep, ReadStep

\* The invariant holds in every state of a receiver whose reader keeps up.
THEOREM ReadAlways == ASSUME ReaderKeepsUp PROVE Spec => []ReadInv
<1>1. ReadInv /\ [Next]_vars => ReadInv'
  BY ReadStepKeeps
<1> QED BY ReadInit, <1>1, PTL DEF Spec

\* Every variable of the receiver stays in its range, whatever the interrupts.
THEOREM ReadTypes == ASSUME ReaderKeepsUp PROVE Spec => []TypeOK
BY ReadAlways, PTL DEF ReadInv

\* No block of the receiver is lost, doubled, or filled while it is read.
THEOREM ReadConserves == ASSUME ReaderKeepsUp PROVE Spec => []BlocksConserved
BY ReadAlways, PTL DEF ReadInv

\* No empty block reaches the reader: the ring is never left over another one.
THEOREM QueuedAlwaysHold == ASSUME ReaderKeepsUp PROVE Spec => []QueuedHoldBytes
BY ReadAlways, PTL DEF ReadInv

\* The timer is running with its note of the counter taken: no byte since has
\* brought the counter back to it.
LEMMA CountsDownKeeps ==
  ASSUME IsrIsPrompt, ReadInv, CountsDown, [Next]_vars
  PROVE  CountsDown'
<1> USE ReadAssumption
<1>1. CNDTR \in Nat /\ hwDmaCntUartIdle \in Nat
  BY DEF ReadInv, TypeOK
<1>2. CASE ByteArrives
  <2>1. /\ isr = "none" /\ isr' = isr /\ CNDTR' = CNDTR - 1
        /\ UNCHANGED <<bTimerStart, bUartIdle, hwDmaCntUartIdle>>
    BY <1>1, <1>2 DEF ByteArrives
  <2> QED BY <1>1, <2>1 DEF CountsDown
<1>3. CASE UartIdleIrq
  BY <1>1, <1>3 DEF CountsDown, UartIdleIrq, TargetTime
<1>4. CASE DmaHalfIrq
  BY <1>4 DEF CountsDown, DmaHalfIrq
<1>5. CASE TickIrq
  BY <1>5 DEF CountsDown, TickIrq, TimerCounts
<1>6. CASE FlushStep
  BY <1>6 DEF CountsDown, FlushStep, FlushGetBlock, FlushNothing, FlushCount, FlushSwitch
<1>7. CASE LineGoesIdle \/ ReadStep \/ UNCHANGED vars
  BY <1>7 DEF CountsDown, LineGoesIdle, ReadStep, CallRead, DequeueByte, FreeBlock,
              FetchBlock, ReturnFalse
<1> QED BY <1>2, <1>3, <1>4, <1>5, <1>6, <1>7 DEF Next

\* A timeout never cuts a frame short: it flushes only what a quiet line left.
THEOREM TimeoutsAreQuiet ==
  ASSUME ReaderKeepsUp, IsrIsPrompt
  PROVE  Spec => TimeoutOnlyWhenQuiet
<1>1. Init => CountsDown
  BY DEF Init, CountsDown
<1>2. ReadInv /\ CountsDown /\ [Next]_vars => CountsDown'
  BY CountsDownKeeps
<1>3. ReadInv /\ CountsDown /\ [Next]_vars
        => [bTimerStart /\ ~bTimerStart' /\ isr' = "GET_BLOCK" => ~sinceIdle]_vars
  <2> SUFFICES ASSUME ReadInv, CountsDown, [Next]_vars,
                      bTimerStart, ~bTimerStart', isr' = "GET_BLOCK"
               PROVE  ~sinceIdle
    OBVIOUS
  <2>1. TickIrq
    BY DEF Next, FlushStep, ReadStep, ByteArrives, LineGoesIdle, UartIdleIrq, TargetTime,
           DmaHalfIrq, FlushGetBlock, FlushNothing, FlushCount, FlushSwitch, CallRead,
           DequeueByte, FreeBlock, FetchBlock, ReturnFalse, ReadInv, TypeOK
  <2>2. bUartIdle /\ hwDmaCntUartIdle = CNDTR
    BY <2>1 DEF TickIrq, TimerCounts, ReallyTimeOut
  <2>3. hwDmaCntUartIdle \in Nat /\ CNDTR \in Nat
    BY ReadAssumption DEF ReadInv, TypeOK
  <2> QED BY <2>2, <2>3 DEF CountsDown
<1> QED BY ReadInit, ReadStepKeeps, <1>1, <1>2, <1>3, PTL DEF Spec, TimeoutOnlyWhenQuiet

---------------------------------------------------------------------------
(* The bytes.  OrderInv is inductive together with ReadInv.                 *)

\* Every byte the invariant speaks of is a byte: each index lies in its block.
LEMMA LastsAreBytes ==
  ReadInv => /\ LastReturned \in Nat /\ LastRead \in Nat /\ LastStored \in Nat
             /\ \A i \in 0 .. Len(fifo) : LastQueued(i) \in Nat
<1> SUFFICES ASSUME ReadInv
             PROVE  /\ LastReturned \in Nat /\ LastRead \in Nat /\ LastStored \in Nat
                    /\ \A i \in 0 .. Len(fifo) : LastQueued(i) \in Nat
  OBVIOUS
<1> USE ReadAssumption
<1>1. /\ chMemory \in [Blocks -> [0 .. READ_BUFF_CNT - 1 -> Nat]]
      /\ ptByteFifo \in Blocks /\ CMAR \in Blocks /\ CNDTR \in 0 .. READ_BUFF_CNT
      /\ fifo \in Seq(Blocks) /\ delivered \in Seq(Nat)
      /\ tByteFifo.hwSize \in 0 .. READ_BUFF_CNT /\ tByteFifo.hwHead \in 0 .. READ_BUFF_CNT
      /\ tByteFifo.hwHead < tByteFifo.hwSize
  BY DEF ReadInv, TypeOK, RingRead, ByteFifoType
<1>2. \A b \in Blocks : \A n \in 1 .. READ_BUFF_CNT : chMemory[b][n - 1] \in Nat
  <2> TAKE b \in Blocks
  <2> TAKE n \in 1 .. READ_BUFF_CNT
  <2>1. chMemory[b] \in [0 .. READ_BUFF_CNT - 1 -> Nat]
    BY <1>1
  <2>2. n - 1 \in 0 .. READ_BUFF_CNT - 1
    OBVIOUS
  <2> QED BY <2>1, <2>2
<1>3. LastReturned \in Nat
  BY <1>1 DEF LastReturned
<1>4. LastRead \in Nat
  <2>1. tByteFifo.hwSize \in 1 .. READ_BUFF_CNT
    BY <1>1
  <2> QED BY <1>1, <1>2, <1>3, <2>1 DEF LastRead
<1>5. ASSUME NEW i \in 0 .. Len(fifo) PROVE LastQueued(i) \in Nat
  <2>1. i # 0 => i \in 1 .. Len(fifo) /\ fifo[i] \in Blocks
    BY <1>1
  <2>2. i # 0 => tSizeInByte[fifo[i]] \in 1 .. READ_BUFF_CNT
    BY <2>1 DEF ReadInv, QueuedHoldBytes
  <2> QED BY <1>2, <1>4, <2>1, <2>2 DEF LastQueued
<1>6. LastStored \in Nat
  <2>1. Len(fifo) \in 0 .. Len(fifo)
    BY <1>1
  <2>2. CNDTR # READ_BUFF_CNT => READ_BUFF_CNT - CNDTR \in 1 .. READ_BUFF_CNT
    BY <1>1
  <2> QED BY <1>1, <1>2, <1>5, <2>1, <2>2 DEF LastStored
<1> QED BY <1>3, <1>4, <1>5, <1>6

\* zero_strm_read_init: no byte came, none is anywhere.
THEOREM OrderInit == Init => OrderInv
<1> SUFFICES ASSUME Init PROVE OrderInv
  OBVIOUS
<1> USE ReadAssumption
<1>1. /\ tByteFifo.hwLength = 0 /\ fifo = <<>> /\ Len(fifo) = 0 /\ delivered = <<>>
      /\ Len(delivered) = 0 /\ CNDTR = READ_BUFF_CNT /\ isr = "none" /\ arrived = 0
  BY DEF Init
<1>2. LastReturned = 0 /\ LastStored = 0 /\ LastQueued(0) = 0
  BY <1>1 DEF LastReturned, LastRead, LastQueued, LastStored
<1>3. RingInTurn /\ QueueInTurn /\ ChannelInTurn
  BY <1>1, <1>2 DEF RingInTurn, QueueInTurn, ChannelInTurn
<1>4. NoneAhead
  <2>1. \A i \in 0 .. Len(fifo) : i = 0
    BY <1>1
  <2> QED BY <1>1, <1>2, <2>1 DEF NoneAhead
<1>5. ReadOnce /\ ReadInOrder
  BY <1>1 DEF ReadOnce, ReadInOrder
<1> QED BY <1>3, <1>4, <1>5 DEF OrderInv

\* Steps that move no byte: the machines and the timer go on, blocks pass
\* through hands that hold no byte.
LEMMA NoByteMoves ==
  ASSUME ReadInv, OrderInv,
         UNCHANGED <<tByteFifo, ptByteFifo, delivered, fifo, chMemory, CMAR, CNDTR, arrived>>,
         \A i \in 1 .. Len(fifo) : tSizeInByte'[fifo[i]] = tSizeInByte[fifo[i]],
         tByteFifo.hwLength > 0 => chState' # "GET_BYTE_FIFO",
         isr' = "DMA_START" => /\ hwDataCnt' <= READ_BUFF_CNT - CNDTR
                               /\ IsrIsPrompt => hwDataCnt' = READ_BUFF_CNT - CNDTR
  PROVE  OrderInv'
<1>1. LastReturned' = LastReturned /\ LastRead' = LastRead
  BY DEF LastReturned, LastRead
<1>2. ASSUME NEW i \in 0 .. Len(fifo) PROVE LastQueued(i)' = LastQueued(i)
  <2>1. fifo \in Seq(Blocks)
    BY DEF ReadInv, TypeOK
  <2>2. i = 0 \/ i \in 1 .. Len(fifo)
    BY <2>1
  <2> QED BY <1>1, <2>2 DEF LastQueued
<1>3. Len(fifo) \in 0 .. Len(fifo) /\ \A i \in 1 .. Len(fifo) : i - 1 \in 0 .. Len(fifo)
  BY DEF ReadInv, TypeOK
<1>4. LastStored' = LastStored
  BY <1>2, <1>3 DEF LastStored
<1>5. RingInTurn'
  BY <1>1 DEF OrderInv, RingInTurn, After
<1>6. QueueInTurn'
  BY <1>2, <1>3 DEF OrderInv, QueueInTurn, After, Consecutive
<1>7. ChannelInTurn'
  BY <1>2, <1>3, <1>4 DEF OrderInv, ChannelInTurn, After, Consecutive
<1>8. NoneAhead'
  BY <1>1, <1>2, <1>3, <1>4 DEF OrderInv, NoneAhead
<1>9. ReadOnce' /\ (IsrIsPrompt => ReadInOrder')
  BY DEF OrderInv, ReadOnce, ReadInOrder
<1> QED BY <1>5, <1>6, <1>7, <1>8, <1>9 DEF OrderInv

\* A call returns the next byte of the ring: the rest of the ring comes after it.
LEMMA DequeueByteInTurn == ASSUME ReadInv, OrderInv, DequeueByte PROVE OrderInv'
<1> USE ReadAssumption
<1> DEFINE ring == tByteFifo  head == ring.hwHead  size == ring.hwSize  n == Len(delivered)
           x == chMemory[ptByteFifo][head]
<1>1. /\ ring \in ByteFifoType(Blocks, READ_BUFF_CNT)
      /\ head \in Nat /\ size \in Nat /\ size <= READ_BUFF_CNT /\ head < size
      /\ ring.hwLength > 0 /\ ring.hwLength = size - head
      /\ ring.pchBuffer = ptByteFifo
      /\ ring' = [ring EXCEPT !.hwHead = IF head + 1 >= size THEN 0 ELSE head + 1,
                              !.hwLength = ring.hwLength - 1]
  <2>1. ring \in ByteFifoType(Blocks, READ_BUFF_CNT) /\ ~IsEmpty(ring) /\ RingRead
    BY DEF DequeueByte, ReadInv, TypeOK
  <2>2. /\ head \in Nat /\ size \in Nat /\ size <= READ_BUFF_CNT /\ head < size
        /\ ring.hwLength > 0 /\ ring.hwLength = size - head
    BY <2>1 DEF RingRead, IsEmpty, ByteFifoType
  <2>3. ring.pchBuffer = ptByteFifo
    BY <2>2 DEF OrderInv, RingInTurn
  <2>4. ring' = [ring EXCEPT !.hwHead = IF head + 1 >= size THEN 0 ELSE head + 1,
                             !.hwLength = ring.hwLength - 1]
    BY DEF DequeueByte, Dequeued, Wrapped
  <2> QED BY <2>1, <2>2, <2>3, <2>4
<1>2. /\ delivered' = Append(delivered, x) /\ chState' = "START" /\ isr' = isr
      /\ UNCHANGED <<ptByteFifo, fifo, tSizeInByte, chMemory, CMAR, CNDTR, arrived, hwDataCnt>>
  BY <1>1 DEF DequeueByte
<1>3. /\ \A k \in head .. size - 1 : chMemory[ptByteFifo][k] = x + (k - head)
      /\ After(LastReturned, x)
  BY <1>1 DEF OrderInv, RingInTurn
<1>4. /\ x \in Nat /\ LastReturned \in Nat /\ arrived \in Nat /\ delivered \in Seq(Nat)
      /\ LastRead \in Nat /\ LastRead = chMemory[ptByteFifo][size - 1]
  <2>1. chMemory[ptByteFifo] \in [0 .. READ_BUFF_CNT - 1 -> Nat] /\ delivered \in Seq(Nat)
        /\ arrived \in Nat
    BY DEF ReadInv, TypeOK
  <2>2. head \in 0 .. READ_BUFF_CNT - 1
    BY <1>1
  <2>3. x \in Nat
    BY <2>1, <2>2
  <2>4. LastRead = chMemory[ptByteFifo][size - 1]
    BY <1>1 DEF LastRead
  <2> QED BY <2>1, <2>3, <2>4, LastsAreBytes
<1>5. fifo \in Seq(Blocks)
  BY DEF ReadInv, TypeOK
<1>6. LastRead <= arrived /\ LastQueued(0) = LastRead
  <2>1. 0 \in 0 .. Len(fifo)
    BY <1>5
  <2> QED BY <2>1 DEF OrderInv, NoneAhead, LastQueued
<1>20. size - 1 \in head .. size - 1 /\ LastRead = x + (size - 1 - head) /\ x <= LastRead
  <2>1. size - 1 \in head .. size - 1
    BY <1>1
  <2>2. LastRead = x + (size - 1 - head)
    BY <1>3, <1>4, <2>1
  <2> HIDE DEF head, size, x
  <2> QED BY <1>1, <1>4, <2>1, <2>2, SMTT(30)
<1> HIDE DEF ring, head, size, x, n
<1>7. LastReturned' = x /\ n \in Nat /\ Len(delivered') = n + 1 /\ delivered'[n + 1] = x
      /\ \A i \in 1 .. n : delivered'[i] = delivered[i]
  BY <1>2, <1>4 DEF LastReturned, n
<1>8. /\ ring'.hwSize = size /\ ring'.pchBuffer = ring.pchBuffer
      /\ ring'.hwLength = size - head - 1
      /\ ring'.hwLength > 0 => ring'.hwHead = head + 1
  BY <1>1 DEF head, size
<1>9. LastRead' = LastRead
  <2>1. CASE size - head - 1 = 0
    <3>1. size - 1 = head
      BY <1>1, <2>1
    <3> QED BY <1>1, <1>4, <1>7, <1>8, <2>1, <3>1 DEF LastRead, ring, x
  <2>2. CASE size - head - 1 # 0
    BY <1>1, <1>2, <1>4, <1>8, <2>2 DEF LastRead, ring
  <2> QED BY <2>1, <2>2
<1>10. \A i \in 0 .. Len(fifo) : LastQueued(i)' = LastQueued(i)
  BY <1>2, <1>9 DEF LastQueued
<1>11. Len(fifo) \in 0 .. Len(fifo) /\ \A i \in 1 .. Len(fifo) : i - 1 \in 0 .. Len(fifo)
  BY <1>5
<1>12. LastStored' = LastStored
  BY <1>2, <1>10, <1>11 DEF LastStored
<1>13. RingInTurn'
  <2> SUFFICES ASSUME ring'.hwLength > 0
               PROVE  /\ ring'.pchBuffer = ptByteFifo
                      /\ \A k \in head + 1 .. size - 1 :
                           chMemory[ptByteFifo][k]
                             = chMemory[ptByteFifo][head + 1] + (k - (head + 1))
                      /\ After(x, chMemory[ptByteFifo][head + 1])
    BY <1>2, <1>7, <1>8 DEF RingInTurn, After, ring
  <2>1. /\ head + 1 \in head .. size - 1 /\ chMemory[ptByteFifo][head + 1] = x + 1
        /\ \A k \in head + 1 .. size - 1 : chMemory[ptByteFifo][k] = x + (k - head)
    BY <1>1, <1>3, <1>8
  <2>2. \A k \in head + 1 .. size - 1 : x + (k - head) = (x + 1) + (k - (head + 1))
    BY <1>1, <1>4, SMTT(30)
  <2>3. After(x, x + 1)
    BY <1>4 DEF After
  <2> QED BY <1>1, <2>1, <2>2, <2>3
<1>14. QueueInTurn'
  BY <1>2, <1>10, <1>11 DEF OrderInv, QueueInTurn, After, Consecutive
<1>15. ChannelInTurn'
  BY <1>2, <1>10, <1>11, <1>12 DEF OrderInv, ChannelInTurn, After, Consecutive
<1>16. NoneAhead'
  <2>1. LastReturned' <= arrived
    BY <1>4, <1>6, <1>7, <1>20
  <2> QED BY <1>2, <1>10, <1>11, <1>12, <2>1 DEF OrderInv, NoneAhead
<1>17. ReadOnce'
  <2>1. /\ \A i \in 1 .. n : delivered[i] \in 1 .. arrived
        /\ \A i \in 1 .. n - 1 : delivered[i] < delivered[i + 1]
        /\ n > 0 => LastReturned = delivered[n]
    BY <1>4 DEF OrderInv, ReadOnce, LastReturned, n
  <2>2. x \in 1 .. arrived /\ LastReturned < x
    BY <1>3, <1>4, <1>6, <1>20 DEF After
  <2>3. ASSUME NEW i \in 1 .. n + 1 PROVE delivered'[i] \in 1 .. arrived
    <3>1. i \in 1 .. n \/ i = n + 1
      BY <1>7
    <3> QED BY <1>7, <2>1, <2>2, <3>1
  <2>4. ASSUME NEW i \in 1 .. n PROVE delivered'[i] < delivered'[i + 1]
    <3>1. CASE i = n
      BY <1>7, <2>1, <2>2, <3>1
    <3>2. CASE i # n
      <4>1. i \in 1 .. n - 1 /\ i + 1 \in 1 .. n
        BY <1>7, <3>2
      <4> QED BY <1>7, <2>1, <4>1
    <3> QED BY <3>1, <3>2
  <2> QED BY <1>2, <1>7, <2>3, <2>4 DEF ReadOnce
<1>18. ASSUME IsrIsPrompt PROVE ReadInOrder'
  <2>1. n <= arrived /\ \A i \in 1 .. n : delivered[i] = i
    BY <1>18 DEF OrderInv, ReadInOrder, n
  <2>2. LastReturned = n
    BY <1>4, <1>7, <2>1 DEF LastReturned, n
  <2>3. x = n + 1 /\ x <= arrived
    BY <1>3, <1>4, <1>6, <1>18, <1>20, <2>2 DEF After
  <2>4. \A i \in 1 .. n + 1 : delivered'[i] = i
    BY <1>7, <2>1, <2>3
  <2> QED BY <1>2, <1>7, <2>3, <2>4 DEF ReadInOrder
<1> QED BY <1>13, <1>14, <1>15, <1>16, <1>17, <1>18 DEF OrderInv

\* The ring is empty when the next block is laid under it: what was the first
\* block of the queue is read next, the others are one place further on.
LEMMA FetchBlockInTurn == ASSUME ReadInv, OrderInv, FetchBlock PROVE OrderInv'
<1> USE ReadAssumption
<1> DEFINE b == fifo[1]  s == tSizeInByte[b]
<1>0. PICK n \in Nat : n = Len(fifo)
  BY DEF ReadInv, TypeOK
<1>1. fifo \in Seq(Blocks) /\ n > 0 /\ b \in Blocks /\ b = Head(fifo)
  BY <1>0 DEF FetchBlock, ReadInv, TypeOK
<1>2. s \in 1 .. READ_BUFF_CNT
  <2>1. 1 \in 1 .. Len(fifo)
    BY <1>0, <1>1
  <2> QED BY <2>1 DEF ReadInv, QueuedHoldBytes
<1>3. /\ fifo' = Tail(fifo) /\ ptByteFifo' = b /\ chState' = "BYTE_FIFO_OUT"
      /\ tByteFifo' = [pchBuffer |-> b, hwSize |-> s, hwHead |-> 0, hwTail |-> 0, hwLength |-> s]
      /\ UNCHANGED <<delivered, tSizeInByte, chMemory, isr, hwDataCnt, CMAR, CNDTR, arrived>>
  BY <1>1, <1>2 DEF FetchBlock, InitFull
<1>4. tByteFifo.hwLength = 0
  <2>1. chState = "GET_BYTE_FIFO"
    BY DEF FetchBlock, ReadInv, FlushOK
  <2>2. tByteFifo.hwLength \in Nat
    BY DEF ReadInv, TypeOK, ByteFifoType
  <2> QED BY <2>1, <2>2 DEF OrderInv, RingInTurn
<1>5. LastReturned' = LastReturned /\ LastRead = LastReturned /\ LastQueued(0) = LastReturned
  BY <1>3, <1>4 DEF LastReturned, LastRead, LastQueued
<1> HIDE DEF b, s
<1>6. /\ Len(fifo') = n - 1
      /\ \A i \in 1 .. n - 1 : fifo'[i] = fifo[i + 1] /\ i + 1 \in 1 .. n
  BY <1>0, <1>1, <1>3
<1>7. LastRead' = chMemory[b][s - 1] /\ LastQueued(1) = chMemory[b][s - 1]
  BY <1>2, <1>3 DEF LastRead, LastQueued, b, s
<1>8. ASSUME NEW i \in 0 .. n - 1 PROVE LastQueued(i)' = LastQueued(i + 1)
  <2>1. CASE i = 0
    BY <1>7, <2>1 DEF LastQueued
  <2>2. CASE i # 0
    <3>1. i \in 1 .. n - 1 /\ i + 1 # 0
      BY <1>1, <2>2
    <3> QED BY <1>3, <1>6, <3>1 DEF LastQueued
  <2> QED BY <2>1, <2>2
<1>9. n - 1 \in 0 .. n - 1 /\ n - 1 + 1 = n
  BY <1>1
<1>10. LastStored' = LastStored
  BY <1>0, <1>3, <1>6, <1>8, <1>9 DEF LastStored
<1>11. Consecutive(b, s) /\ After(LastReturned, chMemory[b][0])
  <2>1. 1 \in 1 .. n /\ 1 - 1 = 0
    BY <1>1
  <2> QED BY <1>0, <1>5, <2>1 DEF OrderInv, QueueInTurn, b, s
<1>12. RingInTurn'
  <2>1. \A k \in 0 .. s - 1 : chMemory[b][k] = chMemory[b][0] + (k - 0)
    BY <1>11 DEF Consecutive
  <2> QED BY <1>3, <1>5, <1>11, <2>1 DEF RingInTurn, After
<1>13. QueueInTurn'
  <2>1. ASSUME NEW i \in 1 .. n - 1
        PROVE  /\ Consecutive(fifo'[i], tSizeInByte[fifo'[i]])
               /\ After(LastQueued(i - 1)', chMemory[fifo'[i]][0])
    <3>1. i - 1 \in 0 .. n - 1 /\ i - 1 + 1 = i /\ i + 1 - 1 = i
      BY <1>1
    <3>2. /\ Consecutive(fifo[i + 1], tSizeInByte[fifo[i + 1]])
          /\ After(LastQueued(i), chMemory[fifo[i + 1]][0])
      BY <1>0, <1>6, <3>1 DEF OrderInv, QueueInTurn
    <3>3. LastQueued(i - 1)' = LastQueued(i)
      BY <1>8, <3>1
    <3> QED BY <1>6, <3>2, <3>3
  <2> QED BY <1>3, <1>6, <2>1 DEF QueueInTurn, Consecutive, After
<1>14. ChannelInTurn'
  <2>1. LastQueued(Len(fifo))' = LastQueued(Len(fifo))
    BY <1>0, <1>6, <1>8, <1>9
  <2> QED BY <1>3, <1>10, <2>1 DEF OrderInv, ChannelInTurn, After, Consecutive
<1>15. NoneAhead'
  <2>1. \A i \in 0 .. n - 1 : i + 1 \in 0 .. n /\ n - 1 - i = n - (i + 1)
    BY <1>1
  <2>2. LastReturned' <= arrived /\ LastStored' <= arrived
    BY <1>5, <1>10 DEF OrderInv, NoneAhead
  <2>3. ASSUME NEW i \in 0 .. n - 1 PROVE LastQueued(i)' <= arrived
    BY <1>0, <1>8, <2>1 DEF OrderInv, NoneAhead
  <2>4. ASSUME IsrIsPrompt, NEW i \in 0 .. n - 1
        PROVE  LastQueued(n - 1)' - LastQueued(i)' <= (n - 1 - i) * READ_BUFF_CNT
    <3>1. LastQueued(n) - LastQueued(i + 1) <= (n - (i + 1)) * READ_BUFF_CNT
      BY <1>0, <2>1, <2>4 DEF OrderInv, NoneAhead
    <3> QED BY <1>8, <1>9, <2>1, <3>1
  <2>5. ASSUME IsrIsPrompt, NEW i \in 0 .. Len(fifo')
        PROVE  (LastQueued(Len(fifo)) - LastQueued(i) <= (Len(fifo) - i) * READ_BUFF_CNT)'
    BY <1>6, <2>4, <2>5
  <2>6. \A i \in 0 .. Len(fifo') : (LastQueued(i) <= arrived)'
    BY <1>3, <1>6, <2>3
  <2> QED BY <1>3, <2>2, <2>5, <2>6 DEF NoneAhead
<1>16. ReadOnce' /\ (IsrIsPrompt => ReadInOrder')
  BY <1>3 DEF OrderInv, ReadOnce, ReadInOrder
<1> QED BY <1>12, <1>13, <1>14, <1>15, <1>16 DEF OrderInv

\* The channel's block ends the queue with the count taken, which with prompt
\* interrupts is all that was stored.
LEMMA FlushSwitchInTurn == ASSUME ReadInv, OrderInv, FlushSwitch PROVE OrderInv'
<1> USE ReadAssumption
<1> DEFINE rx == CMAR  first == chMemory[CMAR][0]  h == hwDataCnt  stored == READ_BUFF_CNT - CNDTR
<1>0. PICK n \in Nat : n = Len(fifo)
  BY DEF ReadInv, TypeOK
<1>1. /\ isr = "DMA_START" /\ ptFlush # NULL /\ rx \in Blocks /\ ptByteFifoDmaRx = rx
      /\ h \in Nat /\ stored \in Nat /\ READ_BUFF_CNT \in Nat
      /\ 1 <= h /\ h <= stored /\ stored <= READ_BUFF_CNT
      /\ IsrIsPrompt => h = stored
      /\ tSizeInByte[ptFlush] = READ_BUFF_CNT
  BY DEF FlushSwitch, ReadInv, FlushOK, TypeOK, ChannelFillsRx, OrderInv, ChannelInTurn
<1>2. /\ fifo \in Seq(Blocks) /\ \A i \in 1 .. n : fifo[i] # rx
      /\ first \in Nat /\ arrived \in Nat /\ CNDTR < READ_BUFF_CNT
  <2>1. fifo \in Seq(Blocks) /\ arrived \in Nat
    BY DEF ReadInv, TypeOK
  <2>2. \A i \in 1 .. n : fifo[i] # rx
    BY <1>0, <1>1 DEF ReadInv, BlocksConserved, Elems
  <2>3. chMemory[CMAR] \in [0 .. READ_BUFF_CNT - 1 -> Nat] /\ CNDTR \in 0 .. READ_BUFF_CNT
    BY DEF ReadInv, TypeOK
  <2>4. first \in Nat
    BY <1>1, <2>3
  <2>5. CNDTR < READ_BUFF_CNT
    BY <1>1, <2>3
  <2> QED BY <2>1, <2>2, <2>4, <2>5
<1>3. /\ tSizeInByte' = [tSizeInByte EXCEPT ![rx] = h]
      /\ fifo' = Append(fifo, rx)
      /\ CNDTR' = READ_BUFF_CNT /\ isr' = "none"
      /\ UNCHANGED <<tByteFifo, ptByteFifo, chState, delivered, chMemory, arrived>>
  BY <1>1 DEF FlushSwitch, StartRx, Appended
<1>4. tSizeInByte \in [Blocks -> 0 .. READ_BUFF_CNT]
  BY DEF ReadInv, TypeOK
<1>5. Consecutive(rx, stored) /\ After(LastQueued(n), first)
  BY <1>0, <1>2 DEF OrderInv, ChannelInTurn
<1>6. LastStored = chMemory[rx][stored - 1] /\ LastStored <= arrived
      /\ (IsrIsPrompt => LastStored = arrived)
  BY <1>2 DEF LastStored, OrderInv, ChannelInTurn, NoneAhead
<1> HIDE DEF rx, first, h, stored
<1>7. /\ Len(fifo') = n + 1 /\ fifo'[n + 1] = rx
      /\ \A i \in 1 .. n : fifo'[i] = fifo[i] /\ fifo[i] \in Blocks
  BY <1>0, <1>1, <1>2, <1>3
<1>8. tSizeInByte'[rx] = h /\ \A i \in 1 .. n : tSizeInByte'[fifo'[i]] = tSizeInByte[fifo[i]]
  BY <1>1, <1>2, <1>3, <1>4, <1>7
<1>9. LastReturned' = LastReturned /\ LastRead' = LastRead
  BY <1>3 DEF LastReturned, LastRead
<1>10. ASSUME NEW i \in 0 .. n PROVE LastQueued(i)' = LastQueued(i)
  <2>1. i = 0 \/ i \in 1 .. n
    BY <1>0
  <2> QED BY <1>3, <1>7, <1>8, <1>9, <2>1 DEF LastQueued
<1>11. /\ chMemory[rx][h - 1] = first + (h - 1) /\ chMemory[rx][stored - 1] = first + (stored - 1)
       /\ Consecutive(rx, h)
  <2>1. \A k \in 0 .. stored - 1 : chMemory[rx][k] = first + k
    BY <1>5 DEF Consecutive, rx, first
  <2>2. READ_BUFF_CNT \in Nat /\ h - 1 \in 0 .. stored - 1 /\ stored - 1 \in 0 .. stored - 1
        /\ \A k \in 0 .. h - 1 : k \in 0 .. stored - 1
    BY <1>1
  <2> QED BY <2>1, <2>2 DEF Consecutive, rx, first
<1>12. LastQueued(n + 1)' = first + (h - 1)
  <2>1. n + 1 # 0
    OBVIOUS
  <2> QED BY <1>3, <1>7, <1>8, <1>11, <2>1 DEF LastQueued
<1>13. LastStored' = first + (h - 1)
  BY <1>3, <1>7, <1>12 DEF LastStored
<1>14. first + (h - 1) <= arrived /\ (IsrIsPrompt => first + (h - 1) = arrived)
  BY <1>1, <1>2, <1>6, <1>11
<1>15. RingInTurn'
  BY <1>3, <1>9 DEF OrderInv, RingInTurn, After
<1>16. QueueInTurn'
  <2>1. ASSUME NEW i \in 1 .. n
        PROVE  /\ Consecutive(fifo[i], tSizeInByte[fifo[i]])
               /\ After(LastQueued(i - 1), chMemory[fifo[i]][0])
               /\ LastQueued(i - 1)' = LastQueued(i - 1)
    <3>1. i - 1 \in 0 .. n
      OBVIOUS
    <3> QED BY <1>0, <1>10, <3>1 DEF OrderInv, QueueInTurn
  <2>2. n + 1 - 1 = n /\ n \in 0 .. n /\ \A i \in 1 .. n + 1 : i \in 1 .. n \/ i = n + 1
    OBVIOUS
  <2>3. ASSUME NEW i \in 1 .. n + 1
        PROVE  (/\ Consecutive(fifo[i], tSizeInByte[fifo[i]])
                /\ After(LastQueued(i - 1), chMemory[fifo[i]][0]))'
    <3>1. CASE i \in 1 .. n
      BY <1>3, <1>7, <1>8, <2>1, <3>1 DEF Consecutive, After
    <3>2. CASE i = n + 1
      <4>1. LastQueued(i - 1)' = LastQueued(n)
        BY <1>10, <2>2, <3>2
      <4>2. fifo'[i] = rx /\ chMemory' = chMemory
        BY <1>3, <1>7, <3>2
      <4> QED BY <1>5, <1>8, <1>11, <4>1, <4>2 DEF Consecutive, After, first, rx
    <3> QED BY <2>2, <3>1, <3>2
  <2> QED BY <1>7, <2>3 DEF QueueInTurn
<1>17. ChannelInTurn'
  BY <1>3, <1>13, <1>14 DEF ChannelInTurn
<1>18. NoneAhead'
  <2>1. \A i \in 0 .. n + 1 : i \in 0 .. n \/ i = n + 1
    OBVIOUS
  <2>2. LastReturned' <= arrived /\ LastStored' <= arrived
    BY <1>9, <1>13, <1>14 DEF OrderInv, NoneAhead
  <2>3. ASSUME NEW i \in 0 .. n + 1 PROVE (LastQueued(i) <= arrived)'
    BY <1>0, <1>3, <1>10, <1>12, <1>14, <2>1 DEF OrderInv, NoneAhead
  <2>4. ASSUME IsrIsPrompt, NEW i \in 0 .. n + 1
        PROVE  LastQueued(n + 1)' - LastQueued(i)' <= (n + 1 - i) * READ_BUFF_CNT
    <3>1. CASE i = n + 1
      <4>1. n + 1 - i = 0 /\ LastQueued(i)' = LastQueued(n + 1)'
        BY <3>1
      <4>2. LastQueued(n + 1)' \in Nat
        BY <1>1, <1>2, <1>12
      <4> QED BY <1>1, <4>1, <4>2
    <3>2. CASE i \in 0 .. n
      <4>1. LastQueued(n) \in Nat /\ LastQueued(i) \in Nat /\ n \in 0 .. n
        BY <1>0, <3>2, LastsAreBytes
      <4>2. LastQueued(n) - LastQueued(i) <= (n - i) * READ_BUFF_CNT
        BY <1>0, <2>4, <3>2 DEF OrderInv, NoneAhead
      <4>3. first = LastQueued(n) + 1
        BY <1>5, <2>4 DEF After
      <4>4. LastQueued(i)' = LastQueued(i)
        BY <1>10, <3>2
      <4>5. READ_BUFF_CNT \in Nat /\ n - i \in Nat /\ n + 1 - i = (n - i) + 1
        BY <3>2
      <4> DEFINE span == (n - i) * READ_BUFF_CNT
      <4>6. span \in Nat /\ (n + 1 - i) * READ_BUFF_CNT = span + READ_BUFF_CNT
        BY <4>5, OneMore
      <4> HIDE DEF span
      <4>7. LastQueued(n) - LastQueued(i) <= span
        BY <4>2 DEF span
      <4>8. h <= READ_BUFF_CNT /\ h \in Nat
        BY <1>1
      <4> QED BY <1>12, <4>1, <4>3, <4>4, <4>5, <4>6, <4>7, <4>8
    <3> QED BY <2>1, <3>1, <3>2
  <2>5. ASSUME IsrIsPrompt, NEW i \in 0 .. Len(fifo')
        PROVE  (LastQueued(Len(fifo)) - LastQueued(i) <= (Len(fifo) - i) * READ_BUFF_CNT)'
    BY <1>7, <2>4, <2>5
  <2> QED BY <1>3, <1>7, <2>2, <2>3, <2>5 DEF NoneAhead
<1>19. ReadOnce' /\ (IsrIsPrompt => ReadInOrder')
  BY <1>3 DEF OrderInv, ReadOnce, ReadInOrder
<1> QED BY <1>15, <1>16, <1>17, <1>18, <1>19 DEF OrderInv

\* A byte comes.  One that finds the channel's block full is lost, and those that
\* are left are still in turn; one that is stored comes after every other.
LEMMA ByteArrivesInTurn == ASSUME ReadInv, OrderInv, ByteArrives PROVE OrderInv'
<1> USE ReadAssumption
<1> DEFINE R == READ_BUFF_CNT
<1>0. PICK n \in Nat : n = Len(fifo)
  BY DEF ReadInv, TypeOK
<1>1. /\ fifo \in Seq(Blocks) /\ arrived \in Nat /\ CNDTR \in 0 .. R /\ R \in Nat
      /\ chMemory \in [Blocks -> [0 .. R - 1 -> Nat]] /\ CMAR \in Blocks
      /\ ptByteFifo \in Blocks
  BY DEF ReadInv, TypeOK
<1>2. /\ arrived' = arrived + 1
      /\ UNCHANGED <<tByteFifo, ptByteFifo, chState, delivered, fifo, tSizeInByte, CMAR, isr,
                     hwDataCnt>>
  BY DEF ByteArrives
<1>3. /\ LastReturned \in Nat /\ LastStored \in Nat /\ LastQueued(n) \in Nat
      /\ \A i \in 0 .. n : LastQueued(i) \in Nat
  BY <1>0, LastsAreBytes
<1>4. /\ LastReturned <= arrived /\ LastStored <= arrived
      /\ \A i \in 0 .. n : LastQueued(i) <= arrived
      /\ IsrIsPrompt => \A i \in 0 .. n : LastQueued(n) - LastQueued(i) <= (n - i) * R
  BY <1>0 DEF OrderInv, NoneAhead
<1>5. LastReturned' = LastReturned /\ LastReturned' <= arrived'
  <2>1. LastReturned' = LastReturned
    BY <1>2 DEF LastReturned
  <2> QED BY <1>1, <1>2, <1>3, <1>4, <2>1, SMTT(30)
<1>6. ReadOnce' /\ (IsrIsPrompt => ReadInOrder')
  <2>1. 1 .. arrived \subseteq 1 .. arrived' /\ \A m \in Nat : m <= arrived => m <= arrived'
    BY <1>1, <1>2
  <2>2. Len(delivered) \in Nat
    BY DEF ReadInv, TypeOK
  <2> QED BY <1>2, <2>1, <2>2 DEF OrderInv, ReadOnce, ReadInOrder
<1>7. CASE CNDTR = 0
  <2>1. ~IsrIsPrompt /\ chMemory' = chMemory /\ CNDTR' = CNDTR
    BY <1>7 DEF ByteArrives
  <2>2. LastRead' = LastRead
    BY <1>2, <1>5, <2>1 DEF LastRead
  <2>3. \A i \in 0 .. n : LastQueued(i)' = LastQueued(i)
    BY <1>2, <2>1, <2>2 DEF LastQueued
  <2>4. LastStored' = LastStored
    BY <1>0, <1>2, <2>1, <2>3 DEF LastStored
  <2>5. RingInTurn'
    BY <1>2, <1>5, <2>1 DEF OrderInv, RingInTurn, After
  <2>6. QueueInTurn'
    <3>1. \A i \in 1 .. n : i - 1 \in 0 .. n
      OBVIOUS
    <3> QED BY <1>0, <1>2, <2>1, <2>3, <3>1 DEF OrderInv, QueueInTurn, After, Consecutive
  <2>7. ChannelInTurn'
    BY <1>0, <1>2, <1>7, <2>1, <2>3 DEF OrderInv, ChannelInTurn, After, Consecutive
  <2>8. NoneAhead'
    <3>1. ASSUME NEW i \in 0 .. n PROVE LastQueued(i)' <= arrived'
      BY <1>1, <1>2, <1>3, <1>4, <2>3
    <3>2. LastStored' <= arrived'
      BY <1>1, <1>2, <1>3, <1>4, <2>4
    <3> QED BY <1>0, <1>2, <1>5, <2>1, <3>1, <3>2 DEF NoneAhead
  <2> QED BY <1>6, <2>5, <2>6, <2>7, <2>8 DEF OrderInv
<1>8. CASE CNDTR > 0
  <2>0. PICK s \in Nat : s = R - CNDTR
    BY <1>1
  <2>1. /\ s \in 0 .. R - 1 /\ CNDTR' = CNDTR - 1 /\ R - CNDTR' = s + 1
        /\ s + 1 - 1 = s /\ CNDTR' < R /\ CNDTR \in Nat
    <3>1. CNDTR' = CNDTR - 1
      BY <1>1, <1>8 DEF ByteArrives
    <3> QED BY <1>1, <1>8, <2>0, <3>1
  <2>2. chMemory' = [chMemory EXCEPT ![CMAR][s] = arrived + 1]
    BY <1>1, <1>8, <2>0, SMTT(30) DEF ByteArrives
  <2>3. /\ chMemory'[CMAR][s] = arrived + 1
        /\ \A k \in 0 .. R - 1 : k # s => chMemory'[CMAR][k] = chMemory[CMAR][k]
        /\ \A b \in Blocks : b # CMAR => chMemory'[b] = chMemory[b]
    BY <1>1, <2>1, <2>2
  <2>4. /\ \A i \in 1 .. n : fifo[i] \in Blocks /\ fifo[i] # CMAR
        /\ tByteFifo.hwLength > 0 => ptByteFifo # CMAR
    <3>1. CMAR = ptByteFifoDmaRx
      BY DEF ReadInv, ChannelFillsRx
    <3>2. ASSUME tByteFifo.hwLength > 0 PROVE ptByteFifo # CMAR
      <4>1. chState # "GET_BYTE_FIFO"
        BY <3>2 DEF OrderInv, RingInTurn
      <4>2. Reading = {ptByteFifo}
        BY <4>1 DEF Reading, ReadInv, FlushOK
      <4> QED BY <3>1, <4>2 DEF ReadInv, BlocksConserved
    <3>3. \A i \in 1 .. n : fifo[i] \in Blocks /\ fifo[i] # CMAR
      <4>1. \A i \in 1 .. n : fifo[i] \in Elems(fifo)
        BY <1>0 DEF Elems
      <4>2. CMAR \notin Elems(fifo)
        BY <3>1 DEF ReadInv, BlocksConserved
      <4> QED BY <1>0, <1>1, <4>1, <4>2
    <3> QED BY <3>2, <3>3
  <2>5. tByteFifo.hwLength > 0 => chMemory'[ptByteFifo] = chMemory[ptByteFifo]
    BY <1>1, <2>3, <2>4
  <2>6. \A i \in 1 .. n : chMemory'[fifo[i]] = chMemory[fifo[i]]
    BY <2>3, <2>4
  <2>7. tByteFifo.hwLength > 0 \/ tByteFifo.hwLength = 0
    BY DEF ReadInv, TypeOK, ByteFifoType
  <2>8. LastRead' = LastRead
    BY <1>2, <1>5, <2>5, <2>7 DEF LastRead
  <2>9. ASSUME NEW i \in 0 .. n PROVE LastQueued(i)' = LastQueued(i)
    <3>1. i = 0 \/ i \in 1 .. n
      OBVIOUS
    <3> QED BY <1>0, <1>2, <2>6, <2>8, <3>1 DEF LastQueued
  <2>10. LastStored' = arrived + 1
    BY <1>2, <2>1, <2>3 DEF LastStored
  <2>11. RingInTurn'
    BY <1>2, <1>5, <2>5 DEF OrderInv, RingInTurn, After
  <2>12. QueueInTurn'
    <3>1. \A i \in 1 .. n : i - 1 \in 0 .. n
      OBVIOUS
    <3> QED BY <1>0, <1>2, <2>6, <2>9, <3>1 DEF OrderInv, QueueInTurn, After, Consecutive
  <2>13. (Consecutive(CMAR, s + 1) /\ After(LastQueued(n), chMemory[CMAR][0]))'
    <3>0. n \in 0 .. n
      OBVIOUS
    <3>1. CASE s = 0
      <4>1. IsrIsPrompt => LastQueued(n) = arrived
        <5>1. CNDTR = R
          BY <1>1, <2>0, <3>1
        <5> QED BY <1>0, <5>1 DEF OrderInv, ChannelInTurn, LastStored
      <4>2. After(LastQueued(n), arrived + 1)
        BY <1>1, <1>3, <1>4, <3>0, <4>1, SMTT(30) DEF After
      <4>3. \A k \in 0 .. s + 1 - 1 : k = 0
        BY <3>1
      <4> QED BY <1>1, <1>2, <2>3, <2>9, <3>0, <3>1, <4>2, <4>3 DEF Consecutive
    <3>2. CASE s # 0
      <4>1. CNDTR < R /\ CNDTR \in 1 .. R - 1 /\ 0 # s /\ s - 1 \in 0 .. s - 1 /\ 0 \in 0 .. R - 1
        BY <1>1, <1>8, <2>1, <2>0, <3>2
      <4>2. /\ Consecutive(CMAR, s) /\ After(LastQueued(n), chMemory[CMAR][0])
            /\ chMemory[CMAR][s - 1] = arrived
        BY <1>0, <1>1, <2>0, <4>1 DEF OrderInv, ChannelInTurn, LastStored
      <4>3. chMemory[CMAR][0] \in Nat /\ arrived = chMemory[CMAR][0] + (s - 1)
        BY <1>1, <4>1, <4>2 DEF Consecutive
      <4>4. arrived + 1 = chMemory[CMAR][0] + s
        <5>1. PICK first \in Nat : first = chMemory[CMAR][0]
          BY <4>3
        <5>2. arrived = first + (s - 1) /\ s \in Nat
          BY <4>3, <5>1
        <5> QED BY ONLY <5>1, <5>2, first \in Nat
      <4>5. chMemory'[CMAR][0] = chMemory[CMAR][0]
        BY <2>3, <4>1
      <4>6. ASSUME NEW k \in 0 .. s PROVE chMemory'[CMAR][k] = chMemory[CMAR][0] + k
        <5>1. CASE k = s
          BY <2>3, <4>4, <5>1
        <5>2. CASE k # s
          <6>1. k \in 0 .. s - 1 /\ k \in 0 .. R - 1
            BY <2>1, <5>2
          <6> QED BY <2>3, <4>2, <5>2, <6>1 DEF Consecutive
        <5> QED BY <5>1, <5>2
      <4> QED BY <1>2, <2>1, <2>9, <3>0, <4>2, <4>5, <4>6 DEF Consecutive
    <3> QED BY <3>1, <3>2
  <2>14. ChannelInTurn'
    <3>1. Consecutive(CMAR, READ_BUFF_CNT - CNDTR)'
      BY <2>1, <2>13
    <3>2. After(LastQueued(Len(fifo)), chMemory[CMAR][0])'
      BY <1>0, <1>2, <2>13
    <3>3. isr' = "DMA_START" => hwDataCnt' <= R - CNDTR' /\ ~IsrIsPrompt
      <4>1. isr = "DMA_START" => hwDataCnt <= s /\ ~IsrIsPrompt /\ hwDataCnt \in Nat
        BY <2>0 DEF OrderInv, ChannelInTurn, ByteArrives, ReadInv, TypeOK
      <4> QED BY <1>2, <2>1, <4>1
    <3> QED BY <1>2, <2>10, <3>1, <3>2, <3>3 DEF ChannelInTurn
  <2>15. NoneAhead'
    <3>1. ASSUME NEW i \in 0 .. n PROVE LastQueued(i)' <= arrived'
      BY <1>1, <1>2, <1>3, <1>4, <2>9
    <3>2. LastStored' <= arrived'
      BY <1>1, <1>2, <2>10
    <3>3. n \in 0 .. n /\ Len(fifo') = n
      BY <1>0, <1>2
    <3>4. ASSUME IsrIsPrompt, NEW i \in 0 .. n
          PROVE  (LastQueued(Len(fifo)) - LastQueued(i) <= (Len(fifo) - i) * READ_BUFF_CNT)'
      BY <1>4, <2>9, <3>3, <3>4
    <3> QED BY <1>2, <1>5, <3>1, <3>2, <3>3, <3>4 DEF NoneAhead
  <2> QED BY <1>6, <2>11, <2>12, <2>14, <2>15 DEF OrderInv
<1> QED BY <1>1, <1>7, <1>8

\* The steps by which no byte moves: interrupts that take notes, a flush before it
\* has a block and its bytes, calls that return none.
LEMMA QuietStepsInTurn ==
  ASSUME ReadInv, OrderInv,
         \/ LineGoesIdle \/ UartIdleIrq \/ DmaHalfIrq \/ TickIrq \/ FlushGetBlock
         \/ FlushNothing \/ FlushCount \/ CallRead \/ FreeBlock \/ ReturnFalse
         \/ UNCHANGED vars
  PROVE  OrderInv'
<1>1. UNCHANGED <<tByteFifo, ptByteFifo, delivered, fifo, chMemory, CMAR, CNDTR, arrived>>
  BY DEF LineGoesIdle, UartIdleIrq, DmaHalfIrq, TickIrq, TimerCounts, FlushGetBlock, FlushNothing,
         FlushCount, CallRead, FreeBlock, ReturnFalse
<1>2. \A i \in 1 .. Len(fifo) : tSizeInByte'[fifo[i]] = tSizeInByte[fifo[i]]
  <2>1. CASE FlushGetBlock /\ freeList # <<>>
    <3>1. /\ freeList \in Seq(Blocks) /\ fifo \in Seq(Blocks)
          /\ tSizeInByte \in [Blocks -> 0 .. READ_BUFF_CNT]
          /\ Elems(freeList) \intersect Elems(fifo) = {}
      BY DEF ReadInv, TypeOK, BlocksConserved
    <3>2. Head(freeList) \in Elems(freeList)
      BY <2>1, <3>1, Taken
    <3>3. \A i \in 1 .. Len(fifo) : fifo[i] \in Elems(fifo) /\ fifo[i] \in Blocks
      BY <3>1 DEF Elems
    <3>4. \A i \in 1 .. Len(fifo) : fifo[i] # Head(freeList)
      BY <3>1, <3>2, <3>3
    <3>5. tSizeInByte' = [tSizeInByte EXCEPT ![Head(freeList)] = READ_BUFF_CNT]
      BY <2>1 DEF FlushGetBlock
    <3> QED BY <3>1, <3>3, <3>4, <3>5
  <2>2. CASE ~(FlushGetBlock /\ freeList # <<>>)
    <3>1. tSizeInByte' = tSizeInByte
      BY <2>2 DEF LineGoesIdle, UartIdleIrq, DmaHalfIrq, TickIrq, TimerCounts, FlushGetBlock, FlushNothing,
                  FlushCount, CallRead, FreeBlock, ReturnFalse
    <3> QED BY <3>1
  <2> QED BY <2>1, <2>2
<1>3. tByteFifo.hwLength > 0 => chState' # "GET_BYTE_FIFO"
  <2>1. CASE FreeBlock
    <3>1. tByteFifo.hwLength = 0
      BY <2>1 DEF FreeBlock, IsEmpty
    <3> QED BY <3>1
  <2>2. CASE ~FreeBlock
    <3>1. chState' \in {chState, "BYTE_FIFO_OUT"}
      BY <2>2 DEF LineGoesIdle, UartIdleIrq, DmaHalfIrq, TickIrq, TimerCounts, FlushGetBlock, FlushNothing,
                  FlushCount, CallRead, ReturnFalse
    <3> QED BY <3>1 DEF OrderInv, RingInTurn
  <2> QED BY <2>1, <2>2
<1>4. isr' = "DMA_START" => /\ hwDataCnt' <= READ_BUFF_CNT - CNDTR
                            /\ IsrIsPrompt => hwDataCnt' = READ_BUFF_CNT - CNDTR
  <2>1. CASE FlushCount
    <3>1. hwDataCnt' = READ_BUFF_CNT - CNDTR /\ CNDTR \in Nat /\ READ_BUFF_CNT \in Nat
      BY <2>1, ReadAssumption DEF FlushCount, DataCnt, ReadInv, TypeOK
    <3> QED BY <3>1
  <2>2. CASE ~FlushCount
    <3>1. isr' = "DMA_START" => isr = "DMA_START" /\ hwDataCnt' = hwDataCnt
      BY <2>2 DEF LineGoesIdle, UartIdleIrq, DmaHalfIrq, TickIrq, TimerCounts, FlushGetBlock, FlushNothing,
                  CallRead, FreeBlock, ReturnFalse
    <3> QED BY <3>1 DEF OrderInv, ChannelInTurn
  <2> QED BY <2>1, <2>2
<1> QED BY <1>1, <1>2, <1>3, <1>4, NoByteMoves

\* Every step keeps the bytes in turn, whatever the interrupts do to those missed.
THEOREM OrderStepKeeps == ASSUME ReadInv, OrderInv, [Next]_vars PROVE OrderInv'
BY ByteArrivesInTurn, DequeueByteInTurn, FetchBlockInTurn, FlushSwitchInTurn,
   QuietStepsInTurn DEF Next, FlushStep, ReadStep

\* The bytes are in turn in every state of a receiver whose reader keeps up.
THEOREM OrderAlways == ASSUME ReaderKeepsUp PROVE Spec => [](ReadInv /\ OrderInv)
<1>1. ReadInv /\ [Next]_vars => ReadInv'
  BY ReadStepKeeps
<1>2. ReadInv /\ OrderInv /\ [Next]_vars => OrderInv'
  BY OrderStepKeeps
<1> QED BY ReadInit, OrderInit, <1>1, <1>2, PTL DEF Spec

\* However late the interrupts, no byte is returned twice, out of order or before it
\* came.
THEOREM ReadsOnce == ASSUME ReaderKeepsUp PROVE Spec => []ReadOnce
BY OrderAlways, PTL DEF OrderInv

\* With prompt interrupts the bytes returned are those of the line, none missing.
THEOREM ReadsInOrder ==
  ASSUME ReaderKeepsUp, IsrIsPrompt
  PROVE  Spec => []ReadInOrder
<1>1. OrderInv => ReadInOrder
  BY DEF OrderInv
<1> QED BY OrderAlways, <1>1, PTL

\* zero_strm_read returns false only when every byte not returned yet is still in
\* the channel's block: nothing queued is held back from the caller.
THEOREM FalseIsNoData ==
  ASSUME ReaderKeepsUp, IsrIsPrompt
  PROVE  Spec => FalseMeansNoData
<1>1. ReadInv /\ OrderInv /\ [Next]_vars
        => [pc = "GET_BYTE_FIFO" /\ pc' = "idle" =>
              arrived - Len(delivered) = READ_BUFF_CNT - CNDTR]_vars
  <2> SUFFICES ASSUME ReadInv, OrderInv, [Next]_vars, pc = "GET_BYTE_FIFO", pc' = "idle"
               PROVE  arrived - Len(delivered) = READ_BUFF_CNT - CNDTR
    OBVIOUS
  <2> USE ReadAssumption
  <2>1. fifo = <<>> /\ chState = "GET_BYTE_FIFO"
    BY DEF Next, FlushStep, ReadStep, ByteArrives, LineGoesIdle, UartIdleIrq, DmaHalfIrq,
           TickIrq, TimerCounts, FlushGetBlock, FlushNothing, FlushCount, FlushSwitch, CallRead,
           DequeueByte, FreeBlock, FetchBlock, ReturnFalse, ReadInv, FlushOK
  <2>2. tByteFifo.hwLength = 0
    <3>1. tByteFifo.hwLength \in Nat
      BY DEF ReadInv, TypeOK, ByteFifoType
    <3> QED BY <2>1, <3>1 DEF OrderInv, RingInTurn
  <2>3. Len(fifo) = 0 /\ LastQueued(Len(fifo)) = LastReturned
    BY <2>1, <2>2 DEF LastQueued, LastRead
  <2>4. LastReturned = Len(delivered) /\ Len(delivered) \in Nat /\ arrived \in Nat
    <3>1. delivered \in Seq(Nat) /\ arrived \in Nat
      BY DEF ReadInv, TypeOK
    <3>2. \A i \in 1 .. Len(delivered) : delivered[i] = i
      BY DEF OrderInv, ReadInOrder
    <3> QED BY <3>1, <3>2 DEF LastReturned
  <2>5. LastStored = arrived /\ CNDTR \in 0 .. READ_BUFF_CNT
    BY DEF OrderInv, ChannelInTurn, ReadInv, TypeOK
  <2>6. CASE CNDTR = READ_BUFF_CNT
    BY <2>3, <2>4, <2>5, <2>6 DEF LastStored
  <2>7. CASE CNDTR # READ_BUFF_CNT
    <3>1. /\ CNDTR < READ_BUFF_CNT
          /\ READ_BUFF_CNT - CNDTR - 1 \in 0 .. READ_BUFF_CNT - CNDTR - 1
      BY <2>5, <2>7
    <3>2. /\ Consecutive(CMAR, READ_BUFF_CNT - CNDTR)
          /\ chMemory[CMAR][0] = Len(delivered) + 1
      BY <2>3, <2>4, <3>1 DEF OrderInv, ChannelInTurn, After
    <3>3. arrived = chMemory[CMAR][0] + (READ_BUFF_CNT - CNDTR - 1)
      BY <2>5, <2>7, <3>1, <3>2 DEF LastStored, Consecutive
    <3> QED BY <2>4, <2>5, <3>2, <3>3
  <2> QED BY <2>6, <2>7
<1> QED BY OrderAlways, <1>1, PTL DEF Spec, FalseMeansNoData

---------------------------------------------------------------------------
(* The refinement: with prompt interrupts the receiver is a byte pipe.      *)

\* The bytes not returned are in the ring, the queue and the channel's block, each a
\* block at most, the last one not full; and the blocks are chCnt.
LEMMA ReaderHasRoom ==
  ASSUME ReadInv, OrderInv, IsrIsPrompt, CNDTR > 0
  PROVE  arrived - Len(delivered) < chCnt * READ_BUFF_CNT
<1> USE ReadAssumption
<1> DEFINE R == READ_BUFF_CNT  rx == ptByteFifoDmaRx
           unread == IF tByteFifo.hwLength = 0 THEN 0 ELSE 1
           held == IF tByteFifo.hwLength = 0 THEN Append(fifo, rx)
                   ELSE Append(Append(fifo, rx), ptByteFifo)
<1>0. PICK n \in Nat : n = Len(fifo)
  BY DEF ReadInv, TypeOK
<1>1. /\ fifo \in Seq(Blocks) /\ CNDTR \in 1 .. R /\ R \in Nat /\ rx \in Blocks
      /\ ptByteFifo \in Blocks /\ delivered \in Seq(Nat) /\ arrived \in Nat /\ chCnt \in Nat
      /\ tByteFifo.hwLength \in Nat /\ unread \in Nat
  BY DEF ReadInv, TypeOK, ByteFifoType
<1>2. /\ LastReturned \in Nat /\ LastRead \in Nat /\ LastStored \in Nat
      /\ LastQueued(n) \in Nat /\ LastQueued(0) = LastRead
  <2>1. n \in 0 .. n
    OBVIOUS
  <2> QED BY <1>0, <2>1, LastsAreBytes DEF LastQueued
<1>3. n + unread + 1 <= chCnt
  <2>1. Distinct(fifo) /\ rx \notin Elems(fifo)
    BY DEF ReadInv, BlocksConserved
  <2>2. /\ Append(fifo, rx) \in Seq(Blocks) /\ Distinct(Append(fifo, rx))
        /\ Elems(Append(fifo, rx)) = Elems(fifo) \union {rx}
        /\ Len(Append(fifo, rx)) = n + 1
    BY <1>0, <1>1, <2>1, AppendedLast
  <2>0. ASSUME NEW list \in Seq(Blocks), Distinct(list) PROVE Len(list) <= chCnt
    <3>1. list \in Seq(0 .. chCnt - 1)
      BY DEF Blocks
    <3> QED BY <1>1, <2>0, <3>1, ListFits
  <2>3. CASE tByteFifo.hwLength = 0
    <3>1. n + 1 <= chCnt
      BY <2>0, <2>2
    <3> QED BY <2>3, <3>1
  <2>4. CASE tByteFifo.hwLength # 0
    <3>1. chState # "GET_BYTE_FIFO"
      BY <1>1, <2>4 DEF OrderInv, RingInTurn
    <3>2. Reading = {ptByteFifo}
      BY <3>1 DEF Reading, ReadInv, FlushOK
    <3>3. ptByteFifo \notin Elems(Append(fifo, rx))
      BY <2>2, <3>2 DEF ReadInv, BlocksConserved
    <3>4. /\ Append(Append(fifo, rx), ptByteFifo) \in Seq(Blocks)
          /\ Distinct(Append(Append(fifo, rx), ptByteFifo))
      BY <1>1, <2>2, <3>3, AppendedLast
    <3>5. Len(Append(Append(fifo, rx), ptByteFifo)) = n + 2
      BY <1>1, <2>2
    <3>6. n + 2 <= chCnt
      BY <2>0, <3>4, <3>5
    <3> QED BY <2>4, <3>6
  <2> QED BY <2>3, <2>4
<1>4. arrived = LastStored /\ Len(delivered) = LastReturned
  <2>1. \A i \in 1 .. Len(delivered) : delivered[i] = i
    BY DEF OrderInv, ReadInOrder
  <2>2. Len(delivered) = LastReturned
    BY <1>1, <2>1 DEF LastReturned
  <2> QED BY <2>2 DEF OrderInv, ChannelInTurn
<1>5. LastStored - LastQueued(n) < R
  <2>1. CASE CNDTR = R
    BY <1>0, <1>1, <1>2, <2>1 DEF LastStored
  <2>2. CASE CNDTR # R
    <3>1. CNDTR < R /\ R - CNDTR - 1 \in 0 .. R - CNDTR - 1
      BY <1>1, <2>2
    <3>2. /\ Consecutive(CMAR, R - CNDTR) /\ chMemory[CMAR][0] = LastQueued(n) + 1
      BY <1>0, <3>1 DEF OrderInv, ChannelInTurn, After
    <3>3. LastStored = LastQueued(n) + 1 + (R - CNDTR - 1)
      BY <2>2, <3>1, <3>2 DEF LastStored, Consecutive
    <3> QED BY <1>1, <1>2, <3>3
  <2> QED BY <2>1, <2>2
<1>6. LastQueued(n) - LastRead <= n * R
  <2>1. 0 \in 0 .. n /\ n - 0 = n
    OBVIOUS
  <2> QED BY <1>0, <1>2, <2>1 DEF OrderInv, NoneAhead
<1>7. LastRead - LastReturned <= unread * R
  <2>1. CASE tByteFifo.hwLength = 0
    BY <1>1, <1>2, <2>1 DEF LastRead
  <2>2. CASE tByteFifo.hwLength # 0
    <3> DEFINE head == tByteFifo.hwHead  size == tByteFifo.hwSize
    <3>1. head \in Nat /\ size \in Nat /\ head < size /\ size <= R
      BY DEF ReadInv, TypeOK, RingRead, ByteFifoType
    <3>2. /\ chMemory[ptByteFifo][head] = LastReturned + 1
          /\ \A k \in head .. size - 1 :
               chMemory[ptByteFifo][k] = chMemory[ptByteFifo][head] + (k - head)
      BY <1>1, <2>2 DEF OrderInv, RingInTurn, After
    <3>3. LastRead = chMemory[ptByteFifo][size - 1]
      BY <2>2 DEF LastRead
    <3> HIDE DEF head, size
    <3>4. LastRead = LastReturned + 1 + (size - 1 - head)
      BY <3>1, <3>2, <3>3
    <3>5. unread * R = R
      BY <1>1, <2>2
    <3> QED BY <1>1, <1>2, <3>1, <3>4, <3>5
  <2> QED BY <2>1, <2>2
<1> DEFINE queued == n * R  ring == unread * R
<1>8. /\ queued \in Nat /\ ring \in Nat
      /\ queued + ring = (n + unread) * R /\ (n + unread) * R + R = (n + unread + 1) * R
  <2>1. unread \in {0, 1}
    OBVIOUS
  <2>2. CASE unread = 0
    BY <1>1, <2>2, OneMore
  <2>3. CASE unread = 1
    BY <1>1, <2>3, OneMore
  <2> QED BY <2>1, <2>2, <2>3
<1> DEFINE total == (n + unread + 1) * R  capacity == chCnt * R
<1>9. total <= capacity /\ total \in Nat /\ capacity \in Nat
  <2>1. n + unread + 1 \in Nat
    BY <1>1
  <2> HIDE DEF unread
  <2> QED BY <1>1, <1>3, <2>1, MoreBlocks
<1> HIDE DEF queued, ring, unread, total, capacity
<1>10. arrived - Len(delivered) < queued + ring + R
  BY <1>1, <1>2, <1>4, <1>5, <1>6, <1>7, <1>8 DEF queued, ring
<1>11. queued + ring + R = total
  BY <1>8 DEF total
<1>12. arrived - Len(delivered) < capacity
  BY <1>1, <1>9, <1>10, <1>11
<1> QED BY <1>12 DEF capacity

\* A step of the receiver is a byte put in, a byte taken out or neither: the bytes
\* that arrive are the pipe's input, the ones zero_strm_read returns its output.
LEMMA ReadStepIsPipeStep ==
  ASSUME ReadInv, OrderInv, IsrIsPrompt, [Next]_vars
  PROVE  [Pipe!Accept \/ Pipe!Deliver]_(Pipe!channelVars)
<1>1. CASE ByteArrives
  <2>1. arrived - Len(delivered) < chCnt * READ_BUFF_CNT
    BY <1>1, ReaderHasRoom DEF ByteArrives
  <2> QED BY <1>1, <2>1 DEF ByteArrives, Pipe!Accept
<1>2. CASE DequeueByte
  <2>1. OrderInv'
    BY <1>2, DequeueByteInTurn
  <2>2. /\ delivered \in Seq(Nat) /\ arrived \in Nat /\ arrived' = arrived
        /\ delivered' = Append(delivered, chMemory[tByteFifo.pchBuffer][tByteFifo.hwHead])
    BY <1>2 DEF DequeueByte, ReadInv, TypeOK
  <2>3. Len(delivered') = Len(delivered) + 1 /\ Len(delivered) + 1 \in 1 .. Len(delivered')
    BY <2>2
  <2>4. Len(delivered') <= arrived' /\ delivered'[Len(delivered) + 1] = Len(delivered) + 1
    BY <2>1, <2>3 DEF OrderInv, ReadInOrder
  <2>5. Len(delivered) < arrived
    BY <2>2, <2>3, <2>4
  <2>6. delivered' = Append(delivered, Len(delivered) + 1)
    BY <2>2, <2>4
  <2> QED BY <2>2, <2>5, <2>6 DEF Pipe!Deliver
<1>3. CASE ~ByteArrives /\ ~DequeueByte
  <2>1. UNCHANGED <<arrived, delivered>>
    BY <1>3 DEF Next, FlushStep, ReadStep, LineGoesIdle, UartIdleIrq, DmaHalfIrq, TickIrq, TimerCounts,
           FlushGetBlock, FlushNothing, FlushCount, FlushSwitch, CallRead, FreeBlock,
           FetchBlock, ReturnFalse
  <2> QED BY <2>1 DEF Pipe!channelVars
<1> QED BY <1>1, <1>2, <1>3

\* The receiver implements the byte pipe of all its blocks, if its interrupts are
\* prompt and its reader keeps up.
THEOREM ReaderIsPipe ==
  ASSUME ReaderKeepsUp, IsrIsPrompt
  PROVE  Spec => PipeSpec
<1>1. Init => Pipe!Init
  BY DEF Init, Pipe!Init
<1>2. ReadInv /\ OrderInv /\ [Next]_vars => [Pipe!Accept \/ Pipe!Deliver]_(Pipe!channelVars)
  BY ReadStepIsPipeStep
<1> QED BY OrderAlways, <1>1, <1>2, PTL DEF Spec, PipeSpec, Pipe!Spec

---------------------------------------------------------------------------
(* StreamReadNested: two flushes one inside the other.                      *)

\* One owner each, owner by owner.
LEMMA SixOwners ==
  ASSUME NEW a, NEW b, NEW c, NEW d, NEW e, NEW f
  PROVE  LET o == <<a, b, c, d, e, f>> IN
         /\ UNION {o[i] : i \in 1 .. Len(o)} = a \union b \union c \union d \union e \union f
         /\ (\A i, j \in 1 .. Len(o) : i # j => o[i] \intersect o[j] = {}) <=>
              /\ a \intersect (b \union c \union d \union e \union f) = {}
              /\ b \intersect (c \union d \union e \union f) = {}
              /\ c \intersect (d \union e \union f) = {}
              /\ d \intersect (e \union f) = {}
              /\ e \intersect f = {}
<1> DEFINE o == <<a, b, c, d, e, f>>
<1>1. /\ Len(o) = 6 /\ o[1] = a /\ o[2] = b /\ o[3] = c /\ o[4] = d /\ o[5] = e /\ o[6] = f
  OBVIOUS
<1>2. \A i : i \in 1 .. 6 <=> i = 1 \/ i = 2 \/ i = 3 \/ i = 4 \/ i = 5 \/ i = 6
  OBVIOUS
<1> HIDE DEF o
<1>3. UNION {o[i] : i \in 1 .. Len(o)} = a \union b \union c \union d \union e \union f
  <2>1. ASSUME NEW x, NEW i \in 1 .. 6, x \in o[i]
        PROVE  x \in a \union b \union c \union d \union e \union f
    BY <1>1, <1>2, <2>1
  <2>2. ASSUME NEW x \in a \union b \union c \union d \union e \union f
        PROVE  \E i \in 1 .. 6 : x \in o[i]
    BY <1>1, <1>2
  <2> QED BY <1>1, <2>1, <2>2
<1>4. (\A i, j \in 1 .. Len(o) : i # j => o[i] \intersect o[j] = {}) =>
         /\ a \intersect (b \union c \union d \union e \union f) = {}
         /\ b \intersect (c \union d \union e \union f) = {}
         /\ c \intersect (d \union e \union f) = {}
         /\ d \intersect (e \union f) = {}
         /\ e \intersect f = {}
  <2> SUFFICES ASSUME \A i, j \in 1 .. Len(o) : i # j => o[i] \intersect o[j] = {}
               PROVE  /\ a \intersect (b \union c \union d \union e \union f) = {}
                      /\ b \intersect (c \union d \union e \union f) = {}
                      /\ c \intersect (d \union e \union f) = {}
                      /\ d \intersect (e \union f) = {}
                      /\ e \intersect f = {}
    OBVIOUS
  <2>1. \A i, j \in 1 .. 6 : i # j => o[i] \intersect o[j] = {}
    BY <1>1
  <2>2. /\ a \intersect b = {} /\ a \intersect c = {} /\ a \intersect d = {}
        /\ a \intersect e = {} /\ a \intersect f = {}
    BY <1>1, <2>1
  <2>3. /\ b \intersect c = {} /\ b \intersect d = {} /\ b \intersect e = {}
        /\ b \intersect f = {}
    BY <1>1, <2>1
  <2>4. /\ c \intersect d = {} /\ c \intersect e = {} /\ c \intersect f = {}
        /\ d \intersect e = {} /\ d \intersect f = {} /\ e \intersect f = {}
    BY <1>1, <2>1
  <2> QED BY <2>2, <2>3, <2>4
<1>5. ASSUME /\ a \intersect (b \union c \union d \union e \union f) = {}
             /\ b \intersect (c \union d \union e \union f) = {}
             /\ c \intersect (d \union e \union f) = {}
             /\ d \intersect (e \union f) = {}
             /\ e \intersect f = {}
      PROVE  \A i, j \in 1 .. Len(o) : i # j => o[i] \intersect o[j] = {}
  <2> SUFFICES ASSUME NEW i \in 1 .. 6, NEW j \in 1 .. 6, i # j
               PROVE  o[i] \intersect o[j] = {}
    BY <1>1
  <2>1. CASE i = 1 BY <1>1, <1>2, <1>5, <2>1
  <2>2. CASE i = 2 BY <1>1, <1>2, <1>5, <2>2
  <2>3. CASE i = 3 BY <1>1, <1>2, <1>5, <2>3
  <2>4. CASE i = 4 BY <1>1, <1>2, <1>5, <2>4
  <2>5. CASE i = 5 BY <1>1, <1>2, <1>5, <2>5
  <2>6. CASE i = 6 BY <1>1, <1>2, <1>5, <2>6
  <2> QED BY <1>2, <2>1, <2>2, <2>3, <2>4, <2>5, <2>6
<1> QED BY <1>3, <1>4, <1>5 DEF o

\* Lists q of free blocks and p of queued ones, reader r, flushes s and t, channel c.
Owned(q, p, r, s, t, c) ==
  /\ Distinct(q) /\ Distinct(p)
  /\ Elems(q) \intersect Elems(p) = {}
  /\ r \intersect s = {} /\ r \intersect t = {} /\ s \intersect t = {}
  /\ c \intersect (r \union s \union t) = {}
  /\ (r \union s \union t \union c) \intersect (Elems(q) \union Elems(p)) = {}
  /\ Elems(q) \union Elems(p) \union r \union s \union t \union c = Blocks

\* Where the channel is, of OneOwnerEach.
ChannelKnown ==
  /\ CMAR = IF At("RECORD") THEN BlockAt("RECORD") ELSE ptByteFifoDmaRx
  /\ Switching => ptByteFifoDmaRx \in Elems(fifo)

\* What OneOwnerEach says in the terms of the steps.
LEMMA NestedOwners ==
  OneOwnerEach <=> /\ Owned(freeList, fifo, Reading, NestedSpare, SpareBelow, Filling)
                   /\ ChannelKnown
<1> DEFINE F == Elems(freeList)  Q == Elems(fifo)  R == Reading  S == NestedSpare
           B == SpareBelow  C == Filling  o == <<F, Q, R, S, B, C>>
           Union == UNION {o[i] : i \in 1 .. Len(o)}
           Apart == \A i, j \in 1 .. Len(o) : i # j => o[i] \intersect o[j] = {}
<1>1. OneOwnerEach <=>
        Distinct(freeList) /\ Distinct(fifo) /\ Union = Blocks /\ Apart /\ ChannelKnown
  BY DEF OneOwnerEach, ChannelKnown
<1>2. /\ Union = F \union Q \union R \union S \union B \union C
      /\ Apart <=> /\ F \intersect (Q \union R \union S \union B \union C) = {}
                   /\ Q \intersect (R \union S \union B \union C) = {}
                   /\ R \intersect (S \union B \union C) = {}
                   /\ S \intersect (B \union C) = {}
                   /\ B \intersect C = {}
  BY SixOwners
<1> HIDE DEF Union, Apart, o
<1>3. Owned(freeList, fifo, R, S, B, C) <=>
        Distinct(freeList) /\ Distinct(fifo) /\ Union = Blocks /\ Apart
  <2> HIDE DEF R, S, B, C
  <2> QED BY <1>2 DEF Owned
<1> QED BY <1>1, <1>3

\* The same of the next state.
LEMMA NestedOwnersNext ==
  OneOwnerEach' <=> /\ Owned(freeList, fifo, Reading, NestedSpare, SpareBelow, Filling)'
                    /\ ChannelKnown'
BY NestedOwners, PTL

\* A step taken where the queue is whole, and what Plain says of the rest.
InFlush == NestedTypes /\ NestedOK /\ Distinct(fifo)
Around ==
  /\ preempted' = preempted
  /\ preempted # NULL => ~byTimer'
  /\ cutIn /\ (isr' # "none" \/ preempted # NULL) => cutIn'

\* Neither flush has started.
LEMMA NestedInitInv == NestedInit => NestedInv
<1> SUFFICES ASSUME NestedInit PROVE NestedInv
  OBVIOUS
<1>1. TypeOK /\ BlocksConserved /\ Init /\ preempted = NULL /\ ptLoaded = NULL
  BY ReadInit DEF NestedInit, ReadInv
<1>2. /\ isr = "none" /\ ptFlush = NULL /\ CMAR = ptByteFifoDmaRx /\ CNDTR = READ_BUFF_CNT
      /\ fifo = <<>> /\ hwDataCnt = 0
  BY <1>1 DEF Init
<1>3. NestedTypes
  <2>1. tSizeInByte \in [Blocks -> Int]
    BY <1>1 DEF TypeOK
  <2>2. CNDTR \in Int /\ hwDataCnt \in Int
    BY <1>2, ReadAssumption
  <2>3. CMAR \in Blocks
    BY <1>1 DEF TypeOK
  <2> QED BY <1>1, <2>1, <2>2, <2>3, Zenon DEF NestedTypes, TypeOK, Init
<1>4. Distinct(fifo)
  BY <1>2, EmptyList
<1>5. /\ SpareBelow = {} /\ NestedSpare = {} /\ Spare = {}
      /\ ~At("RECORD") /\ ~At("DMA_START") /\ Filling = {ptByteFifoDmaRx}
  BY <1>1, <1>2 DEF SpareBelow, NestedSpare, Spare, At, Switching, Filling
<1>6. OneOwnerEach
  <2>1. Owned(freeList, fifo, Reading, NestedSpare, SpareBelow, Filling)
    BY <1>1, <1>5 DEF BlocksConserved, Owned
  <2>2. ChannelKnown
    BY <1>2, <1>5 DEF ChannelKnown, Switching
  <2> QED BY <2>1, <2>2, NestedOwners
<1>7. FlushHolds(isr, ptFlush, ptLoaded) /\ BelowHolds /\ RoomLeft
  BY <1>1, <1>2 DEF FlushHolds, BelowHolds, RoomLeft
<1> QED BY <1>3, <1>4, <1>6, <1>7 DEF NestedInv, NestedOK

\* A step of a handler, or of the timer, that leaves blocks, sizes and channel alone and
\* is not about to switch.
LEMMA NoBlockMoves ==
  ASSUME InFlush, Around,
         UNCHANGED <<freeList, fifo, ptByteFifo, ptByteFifoDmaRx, CMAR, tSizeInByte, CNDTR,
                     pc, chState, ptFlush>>,
         isr \notin {"DMA_START", "RECORD"}, isr' \notin {"DMA_START", "RECORD"},
         isr' \in {"none"} \union FlushSteps, ptLoaded' \in Blocks \union {NULL},
         hwDataCnt' \in Int, FlushHolds(isr, ptFlush, ptLoaded)'
  PROVE  NestedInv'
<1>1. NestedTypes'
  BY Zenon DEF InFlush, NestedTypes, Around
<1>2. /\ Reading' = Reading /\ NestedSpare' = NestedSpare /\ SpareBelow' = SpareBelow
      /\ (Switching <=> Switching') /\ Filling' = Filling
      /\ (At("RECORD") <=> At("RECORD")')
      /\ At("RECORD") => BlockAt("RECORD")' = BlockAt("RECORD")
  BY DEF Around, Reading, NestedSpare, SpareBelow, Filling, Switching, At, BlockAt
<1>3. OneOwnerEach'
  <2>1. Owned(freeList, fifo, Reading, NestedSpare, SpareBelow, Filling) /\ ChannelKnown
    BY NestedOwners DEF InFlush, NestedOK
  <2>2. Owned(freeList, fifo, Reading, NestedSpare, SpareBelow, Filling)'
    BY <1>2, <2>1 DEF Owned
  <2>3. ChannelKnown'
    BY <1>2, <2>1 DEF ChannelKnown
  <2> QED BY <2>2, <2>3, NestedOwnersNext
<1>4. BelowHolds'
  BY DEF InFlush, NestedOK, BelowHolds, FlushHolds, Around
<1>5. RoomLeft'
  BY DEF InFlush, NestedOK, RoomLeft, Held, HeldBelow, Around
<1>6. Distinct(fifo)'
  BY DEF InFlush
<1> QED BY <1>1, <1>3, <1>4, <1>5, <1>6 DEF NestedInv, NestedOK

\* The channel, the line and the idle interrupt, also during a flush: a byte comes while
\* two blocks are free.
LEMMA LineKeeps ==
  ASSUME ReaderKeepsUp, InFlush, Around, UNCHANGED ptLoaded,
         (ByteArrives /\ RoomForTwo) \/ LineGoesIdle \/ UartIdleIrq
  PROVE  NestedInv'
<1>1. /\ UNCHANGED <<freeList, fifo, ptByteFifo, ptByteFifoDmaRx, CMAR, tSizeInByte,
                     hwDataCnt, pc, chState, isr, ptFlush, ptLoaded>>
      /\ CNDTR \in Int /\ CNDTR' \in {CNDTR, CNDTR - 1}
  BY DEF ByteArrives, LineGoesIdle, UartIdleIrq, InFlush, NestedTypes
<1>2. CNDTR' = CNDTR \/ Len(freeList) >= 2
  BY DEF ByteArrives, LineGoesIdle, UartIdleIrq, RoomForTwo
<1>3. NestedTypes'
  <2>1. CNDTR' \in Int
    BY <1>1
  <2> QED BY <1>1, <2>1, Zenon DEF InFlush, NestedTypes, Around
<1>4. /\ Reading' = Reading /\ NestedSpare' = NestedSpare /\ SpareBelow' = SpareBelow
      /\ (Switching <=> Switching') /\ Filling' = Filling
      /\ (At("RECORD") <=> At("RECORD")')
      /\ BlockAt("RECORD")' = BlockAt("RECORD")
  BY <1>1 DEF Around, Reading, NestedSpare, SpareBelow, Filling, Switching, At, BlockAt
<1>5. OneOwnerEach'
  <2>1. Owned(freeList, fifo, Reading, NestedSpare, SpareBelow, Filling) /\ ChannelKnown
    BY NestedOwners DEF InFlush, NestedOK
  <2>2. Owned(freeList, fifo, Reading, NestedSpare, SpareBelow, Filling)'
    BY <1>1, <1>4, <2>1 DEF Owned
  <2>3. ChannelKnown'
    BY <1>1, <1>4, <2>1 DEF ChannelKnown
  <2> QED BY <2>2, <2>3, NestedOwnersNext
<1>6. freeList = <<>> => CNDTR' = CNDTR
  BY <1>2
<1>7. FlushHolds(isr, ptFlush, ptLoaded)'
  BY <1>1, <1>6 DEF InFlush, NestedOK, FlushHolds, Around
<1>8. BelowHolds'
  BY <1>1, <1>6 DEF InFlush, NestedOK, BelowHolds, FlushHolds, Around
<1>9. RoomLeft'
  <2>1. CASE CNDTR' = CNDTR
    BY <1>1, <2>1 DEF InFlush, NestedOK, RoomLeft, Held, HeldBelow, Around
  <2>2. CASE Len(freeList) >= 2
    <3>1. Len(freeList') \in Nat /\ Len(freeList') >= 2
      BY <1>1, <2>2 DEF InFlush, NestedTypes
    <3>2. Held(isr, ptFlush)' \in {0, 1} /\ HeldBelow' \in {0, 1}
      BY DEF Held, HeldBelow
    <3> QED BY <3>1, <3>2 DEF RoomLeft
  <2> QED BY <1>2, <2>1, <2>2
<1>10. Distinct(fifo)'
  BY <1>1 DEF InFlush
<1> QED BY <1>3, <1>5, <1>7, <1>8, <1>9, <1>10 DEF NestedInv, NestedOK

\* The steps that only look, or change what is the flush's own.
LEMMA LookKeeps ==
  ASSUME InFlush, Around,
         \/ TimerTicks \/ (DmaHalfIrq /\ UNCHANGED ptLoaded)
         \/ CompareCount \/ ReadCount \/ SetDmaIdle \/ LoadRx
  PROVE  NestedInv'
<1>1. /\ UNCHANGED <<freeList, fifo, ptByteFifo, ptByteFifoDmaRx, CMAR, tSizeInByte, CNDTR,
                     pc, chState, ptFlush>>
      /\ ptLoaded' \in {ptLoaded, ptByteFifoDmaRx}
  BY DEF TimerTicks, TimerCounts, DmaHalfIrq, CompareCount, ReadCount, SetDmaIdle, LoadRx
<1>2. /\ isr \notin {"DMA_START", "RECORD"} /\ isr' \notin {"DMA_START", "RECORD"}
      /\ isr' \in {"none"} \union FlushSteps
  <2>1. CASE TimerTicks \/ DmaHalfIrq
    BY <2>1 DEF TimerTicks, TimerCounts, DmaHalfIrq, FlushSteps
  <2>2. CASE CompareCount \/ ReadCount \/ SetDmaIdle \/ LoadRx
    BY <2>2 DEF CompareCount, ReadCount, SetDmaIdle, LoadRx, FlushSteps
  <2> QED BY <2>1, <2>2
<1>3. ptLoaded' \in Blocks \union {NULL}
  BY <1>1 DEF InFlush, NestedTypes
<1>4. hwDataCnt' \in Int
  <2>1. hwDataCnt \in Int /\ CNDTR \in Int /\ READ_BUFF_CNT \in Int
    BY ReadAssumption DEF InFlush, NestedTypes
  <2>2. hwDataCnt' = hwDataCnt \/ hwDataCnt' = READ_BUFF_CNT - CNDTR
    BY DEF TimerTicks, TimerCounts, DmaHalfIrq, CompareCount, ReadCount, SetDmaIdle, LoadRx,
           DataCnt
  <2> QED BY <2>1, <2>2
<1>5. FlushHolds(isr, ptFlush, ptLoaded)'
  <2>1. FlushHolds(isr, ptFlush, ptLoaded)
    BY DEF InFlush, NestedOK
  <2>2. CASE TimerTicks \/ DmaHalfIrq
    <3>1. isr = "none" /\ isr' \in {"none", "COMPARE_CNT", "GET_BLOCK"}
      BY <2>2 DEF TimerTicks, TimerCounts, DmaHalfIrq
    <3> QED BY <1>1, <2>1, <3>1 DEF FlushHolds
  <2>3. CASE CompareCount \/ SetDmaIdle
    <3>1. isr \in {"COMPARE_CNT", "SET_IDLE"} /\ isr' \in {"none", "GET_BLOCK"}
      BY <2>3 DEF CompareCount, SetDmaIdle
    <3> QED BY <1>1, <2>1, <3>1 DEF FlushHolds
  <2>4. CASE ReadCount
    <3>1. /\ isr = "GET_DATA_CNT" /\ isr' \in {"FREE_BLOCK", "LOAD_SIZED"}
          /\ isr' = "LOAD_SIZED" => READ_BUFF_CNT - CNDTR # 0
      BY <2>4 DEF ReadCount, NothingStored, DataCnt
    <3>2. isr' = "LOAD_SIZED" => ptFlush # NULL
      <4>1. CNDTR \in Int /\ READ_BUFF_CNT \in Int
        BY ReadAssumption DEF InFlush, NestedTypes
      <4> QED BY <2>1, <3>1, <4>1 DEF FlushHolds
    <3> QED BY <1>1, <2>1, <3>1, <3>2 DEF FlushHolds
  <2>5. CASE LoadRx
    <3>1. /\ \/ isr = "LOAD_SIZED" /\ isr' = "SET_SIZE"
             \/ isr = "LOAD_APPENDED" /\ isr' = "APPEND"
          /\ ptLoaded' = ptByteFifoDmaRx
      BY <2>5 DEF LoadRx
    <3> QED BY <1>1, <2>1, <3>1 DEF FlushHolds
  <2> QED BY <2>2, <2>3, <2>4, <2>5
<1> QED BY <1>1, <1>2, <1>3, <1>4, <1>5, NoBlockMoves

\* The block recorded as the channel's is no flush's: it is in the channel or queued.
LEMMA RxElsewhere ==
  ASSUME InFlush
  PROVE  /\ ptByteFifoDmaRx \in Elems(fifo) <=> Switching
         /\ ~Switching => CMAR = ptByteFifoDmaRx /\ Filling = {ptByteFifoDmaRx}
         /\ ptByteFifoDmaRx \notin NestedSpare \union SpareBelow
<1>1. Owned(freeList, fifo, Reading, NestedSpare, SpareBelow, Filling) /\ ChannelKnown
  BY NestedOwners DEF InFlush, NestedOK
<1>2. ~Switching => CMAR = ptByteFifoDmaRx /\ Filling = {ptByteFifoDmaRx}
  BY <1>1 DEF ChannelKnown, Switching, Filling
<1>3. Switching => ptByteFifoDmaRx \in Elems(fifo)
  BY <1>1 DEF ChannelKnown
<1>4. ~Switching => ptByteFifoDmaRx \notin Elems(fifo)
  BY <1>1, <1>2 DEF Owned
<1>5. ptByteFifoDmaRx \notin NestedSpare \union SpareBelow
  BY <1>1, <1>2, <1>3 DEF Owned
<1> QED BY <1>2, <1>3, <1>4, <1>5

\* GET_BLOCK, running over another flush or not.
LEMMA NestedGetBlock ==
  ASSUME InFlush, Around, FlushGetBlock, UNCHANGED ptLoaded
  PROVE  NestedInv'
<1>1. /\ UNCHANGED <<fifo, ptByteFifo, ptByteFifoDmaRx, CMAR, hwDataCnt, pc, chState, CNDTR>>
      /\ isr = "GET_BLOCK" /\ isr' = "GET_DATA_CNT" /\ isr' \in FlushSteps
  BY DEF FlushGetBlock, FlushSteps
<1>2. ptFlush = NULL
  BY <1>1 DEF InFlush, NestedOK, FlushHolds
<1>3. /\ Reading' = Reading /\ NestedSpare = {} /\ SpareBelow' = SpareBelow
      /\ (Switching <=> Switching') /\ Filling' = Filling
      /\ (At("RECORD") <=> At("RECORD")')
      /\ At("RECORD") => BlockAt("RECORD")' = BlockAt("RECORD")
  BY <1>1, <1>2 DEF Around, Reading, NestedSpare, SpareBelow, Filling, Switching, At, BlockAt
<1>4. Owned(freeList, fifo, Reading, NestedSpare, SpareBelow, Filling) /\ ChannelKnown
  BY NestedOwners DEF InFlush, NestedOK
<1>5. ChannelKnown'
  BY <1>1, <1>3, <1>4 DEF ChannelKnown
<1>6. Distinct(fifo)'
  BY <1>1 DEF InFlush
<1>7. CASE freeList = <<>>
  <2>1. ptFlush' = NULL /\ UNCHANGED <<freeList, tSizeInByte>>
    BY <1>7 DEF FlushGetBlock
  <2>2. NestedTypes'
    BY <1>1, <2>1, Zenon DEF InFlush, NestedTypes, Around
  <2>3. NestedSpare' = {}
    BY <2>1 DEF NestedSpare
  <2>4. Owned(freeList, fifo, Reading, NestedSpare, SpareBelow, Filling)'
    BY <1>1, <1>3, <1>4, <2>1, <2>3 DEF Owned
  <2>5. CNDTR = READ_BUFF_CNT
    <3>1. Len(freeList) = 0 /\ Held(isr, ptFlush) = 0 /\ HeldBelow \in {0, 1}
      BY <1>2, <1>7 DEF Held, HeldBelow
    <3> QED BY <3>1 DEF InFlush, NestedOK, RoomLeft
  <2>6. FlushHolds(isr, ptFlush, ptLoaded)' /\ RoomLeft'
    BY <1>1, <1>7, <2>1, <2>5 DEF FlushHolds, RoomLeft
  <2>7. BelowHolds'
    BY <1>1, <2>1 DEF InFlush, NestedOK, BelowHolds, FlushHolds, Around
  <2>8. OneOwnerEach'
    BY <1>5, <2>4, NestedOwnersNext
  <2> QED BY <1>6, <2>2, <2>6, <2>7, <2>8 DEF NestedInv, NestedOK
<1>8. CASE freeList # <<>>
  <2> DEFINE b == Head(freeList)
  <2>1. /\ ptFlush' = b /\ freeList' = Tail(freeList)
        /\ tSizeInByte' = [tSizeInByte EXCEPT ![b] = READ_BUFF_CNT]
    BY <1>8 DEF FlushGetBlock
  <2>2. /\ b \in Blocks /\ Tail(freeList) \in Seq(Blocks)
        /\ Elems(freeList) = Elems(Tail(freeList)) \union {b}
        /\ Distinct(freeList) => Distinct(Tail(freeList)) /\ b \notin Elems(Tail(freeList))
        /\ Len(freeList') = Len(freeList) - 1 /\ Len(freeList) \in Nat
    BY <1>8, <2>1, Taken DEF InFlush, NestedTypes
  <2> HIDE DEF b
  <2>3. b # NULL
    BY <2>2, ReadAssumption
  <2>4. /\ tSizeInByte' \in [Blocks -> Int] /\ tSizeInByte'[b] = READ_BUFF_CNT
        /\ \A c \in Blocks : c # b => tSizeInByte'[c] = tSizeInByte[c]
    BY <2>1, <2>2, ReadAssumption DEF InFlush, NestedTypes
  <2>5. NestedTypes'
    BY <1>1, <2>1, <2>2, <2>4, Zenon DEF InFlush, NestedTypes, Around
  <2>6. NestedSpare' = {b}
    BY <2>1, <2>3 DEF NestedSpare
  <2>7. Owned(freeList, fifo, Reading, NestedSpare, SpareBelow, Filling)'
    BY <1>1, <1>3, <1>4, <2>1, <2>2, <2>6 DEF Owned
  <2>8. OneOwnerEach'
    BY <1>5, <2>7, NestedOwnersNext
  <2>9. FlushHolds(isr, ptFlush, ptLoaded)'
    BY <1>1, <2>1, <2>3, <2>4 DEF FlushHolds
  <2>10. BelowHolds'
    <3>1. CASE preempted = NULL
      BY <3>1 DEF BelowHolds, Around
    <3>2. CASE preempted # NULL
      <4>1. preempted.ptFlush \in Blocks \union {NULL} /\ preempted.ptFlush # b
        <5>1. preempted.ptFlush # NULL => SpareBelow = {preempted.ptFlush}
          BY <3>2 DEF SpareBelow
        <5>2. preempted.ptFlush \in Blocks \union {NULL}
          BY <3>2 DEF InFlush, NestedTypes, Flushes
        <5> QED BY <1>4, <2>2, <2>3, <5>1, <5>2 DEF Owned
      <4>2. ~(preempted.isr = "GET_DATA_CNT" /\ preempted.ptFlush = NULL)
        BY <1>8, <3>2 DEF InFlush, NestedOK, BelowHolds, FlushHolds
      <4>3. FlushHolds(preempted.isr, preempted.ptFlush, preempted.ptLoaded)
        BY <3>2 DEF InFlush, NestedOK, BelowHolds
      <4>4. FlushHolds(preempted.isr, preempted.ptFlush, preempted.ptLoaded)'
        BY <1>1, <2>4, <3>2, <4>1, <4>2, <4>3 DEF FlushHolds, Around
      <4> QED BY <1>1, <3>2, <4>2, <4>4 DEF InFlush, NestedOK, BelowHolds, Around
    <3> QED BY <3>1, <3>2
  <2>11. RoomLeft'
    <3>1. Held(isr, ptFlush) = 0 /\ Held(isr, ptFlush)' = 1
      BY <1>1, <1>2, <2>1, <2>3 DEF Held
    <3>2. HeldBelow' = HeldBelow /\ HeldBelow \in {0, 1}
      BY DEF HeldBelow, Held, Around
    <3>3. CNDTR = READ_BUFF_CNT \/ Len(freeList) + 0 + HeldBelow >= 2
      BY <3>1 DEF InFlush, NestedOK, RoomLeft
    <3>4. CNDTR' = READ_BUFF_CNT \/ Len(freeList') + 1 + HeldBelow' >= 2
      BY <1>1, <2>2, <3>2, <3>3
    <3> QED BY <3>1, <3>4 DEF RoomLeft
  <2> QED BY <1>6, <2>5, <2>8, <2>9, <2>10, <2>11 DEF NestedInv, NestedOK
<1> QED BY <1>7, <1>8

\* Nothing stored: the block taken, if any, is free again.
LEMMA NestedGiveBack ==
  ASSUME InFlush, Around, GiveBack
  PROVE  NestedInv'
<1>1. /\ UNCHANGED <<fifo, ptByteFifo, ptByteFifoDmaRx, CMAR, tSizeInByte, hwDataCnt, pc,
                     chState, CNDTR, ptLoaded>>
      /\ isr = "FREE_BLOCK" /\ isr' = "SET_IDLE" /\ isr' \in FlushSteps /\ ptFlush' = NULL
      /\ freeList' = Freed(freeList, ptFlush)
  BY DEF GiveBack, FlushSteps
<1>2. FlushHolds(isr, ptFlush, ptLoaded)'
  BY <1>1 DEF FlushHolds
<1>3. CASE ptFlush = NULL
  <2>1. freeList' = freeList /\ ptFlush' = ptFlush
    BY <1>1, <1>3 DEF Freed
  <2>2. hwDataCnt' \in Int /\ ptLoaded' \in Blocks \union {NULL}
    BY <1>1 DEF InFlush, NestedTypes
  <2> QED BY <1>1, <1>2, <2>1, <2>2, NoBlockMoves
<1>4. CASE ptFlush # NULL
  <2>1. ptFlush \in Blocks /\ freeList \in Seq(Blocks) /\ NestedSpare = {ptFlush}
    BY <1>4 DEF InFlush, NestedTypes, NestedSpare
  <2>2. freeList' = <<ptFlush>> \o freeList
    BY <1>1, <1>4 DEF Freed
  <2>3. /\ freeList' \in Seq(Blocks) /\ Elems(freeList') = Elems(freeList) \union {ptFlush}
        /\ Distinct(freeList) /\ ptFlush \notin Elems(freeList) => Distinct(freeList')
        /\ Len(freeList') = Len(freeList) + 1 /\ Len(freeList) \in Nat
    BY <2>1, <2>2, Pushed
  <2>4. NestedTypes'
    BY <1>1, <2>3, Zenon DEF InFlush, NestedTypes, Around
  <2>5. /\ Reading' = Reading /\ NestedSpare' = {} /\ SpareBelow' = SpareBelow
        /\ (Switching <=> Switching') /\ Filling' = Filling
        /\ (At("RECORD") <=> At("RECORD")')
        /\ At("RECORD") => BlockAt("RECORD")' = BlockAt("RECORD")
    BY <1>1 DEF Around, Reading, NestedSpare, SpareBelow, Filling, Switching, At, BlockAt
  <2>6. Owned(freeList, fifo, Reading, NestedSpare, SpareBelow, Filling) /\ ChannelKnown
    BY NestedOwners DEF InFlush, NestedOK
  <2>7. Owned(freeList, fifo, Reading, NestedSpare, SpareBelow, Filling)'
    BY <1>1, <2>1, <2>3, <2>5, <2>6 DEF Owned
  <2>8. ChannelKnown'
    BY <1>1, <2>5, <2>6 DEF ChannelKnown
  <2>9. OneOwnerEach'
    BY <2>7, <2>8, NestedOwnersNext
  <2>10. BelowHolds'
    BY <1>1, <1>4 DEF InFlush, NestedOK, BelowHolds, FlushHolds, Around
  <2>11. RoomLeft'
    <3>1. Held(isr, ptFlush) = 1 /\ Held(isr, ptFlush)' = 0
      BY <1>1, <1>4 DEF Held
    <3>2. HeldBelow' = HeldBelow /\ HeldBelow \in {0, 1}
      BY DEF HeldBelow, Held, Around
    <3>3. CNDTR = READ_BUFF_CNT \/ Len(freeList) + 1 + HeldBelow >= 2
      BY <3>1 DEF InFlush, NestedOK, RoomLeft
    <3>4. CNDTR' = READ_BUFF_CNT \/ Len(freeList') + 0 + HeldBelow' >= 2
      BY <1>1, <2>3, <3>2, <3>3
    <3> QED BY <3>1, <3>4 DEF RoomLeft
  <2>12. Distinct(fifo)'
    BY <1>1 DEF InFlush
  <2> QED BY <1>2, <2>4, <2>9, <2>10, <2>11, <2>12 DEF NestedInv, NestedOK
<1> QED BY <1>3, <1>4

\* The size goes to the block loaded, in the channel or queued meanwhile: never to one
\* that a flush holds.
LEMMA NestedSetSize ==
  ASSUME InFlush, Around, SetSize
  PROVE  NestedInv'
<1>1. /\ UNCHANGED <<freeList, fifo, ptByteFifo, ptByteFifoDmaRx, CMAR, pc, chState, CNDTR,
                     ptFlush, ptLoaded>>
      /\ isr = "SET_SIZE" /\ isr' = "LOAD_APPENDED" /\ isr' \in FlushSteps
      /\ tSizeInByte' = [tSizeInByte EXCEPT ![ptLoaded] = hwDataCnt] /\ hwDataCnt' = 0
  BY DEF SetSize, FlushSteps
<1>2. /\ ptLoaded = ptByteFifoDmaRx \/ ptLoaded \in Elems(fifo)
      /\ ptFlush # NULL /\ tSizeInByte[ptFlush] = READ_BUFF_CNT
  BY <1>1 DEF InFlush, NestedOK, FlushHolds
<1>3. Owned(freeList, fifo, Reading, NestedSpare, SpareBelow, Filling) /\ ChannelKnown
  BY NestedOwners DEF InFlush, NestedOK
<1>4. ptLoaded \notin NestedSpare \union SpareBelow
  BY <1>2, <1>3, RxElsewhere DEF Owned
<1>5. tSizeInByte \in [Blocks -> Int] /\ hwDataCnt \in Int
  BY DEF InFlush, NestedTypes
<1>6. /\ tSizeInByte' \in [Blocks -> Int]
      /\ \A c \in Blocks : c # ptLoaded => tSizeInByte'[c] = tSizeInByte[c]
  BY <1>1, <1>5
<1>7. NestedTypes'
  <2>1. hwDataCnt' \in Int
    BY <1>1
  <2> QED BY <1>1, <1>6, <2>1, Zenon DEF InFlush, NestedTypes, Around
<1>8. /\ Reading' = Reading /\ NestedSpare' = NestedSpare /\ SpareBelow' = SpareBelow
      /\ (Switching <=> Switching') /\ Filling' = Filling
      /\ (At("RECORD") <=> At("RECORD")')
      /\ At("RECORD") => BlockAt("RECORD")' = BlockAt("RECORD")
  BY <1>1 DEF Around, Reading, NestedSpare, SpareBelow, Filling, Switching, At, BlockAt
<1>9. OneOwnerEach'
  <2>1. Owned(freeList, fifo, Reading, NestedSpare, SpareBelow, Filling)'
    BY <1>1, <1>3, <1>8 DEF Owned
  <2>2. ChannelKnown'
    BY <1>1, <1>3, <1>8 DEF ChannelKnown
  <2> QED BY <2>1, <2>2, NestedOwnersNext
<1>10. FlushHolds(isr, ptFlush, ptLoaded)'
  <2>1. ptFlush \in Blocks /\ ptFlush # ptLoaded
    BY <1>2, <1>4 DEF NestedSpare, InFlush, NestedTypes
  <2>2. tSizeInByte'[ptFlush'] = READ_BUFF_CNT
    BY <1>1, <1>2, <1>6, <2>1
  <2> QED BY <1>1, <1>2, <2>2 DEF FlushHolds
<1>11. BelowHolds'
  <2>1. CASE preempted = NULL
    BY <2>1 DEF BelowHolds, Around
  <2>2. CASE preempted # NULL
    <3>1. /\ preempted.ptFlush \in Blocks \union {NULL}
          /\ preempted.ptFlush # NULL => preempted.ptFlush # ptLoaded
      BY <1>4, <2>2 DEF SpareBelow, InFlush, NestedTypes, Flushes
    <3>2. FlushHolds(preempted.isr, preempted.ptFlush, preempted.ptLoaded)
      BY <2>2 DEF InFlush, NestedOK, BelowHolds
    <3>3. FlushHolds(preempted.isr, preempted.ptFlush, preempted.ptLoaded)'
      BY <1>1, <1>6, <2>2, <3>1, <3>2 DEF FlushHolds, Around
    <3> QED BY <1>1, <2>2, <3>3 DEF InFlush, NestedOK, BelowHolds, Around
  <2> QED BY <2>1, <2>2
<1>12. RoomLeft'
  BY <1>1 DEF InFlush, NestedOK, RoomLeft, Held, HeldBelow, Around
<1>13. Distinct(fifo)'
  BY <1>1 DEF InFlush
<1> QED BY <1>7, <1>9, <1>10, <1>11, <1>12, <1>13 DEF NestedInv, NestedOK

\* A block appended to a queue that has it is there twice.
LEMMA AppendedTwice ==
  ASSUME NEW S, NEW s \in Seq(S), NEW e \in Elems(s)
  PROVE  ~Distinct(Append(s, e))
<1> DEFINE t == Append(s, e)
<1>1. PICK i \in 1 .. Len(s) : s[i] = e
  BY DEF Elems
<1>2. Len(t) = Len(s) + 1 /\ t[Len(t)] = e /\ t[i] = e /\ Len(s) \in Nat
  BY <1>1
<1>3. i \in 1 .. Len(t) /\ Len(t) \in 1 .. Len(t) /\ i # Len(t)
  BY <1>1, <1>2
<1> QED BY <1>2, <1>3 DEF Distinct

\* The block loaded goes to the queue.  If it is there already, the half-transfer
\* handler has come in after the load; otherwise it is the one in the channel.
LEMMA NestedAppend ==
  ASSUME InFlush, Around, AppendRx
  PROVE  NestedInv'
<1>1. /\ UNCHANGED <<freeList, ptByteFifo, ptByteFifoDmaRx, CMAR, tSizeInByte, hwDataCnt, pc,
                     chState, CNDTR, ptFlush>>
      /\ isr = "APPEND" /\ fifo' = Append(fifo, ptLoaded) /\ ptLoaded' = NULL
  BY DEF AppendRx, Appended
<1>2. /\ ptFlush # NULL /\ tSizeInByte[ptFlush] = READ_BUFF_CNT
      /\ ptLoaded = ptByteFifoDmaRx \/ (cutIn /\ ptLoaded \in Elems(fifo))
  BY <1>1 DEF InFlush, NestedOK, FlushHolds
<1>3. isr' = "DMA_START" /\ isr' \in FlushSteps
  BY <1>2 DEF AppendRx, FlushSteps
<1>4. ptLoaded \in Blocks /\ fifo \in Seq(Blocks)
  BY <1>2 DEF InFlush, NestedTypes, Elems
<1>5. fifo' \in Seq(Blocks) /\ Elems(fifo') = Elems(fifo) \union {ptLoaded}
  BY <1>1, <1>4, AppendedLast
<1>6. NestedTypes'
  BY <1>1, <1>3, <1>5, Zenon DEF InFlush, NestedTypes, Around
<1>7. CASE ptLoaded \in Elems(fifo)
  <2>1. ~Distinct(fifo')
    BY <1>1, <1>4, <1>7, AppendedTwice
  <2>2. cutIn
    <3>1. CASE ptLoaded = ptByteFifoDmaRx
      <4>1. Switching
        BY <1>7, <3>1, RxElsewhere
      <4>2. preempted # NULL /\ preempted.isr \in {"DMA_START", "RECORD"}
        BY <1>1, <4>1 DEF Switching, At
      <4> QED BY <4>2 DEF InFlush, NestedOK, BelowHolds
    <3> QED BY <1>2, <3>1
  <2>3. cutIn'
    BY <1>3, <2>2 DEF Around
  <2> QED BY <1>6, <2>1, <2>3 DEF NestedInv
<1>8. CASE ptLoaded \notin Elems(fifo)
  <2>1. ptLoaded = ptByteFifoDmaRx /\ ~Switching /\ Filling = {ptLoaded} /\ CMAR = ptLoaded
    BY <1>2, <1>8, RxElsewhere
  <2>2. ~(preempted # NULL /\ preempted.isr \in {"DMA_START", "RECORD"})
    BY <2>1 DEF Switching, At
  <2>3. /\ Reading' = Reading /\ NestedSpare' = NestedSpare /\ SpareBelow' = SpareBelow
        /\ Switching' /\ Filling' = {} /\ ~At("RECORD")'
    BY <1>1, <1>3, <2>2 DEF Around, Reading, NestedSpare, SpareBelow, Filling, Switching, At
  <2>4. Owned(freeList, fifo, Reading, NestedSpare, SpareBelow, Filling)
    BY NestedOwners DEF InFlush, NestedOK
  <2>5. Distinct(fifo')
    BY <1>1, <1>4, <1>8, AppendedLast DEF InFlush
  <2>6. Owned(freeList, fifo, Reading, NestedSpare, SpareBelow, Filling)'
    BY <1>1, <1>5, <2>1, <2>3, <2>4, <2>5 DEF Owned
  <2>7. ChannelKnown'
    BY <1>1, <1>5, <2>1, <2>3 DEF ChannelKnown
  <2>8. OneOwnerEach'
    BY <2>6, <2>7, NestedOwnersNext
  <2>9. FlushHolds(isr, ptFlush, ptLoaded)'
    BY <1>1, <1>2, <1>3 DEF FlushHolds
  <2>10. BelowHolds'
    <3>1. CASE preempted = NULL
      BY <3>1 DEF BelowHolds, Around
    <3>2. CASE preempted # NULL
      <4>1. FlushHolds(preempted.isr, preempted.ptFlush, preempted.ptLoaded)
        BY <3>2 DEF InFlush, NestedOK, BelowHolds
      <4>2. cutIn => cutIn'
        BY <3>2 DEF Around
      <4>3. FlushHolds(preempted.isr, preempted.ptFlush, preempted.ptLoaded)'
        BY <1>1, <1>5, <3>2, <4>1, <4>2 DEF FlushHolds, Around
      <4> QED BY <1>1, <1>2, <2>2, <3>2, <4>2, <4>3
                DEF InFlush, NestedOK, BelowHolds, Around
    <3> QED BY <3>1, <3>2
  <2>11. RoomLeft'
    BY <1>1, <1>3 DEF InFlush, NestedOK, RoomLeft, Held, HeldBelow, Around
  <2> QED BY <1>6, <2>5, <2>8, <2>9, <2>10, <2>11 DEF NestedInv, NestedOK
<1> QED BY <1>7, <1>8

\* The channel gets the flush's block, whole and empty.
LEMMA NestedRestart ==
  ASSUME InFlush, Around, RestartChannel
  PROVE  NestedInv'
<1>1. /\ UNCHANGED <<freeList, fifo, ptByteFifo, ptByteFifoDmaRx, tSizeInByte, hwDataCnt, pc,
                     chState, ptFlush, ptLoaded>>
      /\ isr = "DMA_START" /\ isr' = "RECORD" /\ isr' \in FlushSteps
      /\ CMAR' = ptFlush /\ CNDTR' = tSizeInByte[ptFlush]
  BY DEF RestartChannel, FlushSteps
<1>2. ptFlush # NULL /\ tSizeInByte[ptFlush] = READ_BUFF_CNT
  BY <1>1 DEF InFlush, NestedOK, FlushHolds
<1>3. CMAR' \in Blocks /\ CNDTR' = READ_BUFF_CNT /\ CNDTR' \in Int
  BY <1>1, <1>2, ReadAssumption DEF InFlush, NestedTypes
<1>4. NestedTypes'
  BY <1>1, <1>3, Zenon DEF InFlush, NestedTypes, Around
<1>5. /\ Reading' = Reading /\ NestedSpare' = NestedSpare /\ SpareBelow' = SpareBelow
      /\ Switching /\ Switching' /\ Filling = {} /\ Filling' = {}
      /\ At("RECORD")' /\ BlockAt("RECORD")' = ptFlush
  BY <1>1 DEF Around, Reading, NestedSpare, SpareBelow, Filling, Switching, At, BlockAt
<1>6. Owned(freeList, fifo, Reading, NestedSpare, SpareBelow, Filling) /\ ChannelKnown
  BY NestedOwners DEF InFlush, NestedOK
<1>7. OneOwnerEach'
  <2>1. Owned(freeList, fifo, Reading, NestedSpare, SpareBelow, Filling)'
    BY <1>1, <1>5, <1>6 DEF Owned
  <2>2. ChannelKnown'
    BY <1>1, <1>5, <1>6 DEF ChannelKnown
  <2> QED BY <2>1, <2>2, NestedOwnersNext
<1>8. FlushHolds(isr, ptFlush, ptLoaded)'
  BY <1>1, <1>2 DEF FlushHolds
<1>9. BelowHolds'
  BY <1>1, <1>3 DEF InFlush, NestedOK, BelowHolds, FlushHolds, Around
<1>10. RoomLeft'
  BY <1>3 DEF RoomLeft
<1>11. Distinct(fifo)'
  BY <1>1 DEF InFlush
<1> QED BY <1>4, <1>7, <1>8, <1>9, <1>10, <1>11 DEF NestedInv, NestedOK

\* The block the channel works on is on record again.
LEMMA NestedRecord ==
  ASSUME InFlush, Around, RecordBlock
  PROVE  NestedInv'
<1>1. /\ UNCHANGED <<freeList, fifo, ptByteFifo, CMAR, tSizeInByte, hwDataCnt, pc, chState,
                     CNDTR, ptLoaded>>
      /\ isr = "RECORD" /\ isr' = "none" /\ ptFlush' = NULL /\ ptByteFifoDmaRx' = ptFlush
  BY DEF RecordBlock, RecordRx
<1>2. ptFlush # NULL /\ ptFlush \in Blocks
  BY <1>1 DEF InFlush, NestedOK, FlushHolds, NestedTypes
<1>3. NestedTypes'
  BY <1>1, <1>2, Zenon DEF InFlush, NestedTypes, Around
<1>4. Owned(freeList, fifo, Reading, NestedSpare, SpareBelow, Filling) /\ ChannelKnown
  BY NestedOwners DEF InFlush, NestedOK
<1>5. CMAR = ptFlush /\ ptByteFifoDmaRx \in Elems(fifo)
  BY <1>1, <1>4 DEF ChannelKnown, At, BlockAt, Switching
<1>6. ~(preempted # NULL /\ preempted.isr \in {"DMA_START", "RECORD"})
  BY <1>1 DEF InFlush, NestedOK, BelowHolds
<1>7. /\ Reading' = Reading /\ NestedSpare = {ptFlush} /\ NestedSpare' = {}
      /\ SpareBelow' = SpareBelow /\ Filling = {} /\ Filling' = {ptFlush}
      /\ ~Switching' /\ ~At("RECORD")'
  BY <1>1, <1>2, <1>5, <1>6
     DEF Around, Reading, NestedSpare, SpareBelow, Filling, Switching, At
<1>8. OneOwnerEach'
  <2>1. Owned(freeList, fifo, Reading, NestedSpare, SpareBelow, Filling)'
    BY <1>1, <1>4, <1>7 DEF Owned
  <2>2. ChannelKnown'
    BY <1>1, <1>5, <1>7 DEF ChannelKnown
  <2> QED BY <2>1, <2>2, NestedOwnersNext
<1>9. FlushHolds(isr, ptFlush, ptLoaded)'
  BY <1>1 DEF FlushHolds
<1>10. BelowHolds'
  <2>1. CASE preempted = NULL
    BY <2>1 DEF BelowHolds, Around
  <2>2. CASE preempted # NULL
    <3>1. /\ FlushHolds(preempted.isr, preempted.ptFlush, preempted.ptLoaded)
          /\ preempted.isr = "APPEND" => cutIn
      BY <2>2 DEF InFlush, NestedOK, BelowHolds
    <3>2. cutIn => cutIn'
      BY <2>2 DEF Around
    <3>3. FlushHolds(preempted.isr, preempted.ptFlush, preempted.ptLoaded)'
      BY <1>1, <1>5, <2>2, <3>1, <3>2 DEF FlushHolds, Around
    <3> QED BY <1>1, <1>6, <2>2, <3>2, <3>3 DEF InFlush, NestedOK, BelowHolds, Around
  <2> QED BY <2>1, <2>2
<1>11. RoomLeft'
  BY <1>1 DEF InFlush, NestedOK, RoomLeft, Held, HeldBelow, Around
<1>12. Distinct(fifo)'
  BY <1>1 DEF InFlush
<1> QED BY <1>3, <1>8, <1>9, <1>10, <1>11, <1>12 DEF NestedInv, NestedOK

\* The main program moves the block it reads, and only where no flush runs or waits.
LEMMA NestedReadStep ==
  ASSUME InFlush, Around, ReadStep, preempted = NULL, UNCHANGED ptLoaded
  PROVE  NestedInv'
<1>1. /\ isr = "none"
      /\ UNCHANGED <<ptByteFifoDmaRx, CMAR, tSizeInByte, hwDataCnt, isr, ptFlush, CNDTR,
                     ptLoaded>>
  BY DEF ReadStep, CallRead, DequeueByte, FreeBlock, FetchBlock, ReturnFalse
<1>2. ptFlush = NULL
  BY <1>1 DEF InFlush, NestedOK, FlushHolds
<1>3. FlushHolds(isr, ptFlush, ptLoaded)' /\ BelowHolds'
  BY <1>1, <1>2 DEF FlushHolds, BelowHolds, Around
<1>4. /\ NestedSpare' = NestedSpare /\ SpareBelow' = SpareBelow /\ Filling' = Filling
      /\ ~Switching /\ ~Switching' /\ ~At("RECORD") /\ ~At("RECORD")'
  BY <1>1 DEF NestedSpare, SpareBelow, Filling, Switching, At, Around
<1>5. Owned(freeList, fifo, Reading, NestedSpare, SpareBelow, Filling) /\ ChannelKnown
  BY NestedOwners DEF InFlush, NestedOK
<1>6. ChannelKnown'
  BY <1>1, <1>4, <1>5 DEF ChannelKnown
<1>7. /\ Held(isr, ptFlush) = 0 /\ Held(isr, ptFlush)' = 0
      /\ HeldBelow = 0 /\ HeldBelow' = 0
  BY <1>1, <1>2 DEF Held, HeldBelow, Around
<1>8. CNDTR = READ_BUFF_CNT \/ Len(freeList) + 0 + 0 >= 2
  BY <1>7 DEF InFlush, NestedOK, RoomLeft
<1>9. CASE CallRead \/ DequeueByte \/ ReturnFalse
  <2>1. UNCHANGED <<freeList, fifo, ptByteFifo>> /\ Reading' = Reading
    BY <1>9 DEF CallRead, DequeueByte, ReturnFalse, Reading, InFlush, NestedTypes
  <2>2. /\ pc' \in {"idle", "BYTE_FIFO_OUT", "GET_BYTE_FIFO"} /\ (pc' # "idle" => chState' = pc')
        /\ chState' \in {"START", "BYTE_FIFO_OUT", "GET_BYTE_FIFO"}
    BY <1>9 DEF CallRead, DequeueByte, ReturnFalse, InFlush, NestedTypes
  <2>3. NestedTypes'
    BY <1>1, <2>1, <2>2, Zenon DEF InFlush, NestedTypes, Around
  <2>4. Owned(freeList, fifo, Reading, NestedSpare, SpareBelow, Filling)'
    BY <1>4, <1>5, <2>1 DEF Owned
  <2>5. OneOwnerEach'
    BY <1>6, <2>4, NestedOwnersNext
  <2>6. RoomLeft' /\ Distinct(fifo)'
    BY <1>1, <1>7, <1>8, <2>1 DEF RoomLeft, InFlush
  <2> QED BY <1>3, <2>3, <2>5, <2>6 DEF NestedInv, NestedOK
<1>10. CASE FreeBlock
  <2>1. /\ pc = "BYTE_FIFO_OUT" /\ pc' = "GET_BYTE_FIFO" /\ chState' = "GET_BYTE_FIFO"
        /\ UNCHANGED <<fifo, ptByteFifo>> /\ freeList' = Freed(freeList, ptByteFifo)
        /\ ptByteFifo \in Blocks /\ freeList \in Seq(Blocks)
    BY <1>10 DEF FreeBlock, InFlush, NestedTypes
  <2>2. freeList' = <<ptByteFifo>> \o freeList
    BY <2>1, ReadAssumption DEF Freed
  <2>3. /\ freeList' \in Seq(Blocks) /\ Elems(freeList') = Elems(freeList) \union {ptByteFifo}
        /\ Distinct(freeList) /\ ptByteFifo \notin Elems(freeList) => Distinct(freeList')
        /\ Len(freeList') = Len(freeList) + 1 /\ Len(freeList) \in Nat
    BY <2>1, <2>2, Pushed
  <2>4. Reading = {ptByteFifo} /\ Reading' = {}
    BY <2>1 DEF Reading
  <2>5. NestedTypes'
    BY <1>1, <2>1, <2>3, Zenon DEF InFlush, NestedTypes, Around
  <2>6. Owned(freeList, fifo, Reading, NestedSpare, SpareBelow, Filling)'
    BY <1>4, <1>5, <2>1, <2>3, <2>4 DEF Owned
  <2>7. OneOwnerEach'
    BY <1>6, <2>6, NestedOwnersNext
  <2>8. RoomLeft'
    BY <1>1, <1>7, <1>8, <2>3 DEF RoomLeft
  <2>9. Distinct(fifo)'
    BY <2>1 DEF InFlush
  <2> QED BY <1>3, <2>5, <2>7, <2>8, <2>9 DEF NestedInv, NestedOK
<1>11. CASE FetchBlock
  <2>1. /\ pc = "GET_BYTE_FIFO" /\ pc' = "BYTE_FIFO_OUT" /\ chState' = "BYTE_FIFO_OUT"
        /\ fifo # <<>> /\ fifo \in Seq(Blocks) /\ UNCHANGED freeList
        /\ ptByteFifo' = Head(fifo) /\ fifo' = Tail(fifo)
    BY <1>11 DEF FetchBlock, InFlush, NestedTypes
  <2>2. /\ Head(fifo) \in Blocks /\ Tail(fifo) \in Seq(Blocks)
        /\ Elems(fifo) = Elems(Tail(fifo)) \union {Head(fifo)}
        /\ Distinct(fifo) => Distinct(Tail(fifo)) /\ Head(fifo) \notin Elems(Tail(fifo))
    BY <2>1, Taken
  <2>3. Reading = {} /\ Reading' = {Head(fifo)}
    BY <2>1 DEF Reading
  <2>4. NestedTypes'
    BY <1>1, <2>1, <2>2, Zenon DEF InFlush, NestedTypes, Around
  <2>5. Owned(freeList, fifo, Reading, NestedSpare, SpareBelow, Filling)'
    BY <1>4, <1>5, <2>1, <2>2, <2>3 DEF Owned
  <2>6. OneOwnerEach'
    <3>1. CMAR' = CMAR /\ ptByteFifoDmaRx' = ptByteFifoDmaRx
      BY <1>1
    <3> QED BY <1>6, <2>5, NestedOwnersNext
  <2>7. RoomLeft'
    BY <1>1, <1>7, <1>8, <2>1 DEF RoomLeft
  <2>8. Distinct(fifo)'
    BY <2>1, <2>2 DEF InFlush
  <2> QED BY <1>3, <2>4, <2>6, <2>7, <2>8 DEF NestedInv, NestedOK
<1> QED BY <1>9, <1>10, <1>11 DEF ReadStep

\* The timer's handler waits with the block it holds.
LEMMA PreemptKeeps == ASSUME InFlush, DmaHalfPreempts PROVE NestedInv'
<1>1. /\ UNCHANGED <<freeList, fifo, ptByteFifo, ptByteFifoDmaRx, CMAR, tSizeInByte, pc,
                     chState, CNDTR>>
      /\ isr # "none" /\ byTimer /\ byTimer' = FALSE
      /\ preempted' = [isr |-> isr, ptFlush |-> ptFlush, hwDataCnt |-> hwDataCnt,
                       ptLoaded |-> ptLoaded]
      /\ isr' = "GET_BLOCK" /\ ptFlush' = NULL /\ hwDataCnt' = 0 /\ ptLoaded' = NULL
      /\ cutIn => cutIn'
      /\ isr \in {"APPEND", "DMA_START", "RECORD"} => cutIn'
  BY DEF DmaHalfPreempts, Preempted
<1>2. preempted = NULL
  BY <1>1 DEF InFlush, NestedOK, BelowHolds
<1>3. /\ isr \in FlushSteps /\ ptFlush \in Blocks \union {NULL} /\ hwDataCnt \in Int
      /\ ptLoaded \in Blocks \union {NULL}
  BY <1>1 DEF InFlush, NestedTypes
<1>4. /\ preempted' \in Flushes /\ preempted' # NULL
      /\ preempted'.isr = isr /\ preempted'.ptFlush = ptFlush /\ preempted'.ptLoaded = ptLoaded
  BY <1>1, <1>3, NestedAssumption DEF Flushes
<1>5. NestedTypes'
  <2>1. isr' \in FlushSteps /\ hwDataCnt' \in Int
    BY <1>1 DEF FlushSteps
  <2> QED BY <1>1, <1>4, <2>1, Zenon DEF InFlush, NestedTypes
<1>6. /\ Reading' = Reading /\ NestedSpare' = {} /\ SpareBelow = {} /\ SpareBelow' = NestedSpare
      /\ (Switching <=> Switching') /\ Filling' = Filling
      /\ (At("RECORD") <=> At("RECORD")')
      /\ At("RECORD") => BlockAt("RECORD")' = BlockAt("RECORD")
  BY <1>1, <1>2, <1>4 DEF Reading, NestedSpare, SpareBelow, Filling, Switching, At, BlockAt
<1>7. Owned(freeList, fifo, Reading, NestedSpare, SpareBelow, Filling) /\ ChannelKnown
  BY NestedOwners DEF InFlush, NestedOK
<1>8. OneOwnerEach'
  <2>1. Owned(freeList, fifo, Reading, NestedSpare, SpareBelow, Filling)'
    BY <1>1, <1>6, <1>7 DEF Owned
  <2>2. ChannelKnown'
    BY <1>1, <1>6, <1>7 DEF ChannelKnown
  <2> QED BY <2>1, <2>2, NestedOwnersNext
<1>9. FlushHolds(isr, ptFlush, ptLoaded)'
  BY <1>1 DEF FlushHolds
<1>10. BelowHolds'
  <2>1. FlushHolds(isr, ptFlush, ptLoaded)
    BY DEF InFlush, NestedOK
  <2>2. FlushHolds(preempted.isr, preempted.ptFlush, preempted.ptLoaded)'
    BY <1>1, <1>4, <2>1 DEF FlushHolds
  <2> QED BY <1>1, <1>4, <2>2 DEF BelowHolds
<1>11. RoomLeft'
  <2>1. /\ Held(isr, ptFlush)' = 0 /\ HeldBelow' = Held(isr, ptFlush) /\ HeldBelow = 0
        /\ Held(isr, ptFlush) \in {0, 1}
    BY <1>1, <1>2, <1>4 DEF Held, HeldBelow
  <2>2. CNDTR = READ_BUFF_CNT \/ Len(freeList) + Held(isr, ptFlush) + 0 >= 2
    BY <2>1 DEF InFlush, NestedOK, RoomLeft
  <2>3. Len(freeList) \in Nat
    BY DEF InFlush, NestedTypes
  <2>4. CNDTR' = READ_BUFF_CNT \/ Len(freeList') + 0 + HeldBelow' >= 2
    BY <1>1, <2>1, <2>2, <2>3
  <2> QED BY <2>1, <2>4 DEF RoomLeft
<1>12. Distinct(fifo)'
  BY <1>1 DEF InFlush
<1> QED BY <1>5, <1>8, <1>9, <1>10, <1>11, <1>12 DEF NestedInv, NestedOK

\* It goes on with what it was interrupted with.
LEMMA ResumeKeeps == ASSUME InFlush, TimerResumes PROVE NestedInv'
<1>1. /\ UNCHANGED <<freeList, fifo, ptByteFifo, ptByteFifoDmaRx, CMAR, tSizeInByte, pc,
                     chState, CNDTR, cutIn>>
      /\ isr = "none" /\ preempted # NULL /\ preempted \in Flushes
      /\ isr' = preempted.isr /\ ptFlush' = preempted.ptFlush /\ ptLoaded' = preempted.ptLoaded
      /\ hwDataCnt' = preempted.hwDataCnt /\ preempted' = NULL
  BY DEF TimerResumes, InFlush, NestedTypes
<1>2. /\ isr' \in FlushSteps /\ ptFlush' \in Blocks \union {NULL} /\ hwDataCnt' \in Int
      /\ ptLoaded' \in Blocks \union {NULL}
  BY <1>1 DEF Flushes
<1>3. NestedTypes'
  BY <1>1, <1>2, Zenon DEF InFlush, NestedTypes
<1>4. ptFlush = NULL
  BY <1>1 DEF InFlush, NestedOK, FlushHolds
<1>5. /\ Reading' = Reading /\ NestedSpare = {} /\ SpareBelow' = {} /\ NestedSpare' = SpareBelow
      /\ (Switching <=> Switching') /\ Filling' = Filling
      /\ (At("RECORD") <=> At("RECORD")')
      /\ At("RECORD") => BlockAt("RECORD")' = BlockAt("RECORD")
  BY <1>1, <1>4 DEF Reading, NestedSpare, SpareBelow, Filling, Switching, At, BlockAt
<1>6. Owned(freeList, fifo, Reading, NestedSpare, SpareBelow, Filling) /\ ChannelKnown
  BY NestedOwners DEF InFlush, NestedOK
<1>7. OneOwnerEach'
  <2>1. Owned(freeList, fifo, Reading, NestedSpare, SpareBelow, Filling)'
    BY <1>1, <1>5, <1>6 DEF Owned
  <2>2. ChannelKnown'
    BY <1>1, <1>5, <1>6 DEF ChannelKnown
  <2> QED BY <2>1, <2>2, NestedOwnersNext
<1>8. FlushHolds(isr, ptFlush, ptLoaded)'
  <2>1. FlushHolds(preempted.isr, preempted.ptFlush, preempted.ptLoaded)
    BY <1>1 DEF InFlush, NestedOK, BelowHolds
  <2> QED BY <1>1, <2>1 DEF FlushHolds
<1>9. BelowHolds'
  BY <1>1 DEF BelowHolds
<1>10. RoomLeft'
  <2>1. /\ Held(isr, ptFlush) = 0 /\ Held(isr, ptFlush)' = HeldBelow /\ HeldBelow' = 0
        /\ HeldBelow \in {0, 1}
    BY <1>1, <1>4 DEF Held, HeldBelow
  <2>2. CNDTR = READ_BUFF_CNT \/ Len(freeList) + 0 + HeldBelow >= 2
    BY <2>1 DEF InFlush, NestedOK, RoomLeft
  <2>3. Len(freeList) \in Nat
    BY DEF InFlush, NestedTypes
  <2>4. CNDTR' = READ_BUFF_CNT \/ Len(freeList') + Held(isr, ptFlush)' + 0 >= 2
    BY <1>1, <2>1, <2>2, <2>3
  <2> QED BY <2>1, <2>4 DEF RoomLeft
<1>11. Distinct(fifo)'
  BY <1>1 DEF InFlush
<1> QED BY <1>3, <1>7, <1>8, <1>9, <1>10, <1>11 DEF NestedInv, NestedOK

\* Every step keeps the invariant where bytes come while two blocks are free.
THEOREM NestedStepKeeps ==
  ASSUME ReaderKeepsUp, NestedInv, [NestedNext]_nestedVars PROVE NestedInv'
<1>1. CASE NestedNext
  <2>1. InFlush
    BY <1>1 DEF NestedNext, NestedInv, InFlush
  <2>2. CASE Plain
    <3>1. Around
      <4>1. preempted # NULL => ~byTimer
        BY <2>1 DEF InFlush, NestedOK, BelowHolds
      <4>2. preempted # NULL => ~byTimer'
        BY <2>2, <4>1 DEF Plain, TimerTicks, TimerCounts
      <4> QED BY <2>2, <4>2 DEF Plain, Around
    <3>2. CASE ((ByteArrives /\ RoomForTwo) \/ LineGoesIdle \/ UartIdleIrq) /\ UNCHANGED ptLoaded
      BY <2>1, <3>1, <3>2, LineKeeps
    <3>3. CASE ReadStep /\ UNCHANGED ptLoaded
      <4>1. preempted = NULL
        BY <2>2, <3>3 DEF Plain, ReadStep, CallRead, DequeueByte, FreeBlock, FetchBlock,
                          ReturnFalse
      <4> QED BY <2>1, <3>1, <3>3, <4>1, NestedReadStep
    <3>4. CASE TimerTicks \/ (DmaHalfIrq /\ UNCHANGED ptLoaded) \/ CompareCount
      BY <2>1, <3>1, <3>4, LookKeeps
    <3>5. CASE NestedFlushStep
      BY <2>1, <3>1, <3>5, NestedGetBlock, LookKeeps, NestedGiveBack, NestedSetSize,
         NestedAppend, NestedRestart, NestedRecord DEF NestedFlushStep
    <3> QED BY <2>2, <3>2, <3>3, <3>4, <3>5 DEF Plain
  <2>3. CASE DmaHalfPreempts
    BY <2>1, <2>3, PreemptKeeps
  <2>4. CASE TimerResumes
    BY <2>1, <2>4, ResumeKeeps
  <2> QED BY <1>1, <2>2, <2>3, <2>4 DEF NestedNext
<1>2. CASE UNCHANGED nestedVars
  <2>1. UNCHANGED <<freeList, fifo, ptByteFifo, ptByteFifoDmaRx, CMAR, tSizeInByte, hwDataCnt,
                    pc, chState, isr, ptFlush, CNDTR, ptLoaded, byTimer, preempted, cutIn>>
    BY <1>2 DEF nestedVars
  <2>2. NestedTypes'
    BY <2>1, Zenon DEF NestedInv, NestedTypes
  <2>3. /\ Reading' = Reading /\ NestedSpare' = NestedSpare /\ SpareBelow' = SpareBelow
        /\ (Switching <=> Switching') /\ Filling' = Filling
        /\ (At("RECORD") <=> At("RECORD")') /\ BlockAt("RECORD")' = BlockAt("RECORD")
    BY <2>1 DEF Reading, NestedSpare, SpareBelow, Filling, Switching, At, BlockAt
  <2>4. OneOwnerEach => OneOwnerEach'
    <3>1. Owned(freeList, fifo, Reading, NestedSpare, SpareBelow, Filling) =>
            Owned(freeList, fifo, Reading, NestedSpare, SpareBelow, Filling)'
      BY <2>1, <2>3 DEF Owned
    <3>2. ChannelKnown => ChannelKnown'
      BY <2>1, <2>3 DEF ChannelKnown
    <3> QED BY <3>1, <3>2, NestedOwners, NestedOwnersNext
  <2>5. FlushHolds(isr, ptFlush, ptLoaded) => FlushHolds(isr, ptFlush, ptLoaded)'
    BY <2>1 DEF FlushHolds
  <2>6. BelowHolds => BelowHolds'
    BY <2>1 DEF BelowHolds, FlushHolds
  <2>7. RoomLeft => RoomLeft'
    BY <2>1 DEF RoomLeft, Held, HeldBelow
  <2> QED BY <2>1, <2>2, <2>4, <2>5, <2>6, <2>7 DEF NestedInv, NestedOK
<1> QED BY <1>1, <1>2

\* Wherever the half-transfer handler comes in, every block has one owner, if bytes come
\* only while two blocks are free; but where it comes in between the load of the block to
\* append and the record of the next, a block may be appended twice.
THEOREM NestedConserves ==
  ASSUME ReaderKeepsUp
  PROVE  NestedSpec => []NestedConserved
<1>1. NestedInv => NestedConserved
  BY DEF NestedInv, NestedOK, NestedConserved
<1>2. NestedInv /\ [NestedNext]_nestedVars => NestedInv'
  BY NestedStepKeeps
<1> QED BY <1>1, <1>2, NestedInitInv, PTL DEF NestedSpec
=============================================================================
