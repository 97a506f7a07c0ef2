---------------------------- MODULE Echo_proofs -----------------------------
(***************************************************************************)
(* The example program, for any number and size of the blocks of either    *)
(* stream: it drives both as their modules say, so what is proved of each  *)
(* holds in it, and together they keep the bytes of the line in order.     *)
(*                                                                         *)
(* WP has the results about the transmit stream, under Echo's names.  Its  *)
(* actions are those of Echo's instance W, as the lemmas Same... say.      *)
(***************************************************************************)
EXTENDS Echo, StreamRead_proofs

WP == INSTANCE StreamWrite_proofs WITH
        chCnt <- wChCnt, bBusy <- wBusy, ptFifoSend <- wFifoSend,
        ptByteFifo <- wByteFifo, freeList <- wFreeList, fifo <- wFifo,
        tSizeInByte <- wSizeInByte, chMemory <- wMemory, tByteFifo <- wRing,
        chState <- wState, pc <- wpc, CMAR <- wCMAR, cpos <- wcpos,
        CNDTR <- wCNDTR, TCIF <- wTCIF

\* The constants of the transmit stream are as it assumes.
LEMMA WriterConstants == WP!WriteAssumption /\ W!WriteAssumption
BY EchoAssumption, ReadAssumption
   DEF WP!WriteAssumption, WP!Blocks, W!WriteAssumption, W!Blocks

LEMMA SameInit == W!Init => WP!Init
BY DEF W!Init, WP!Init, W!Blocks, WP!Blocks

LEMMA SameCall == W!CallWrite => WP!CallWrite
BY DEF W!CallWrite, WP!CallWrite, W!listVars, WP!listVars, W!dataVars, WP!dataVars,
       W!dmaVars, WP!dmaVars

LEMMA SameStep == W!WriteStep => WP!WriteStep
BY DEF W!WriteStep, WP!WriteStep, W!EnqueueByte, WP!EnqueueByte,
       W!BlockIsFull, WP!BlockIsFull, W!AppendBlock, WP!AppendBlock,
       W!ClaimDma, WP!ClaimDma, W!FetchBlock, WP!FetchBlock,
       W!ReleaseDma, WP!ReleaseDma, W!StartDma, WP!StartDma,
       W!NewBlock, WP!NewBlock, W!RefuseByte, WP!RefuseByte,
       W!IsFull, WP!IsFull, W!Enqueued, WP!Enqueued, W!Wrapped, WP!Wrapped,
       W!InitEmpty, WP!InitEmpty, W!SizeReset, WP!SizeReset,
       W!Appended, WP!Appended, W!ProgramDma, WP!ProgramDma,
       W!listVars, WP!listVars, W!dataVars, WP!dataVars, W!dmaVars, WP!dmaVars

LEMMA SameByte == W!DmaByte => WP!DmaByte
BY DEF W!DmaByte, WP!DmaByte, W!mainVars, WP!mainVars, W!listVars, WP!listVars,
       W!dataVars, WP!dataVars

LEMMA SameCpl == W!SendDataCpl => WP!SendDataCpl
BY DEF W!SendDataCpl, WP!SendDataCpl, W!FlushAuto, WP!FlushAuto, W!Freed, WP!Freed,
       W!ProgramDma, WP!ProgramDma, W!mainVars, WP!mainVars, W!dataVars, WP!dataVars

\* What the example does is a step of the receive stream or none of its business.
LEMMA ReaderStep == [EchoNext]_echoVars => [Next]_vars
BY DEF EchoNext, ReadCall, WriteCall, ReadIrq, SendIrq, SendByte, echoVars, Next

\* Likewise of the transmit stream.
LEMMA WriterStep ==
  [EchoNext]_echoVars => [W!Next]_(W!vars) /\ [WP!Next]_(WP!vars)
<1>1. [EchoNext]_echoVars =>
        \/ W!CallWrite \/ W!WriteStep \/ W!DmaByte \/ W!SendDataCpl \/ UNCHANGED wVars
  BY DEF EchoNext, ReadCall, WriteCall, ReadIrq, SendIrq, SendByte, echoVars
<1>2. UNCHANGED wVars => UNCHANGED W!vars /\ UNCHANGED WP!vars
  BY DEF wVars, W!vars, W!mainVars, W!listVars, W!dataVars, W!dmaVars,
         WP!vars, WP!mainVars, WP!listVars, WP!dataVars, WP!dmaVars
<1> QED BY <1>1, <1>2, SameCall, SameStep, SameByte, SameCpl DEF W!Next, WP!Next

\* main uses the receive stream as its module says.
THEOREM EchoReads == EchoSpec => Spec
<1>1. EchoInit => Init
  BY DEF EchoInit
<1> QED BY <1>1, ReaderStep, PTL DEF EchoSpec, Spec

\* And the transmit stream.
THEOREM EchoWrites == EchoSpec => W!Spec
<1>1. EchoInit => W!Init
  BY DEF EchoInit
<1> QED BY <1>1, WriterStep, PTL DEF EchoSpec, W!Spec

WriterInv == WP!PoolInv /\ WP!DataInv /\ WP!QueuedWhole

\* So what is invariant in either is invariant in the example.
LEMMA WriterInEcho == EchoSpec => []WriterInv
<1>1. EchoInit => WP!Init
  BY SameInit DEF EchoInit
<1>2. WP!Spec => []WriterInv
  BY WP!WholeAlways, WriterConstants DEF WriterInv
<1> QED BY <1>1, <1>2, WriterStep, PTL DEF EchoSpec, WP!Spec

LEMMA ReaderInEcho ==
  ASSUME ReaderKeepsUp PROVE EchoSpec => [](ReadInv /\ OrderInv)
BY EchoReads, OrderAlways, PTL

---------------------------------------------------------------------------
(* The bytes of the example.                                                *)

LEMMA TurnInit == EchoInit => EchoedInTurn
<1> SUFFICES ASSUME EchoInit PROVE EchoedInTurn
  OBVIOUS
<1>1. /\ mpc = "read" /\ echoed = <<>> /\ Len(echoed) = 0 /\ dropped = 0 /\ accepted = 0
      /\ delivered = <<>> /\ Len(delivered) = 0 /\ echoed \in Seq(Nat)
  BY DEF EchoInit, Init, W!Init
<1> QED BY <1>1 DEF EchoedInTurn

\* A step that passes nothing on, drops nothing and returns nothing.
LEMMA NothingPassedOn ==
  ASSUME ReadInv, ReadInv', EchoedInTurn,
         UNCHANGED <<mpc, echoed, dropped, accepted, delivered>>, arrived' >= arrived
  PROVE  EchoedInTurn'
<1>1. LastReturned' = LastReturned
  BY DEF LastReturned
<1>2. arrived \in Nat /\ arrived' \in Nat /\ Len(delivered)' = Len(delivered)
  BY DEF ReadInv, TypeOK
<1>3. ASSUME NEW i \in 1 .. Len(echoed)
      PROVE  /\ echoed[i] \in 1 .. arrived' /\ echoed[i] <= LastReturned
             /\ mpc = "write" => echoed[i] < LastReturned
  BY <1>2 DEF EchoedInTurn
<1> QED BY <1>1, <1>2, <1>3 DEF EchoedInTurn

\* The loop's call of zero_strm_read: the byte it returns is younger than all the
\* bytes it returned before, so than all that were passed on.
LEMMA ReadCallInTurn ==
  ASSUME ReadInv, OrderInv, ReadInv', OrderInv', EchoedInTurn, ReadCall
  PROVE  EchoedInTurn'
<1>1. /\ mpc = "read" /\ ReadStep /\ UNCHANGED <<echoed, dropped, accepted>>
      /\ mpc' = IF Len(delivered') > Len(delivered) THEN "write" ELSE "read"
  BY DEF ReadCall, wVars
<1>2. arrived' = arrived /\ arrived \in Nat
  BY <1>1 DEF ReadStep, CallRead, DequeueByte, FreeBlock, FetchBlock, ReturnFalse, lineVars,
              ReadInv, TypeOK
<1>3. CASE DequeueByte
  <2>1. PICK n \in Nat : n = Len(delivered)
    BY DEF ReadInv, TypeOK
  <2>2. delivered \in Seq(Nat) /\ delivered' \in Seq(Nat)
    BY DEF ReadInv, TypeOK
  <2>3. PICK x : delivered' = Append(delivered, x)
    BY <1>3 DEF DequeueByte
  <2>4. /\ Len(delivered') = n + 1 /\ delivered'[n + 1] = x
        /\ \A i \in 1 .. n : delivered'[i] = delivered[i]
    BY <2>1, <2>2, <2>3
  <2>5. mpc' = "write"
    BY <1>1, <2>1, <2>4
  <2>6. LastReturned' = x
    <3>1. delivered' # <<>>
      BY <2>4
    <3> QED BY <2>4, <3>1 DEF LastReturned
  <2>7. /\ x \in 1 .. arrived
        /\ n > 0 => delivered[n] < x
    <3>1. n + 1 \in 1 .. Len(delivered') /\ (n > 0 => n \in 1 .. Len(delivered') - 1)
      BY <2>4
    <3>2. \A i \in 1 .. Len(delivered') : delivered'[i] \in 1 .. arrived'
      BY DEF OrderInv, ReadOnce
    <3>3. \A i \in 1 .. Len(delivered') - 1 : delivered'[i] < delivered'[i + 1]
      BY DEF OrderInv, ReadOnce
    <3> QED BY <1>2, <2>1, <2>4, <3>1, <3>2, <3>3
  <2>8. LastReturned < x /\ LastReturned \in Nat
    <3>1. LastReturned = IF n = 0 THEN 0 ELSE delivered[n]
      BY <2>1, <2>2 DEF LastReturned
    <3>2. LastReturned \in Nat
      BY LastsAreBytes
    <3> QED BY <1>2, <2>7, <3>1, <3>2
  <2>9. ASSUME NEW i \in 1 .. Len(echoed)
        PROVE  echoed[i] \in 1 .. arrived /\ echoed[i] < x
    BY <1>2, <2>7, <2>8 DEF EchoedInTurn
  <2>10. Len(echoed) + dropped = n /\ Len(echoed) \in Nat
    BY <1>1, <2>1 DEF EchoedInTurn
  <2>11. \A i \in 1 .. Len(echoed) : /\ echoed[i] \in 1 .. arrived /\ echoed[i] < x
                                     /\ echoed[i] <= x
    BY <1>2, <2>7, <2>9
  <2>12. Len(echoed') + dropped' + 1 = Len(delivered')
    BY <1>1, <2>4, <2>10 DEF EchoedInTurn
  <2>13. \A i \in 1 .. Len(echoed') : /\ echoed'[i] \in 1 .. arrived'
                                      /\ echoed'[i] <= LastReturned'
                                      /\ echoed'[i] < LastReturned'
    BY <1>1, <1>2, <2>6, <2>11
  <2>14. /\ echoed' \in Seq(Nat) /\ dropped' \in Nat /\ Len(echoed') = accepted'
         /\ \A i \in 1 .. Len(echoed') - 1 : echoed'[i] < echoed'[i + 1]
    BY <1>1 DEF EchoedInTurn
  <2> QED BY <2>5, <2>12, <2>13, <2>14 DEF EchoedInTurn
<1>4. CASE ~DequeueByte
  <2>1. delivered' = delivered
    BY <1>1, <1>4 DEF ReadStep, CallRead, FreeBlock, FetchBlock, ReturnFalse
  <2>2. mpc' = mpc
    BY <1>1, <2>1 DEF ReadInv, TypeOK
  <2> QED BY <1>1, <1>2, <2>1, <2>2, NothingPassedOn
<1> QED BY <1>3, <1>4

\* The call of zero_strm_write: it ends by accepting the byte or by refusing it.
LEMMA WriteCallInTurn ==
  ASSUME ReadInv, OrderInv, ReadInv', WriterInv, EchoedInTurn, WriteCall
  PROVE  EchoedInTurn'
<1>1. /\ mpc = "write" /\ delivered' = delivered /\ arrived' = arrived
      /\ WP!CallWrite \/ WP!WriteStep
  BY SameCall, SameStep DEF WriteCall, vars, mainVars, lineVars
<1>2. accepted' = accepted \/ (accepted' = accepted + 1 /\ wpc' = "idle")
  BY <1>1, WriterConstants, WP!CallEnds DEF WriterInv
<1>3. LastReturned' = LastReturned /\ Len(delivered)' = Len(delivered)
  BY <1>1 DEF LastReturned
<1>4. PICK n \in Nat : n = Len(echoed)
  BY DEF EchoedInTurn
<1>5. /\ arrived \in Nat /\ echoed \in Seq(Nat) /\ accepted = n /\ dropped \in Nat
      /\ n + dropped + 1 = Len(delivered)
  BY <1>1, <1>4 DEF EchoedInTurn, ReadInv, TypeOK
<1>6. chByte = LastReturned /\ chByte \in 1 .. arrived
  <2>1. PICK m \in Nat : m = Len(delivered)
    BY DEF ReadInv, TypeOK
  <2>2. m \in 1 .. Len(delivered)
    BY <1>5, <2>1
  <2>3. delivered # <<>>
    BY <2>2
  <2>4. delivered[m] \in 1 .. arrived
    BY <2>2 DEF OrderInv, ReadOnce
  <2> QED BY <2>1, <2>3, <2>4 DEF chByte, LastReturned
<1>7. \A i \in 1 .. n : echoed[i] \in 1 .. arrived /\ echoed[i] < LastReturned
  BY <1>1, <1>4 DEF EchoedInTurn
<1>8. CASE wpc' # "idle" /\ UNCHANGED mVars
  <2>1. UNCHANGED <<mpc, echoed, dropped, accepted>>
    BY <1>2, <1>8 DEF mVars
  <2> QED BY <1>1, <1>5, <2>1, NothingPassedOn
<1>9. CASE accepted' > accepted /\ echoed' = Append(echoed, chByte) /\ mpc' = "read" /\ dropped' = dropped
  <2>1. accepted' = n + 1
    BY <1>2, <1>5, <1>9
  <2>2. /\ echoed' \in Seq(Nat) /\ Len(echoed') = n + 1 /\ echoed'[n + 1] = chByte
        /\ \A i \in 1 .. n : echoed'[i] = echoed[i]
    BY <1>4, <1>5, <1>6, <1>9
  <2>3. \A i \in 1 .. n + 1 : echoed'[i] \in 1 .. arrived /\ echoed'[i] <= LastReturned
    <3>1. \A i \in 1 .. n : echoed[i] <= LastReturned
      BY <1>5, <1>6, <1>7
    <3>2. \A i \in 1 .. n + 1 : i \in 1 .. n \/ i = n + 1
      OBVIOUS
    <3>3. chByte <= LastReturned
      BY <1>5, <1>6
    <3> QED BY <1>6, <1>7, <2>2, <3>1, <3>2, <3>3
  <2>4. ASSUME NEW i \in 1 .. n PROVE echoed'[i] < echoed'[i + 1]
    <3>1. CASE i = n
      BY <1>6, <1>7, <2>2, <3>1
    <3>2. CASE i # n
      <4>1. i \in 1 .. Len(echoed) - 1 /\ i + 1 \in 1 .. n
        BY <1>4, <3>2
      <4>2. echoed[i] < echoed[i + 1]
        BY <4>1 DEF EchoedInTurn
      <4> QED BY <2>2, <4>1, <4>2
    <3> QED BY <3>1, <3>2
  <2>5. n + 1 + dropped = Len(delivered)
    BY <1>5
  <2>6. \A i \in 1 .. Len(echoed') - 1 : echoed'[i] < echoed'[i + 1]
    BY <2>2, <2>4
  <2>7. Len(echoed') + dropped' + 0 = Len(delivered') /\ Len(echoed') = accepted'
    BY <1>1, <1>5, <1>9, <2>1, <2>2, <2>5
  <2>8. \A i \in 1 .. Len(echoed') : echoed'[i] \in 1 .. arrived' /\ echoed'[i] <= LastReturned'
    BY <1>1, <1>3, <2>2, <2>3
  <2>9. mpc' = "read" /\ echoed' \in Seq(Nat) /\ dropped' \in Nat
    BY <1>5, <1>9, <2>2
  <2> QED BY <2>6, <2>7, <2>8, <2>9 DEF EchoedInTurn
<1>10. CASE accepted' = accepted /\ dropped' = dropped + 1 /\ mpc' = "read" /\ echoed' = echoed
  <2>1. ASSUME NEW i \in 1 .. n PROVE echoed[i] \in 1 .. arrived /\ echoed[i] <= LastReturned
    BY <1>5, <1>6, <1>7
  <2>2. n + (dropped + 1) = Len(delivered)
    BY <1>5
  <2>3. \A i \in 1 .. Len(echoed') - 1 : echoed'[i] < echoed'[i + 1]
    BY <1>10 DEF EchoedInTurn
  <2>4. Len(echoed') + dropped' + 0 = Len(delivered') /\ Len(echoed') = accepted'
    BY <1>1, <1>4, <1>5, <1>10, <2>2
  <2>5. \A i \in 1 .. Len(echoed') : echoed'[i] \in 1 .. arrived' /\ echoed'[i] <= LastReturned'
    BY <1>1, <1>3, <1>4, <1>10, <2>1
  <2>6. mpc' = "read" /\ echoed' \in Seq(Nat) /\ dropped' \in Nat
    BY <1>5, <1>10
  <2> QED BY <2>3, <2>4, <2>5, <2>6 DEF EchoedInTurn
<1> QED BY <1>8, <1>9, <1>10 DEF WriteCall

LEMMA TurnStep ==
  ASSUME ReadInv, OrderInv, ReadInv', OrderInv', WriterInv, EchoedInTurn, [EchoNext]_echoVars
  PROVE  EchoedInTurn'
<1>1. arrived \in Nat
  BY DEF ReadInv, TypeOK
<1>2. CASE ReadIrq
  <2>1. UNCHANGED <<mpc, echoed, dropped, accepted, delivered>> /\ arrived' >= arrived
    BY <1>1, <1>2 DEF ReadIrq, wVars, mVars, mainVars, lineVars, ByteArrives, LineGoesIdle,
         UartIdleIrq, DmaHalfIrq, TickIrq, TimerCounts, FlushStep, FlushGetBlock, FlushNothing, FlushCount,
         FlushSwitch
  <2> QED BY <2>1, NothingPassedOn
<1>3. CASE SendIrq \/ SendByte
  <2>1. UNCHANGED <<mpc, echoed, dropped, accepted, delivered, arrived>>
    BY <1>3 DEF SendIrq, SendByte, mVars, vars, mainVars, lineVars, W!SendDataCpl, W!DmaByte,
                W!mainVars
  <2> QED BY <1>1, <2>1, NothingPassedOn
<1>4. CASE UNCHANGED echoVars
  <2>1. UNCHANGED <<mpc, echoed, dropped, accepted, delivered, arrived>>
    BY <1>4 DEF echoVars, wVars, mVars, vars, mainVars, lineVars
  <2> QED BY <1>1, <2>1, NothingPassedOn
<1> QED BY <1>2, <1>3, <1>4, ReadCallInTurn, WriteCallInTurn DEF EchoNext

\* What main passed on is in the order of arrival, and it has dealt with every byte
\* zero_strm_read returned exactly once.
THEOREM EchoedAlwaysInTurn ==
  ASSUME ReaderKeepsUp
  PROVE  EchoSpec => []EchoedInTurn
<1>1. ReadInv /\ OrderInv /\ ReadInv' /\ OrderInv' /\ WriterInv /\ EchoedInTurn
        /\ [EchoNext]_echoVars => EchoedInTurn'
  BY TurnStep
<1> QED BY ReaderInEcho, WriterInEcho, TurnInit, <1>1, PTL DEF EchoSpec

\* From line to line, whatever the numbers and sizes of the blocks: each byte goes
\* out at most once and in the order in which the bytes came in.
THEOREM EchoAlwaysInOrder ==
  ASSUME ReaderKeepsUp
  PROVE  EchoSpec => []EchoInOrder
<1>1. WriterInv /\ EchoedInTurn => EchoInOrder
  <2> SUFFICES ASSUME WriterInv, EchoedInTurn PROVE EchoInOrder
    OBVIOUS
  <2>1. Len(sent) <= Len(echoed) /\ \A i \in 1 .. Len(sent) : sent[i] = i
    BY DEF WriterInv, WP!DataInv, WP!SentInOrder, EchoedInTurn
  <2>2. Len(sent) \in Nat /\ Len(echoed) \in Nat
    BY DEF WriterInv, WP!PoolInv, WP!TypeOK, EchoedInTurn
  <2>3. ASSUME NEW i \in 1 .. Len(sent) PROVE echoed[sent[i]] \in 1 .. arrived
    BY <2>1, <2>2 DEF EchoedInTurn
  <2>4. ASSUME NEW i \in 1 .. Len(sent) - 1 PROVE echoed[sent[i]] < echoed[sent[i + 1]]
    <3>1. sent[i] = i /\ sent[i + 1] = i + 1 /\ i \in 1 .. Len(echoed) - 1
      BY <2>1, <2>2
    <3> QED BY <3>1 DEF EchoedInTurn
  <2> QED BY <2>1, <2>3, <2>4 DEF EchoInOrder
<1> QED BY WriterInEcho, EchoedAlwaysInTurn, <1>1, PTL

\* printf loses a byte only while the transmit stream is full of bytes on their way.
THEOREM DropsAreOfFull == EchoSpec => DropsOnlyWhenFull
<1> DEFINE Counted == dropped \in Nat
<1>1. Counted /\ WriterInv /\ [EchoNext]_echoVars =>
        [dropped' > dropped => accepted - Len(sent) >= (wChCnt - 1) * WRITE_BUFF_CNT]_echoVars
  <2> SUFFICES ASSUME dropped \in Nat, WriterInv, EchoNext, dropped' > dropped
               PROVE  accepted - Len(sent) >= (wChCnt - 1) * WRITE_BUFF_CNT
    OBVIOUS
  <2>1. WriteCall /\ wpc' = "idle" /\ accepted' = accepted
    <3>1. dropped' # dropped
      OBVIOUS
    <3> QED BY <3>1 DEF EchoNext, ReadCall, WriteCall, ReadIrq, SendIrq, SendByte, mVars
  <2>2. WP!CallWrite \/ WP!WriteStep
    BY <2>1, SameCall, SameStep DEF WriteCall
  <2>3. wpc = "GET_BYTE_FIFO"
    BY <2>1, <2>2, WriterConstants, WP!CallEnds DEF WriterInv
  <2>4. [WP!Next]_(WP!vars)
    BY <2>2 DEF WP!Next
  <2> QED BY <2>1, <2>3, <2>4, WriterConstants, WP!FalseStepIsFull DEF WriterInv
<1>2. EchoInit => Counted
  BY DEF EchoInit
<1>3. Counted /\ [EchoNext]_echoVars => Counted'
  BY DEF EchoNext, ReadCall, WriteCall, ReadIrq, SendIrq, SendByte, mVars, echoVars
<1> HIDE DEF Counted
<1> QED BY WriterInEcho, <1>1, <1>2, <1>3, PTL DEF EchoSpec, DropsOnlyWhenFull
=============================================================================
