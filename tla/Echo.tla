-------------------------------- MODULE Echo --------------------------------
(***************************************************************************)
(* example/Project/main.c: the main program reads a byte from the receive  *)
(* stream and writes it to the transmit stream, while the interrupts and   *)
(* channels of both streams work.  The receive stream's variables keep     *)
(* their names, the transmit stream's are prefixed with w.                 *)
(*                                                                         *)
(* The completion interrupt does not preempt the receive interrupts, nor   *)
(* they it.  A byte written is numbered by the transmit stream; echoed     *)
(* says which byte of the line it is.                                      *)
(***************************************************************************)
EXTENDS StreamRead

CONSTANTS wChCnt, WRITE_BUFF_CNT    \* the transmit stream's chCnt and block size

ASSUME EchoAssumption ==
  /\ wChCnt \in Nat \ {0} /\ WRITE_BUFF_CNT \in Nat \ {0}
  /\ NULL \notin 0 .. wChCnt - 1

VARIABLES
  wBusy, wFifoSend, wByteFifo, wFreeList, wFifo, wSizeInByte, wMemory, wRing,
  wState, wpc, wCMAR, wcpos, wCNDTR, wTCIF, accepted, sent,
  mpc,        \* which call of the loop is next or running: "read" or "write"
  echoed,     \* history: the bytes of the line zero_strm_write accepted
  dropped     \* history: how many it refused

W == INSTANCE StreamWrite WITH
       chCnt <- wChCnt, bBusy <- wBusy, ptFifoSend <- wFifoSend,
       ptByteFifo <- wByteFifo, freeList <- wFreeList, fifo <- wFifo,
       tSizeInByte <- wSizeInByte, chMemory <- wMemory, tByteFifo <- wRing,
       chState <- wState, pc <- wpc, CMAR <- wCMAR, cpos <- wcpos,
       CNDTR <- wCNDTR, TCIF <- wTCIF

wVars == <<wBusy, wFifoSend, wByteFifo, wFreeList, wFifo, wSizeInByte, wMemory, wRing,
           wState, wpc, wCMAR, wcpos, wCNDTR, wTCIF, accepted, sent>>
mVars == <<mpc, echoed, dropped>>
echoVars == <<vars, wVars, mVars>>

\* main up to its loop: both streams initialised.
EchoInit == Init /\ W!Init /\ mpc = "read" /\ echoed = <<>> /\ dropped = 0

\* The byte zero_strm_read put in main's chByte.
chByte == delivered[Len(delivered)]

---------------------------------------------------------------------------
\* The loop's call of zero_strm_read: printf only after true.
ReadCall ==
  /\ mpc = "read"
  /\ ReadStep
  /\ mpc' = IF Len(delivered') > Len(delivered) THEN "write" ELSE "read"
  /\ UNCHANGED <<wVars, echoed, dropped>>

\* stdout_putchar in printf: one call of zero_strm_write, whose result printf
\* passes on and main ignores.
WriteCall ==
  /\ mpc = "write" /\ isr = "none"
  /\ W!CallWrite \/ W!WriteStep
  /\ \/ wpc' # "idle" /\ UNCHANGED mVars
     \/ /\ wpc' = "idle" /\ accepted' > accepted
        /\ echoed' = Append(echoed, chByte)
        /\ mpc' = "read" /\ UNCHANGED dropped
     \/ /\ wpc' = "idle" /\ accepted' = accepted
        /\ dropped' = dropped + 1
        /\ mpc' = "read" /\ UNCHANGED echoed
  /\ UNCHANGED vars

\* The receive stream's interrupts and hardware.
ReadIrq ==
  /\ ByteArrives \/ LineGoesIdle \/ UartIdleIrq \/ DmaHalfIrq \/ TickIrq \/ FlushStep
  /\ UNCHANGED <<wVars, mVars>>

\* DMA1_Channel4_IRQHandler, between the steps of main and of no other handler.
SendIrq == isr = "none" /\ W!SendDataCpl /\ UNCHANGED <<vars, mVars>>

SendByte == W!DmaByte /\ UNCHANGED <<vars, mVars>>

EchoNext == ReadCall \/ WriteCall \/ ReadIrq \/ SendIrq \/ SendByte

EchoSpec == EchoInit /\ [][EchoNext]_echoVars

\* The loop runs for ever; the rest as in the two streams.
EchoFairness ==
  /\ WF_echoVars(ReadCall \/ WriteCall)
  /\ WF_echoVars(SendIrq) /\ WF_echoVars(SendByte)
  /\ WF_echoVars(LineGoesIdle /\ ReadIrq) /\ WF_echoVars(UartIdleIrq /\ ReadIrq)
  /\ WF_echoVars(DmaHalfIrq /\ ReadIrq) /\ WF_echoVars(TickIrq /\ ReadIrq)
  /\ WF_echoVars(FlushStep /\ ReadIrq)

EchoFairSpec == EchoSpec /\ EchoFairness

---------------------------------------------------------------------------
(* Properties.                                                              *)

\* From line to line: what goes out came in, each byte at most once and in the
\* order of arrival, through two pools, four interrupts and a refusing writer.
EchoInOrder ==
  /\ Len(sent) <= Len(echoed)
  /\ \A i \in 1 .. Len(sent) : echoed[sent[i]] \in 1 .. arrived
  /\ \A i \in 1 .. Len(sent) - 1 : echoed[sent[i]] < echoed[sent[i + 1]]

\* Why: what main passed on are bytes zero_strm_read returned, in their order, and
\* the one it is about to pass on is younger; it has dealt with all the others.
EchoedInTurn ==
  /\ mpc \in {"read", "write"} /\ echoed \in Seq(Nat) /\ dropped \in Nat
  /\ Len(echoed) = accepted
  /\ \A i \in 1 .. Len(echoed) :
       /\ echoed[i] \in 1 .. arrived
       /\ echoed[i] <= LastReturned
       /\ mpc = "write" => echoed[i] < LastReturned
  /\ \A i \in 1 .. Len(echoed) - 1 : echoed[i] < echoed[i + 1]
  /\ Len(echoed) + dropped + (IF mpc = "write" THEN 1 ELSE 0) = Len(delivered)

\* A byte is dropped only while the transmit stream holds all its blocks but
\* one in bytes not yet on the wire.
DropsOnlyWhenFull ==
  [][dropped' > dropped => accepted - Len(sent) >= (wChCnt - 1) * WRITE_BUFF_CNT]_echoVars

\* The loop never gets stuck in one stream: every byte that comes in is passed
\* to zero_strm_write in the end, though the writer's FSM waits for a block.
ArrivedAreHandled ==
  \A n \in 1 .. MaxBytes : (arrived >= n) ~> (Len(echoed) + dropped >= n)
=============================================================================
