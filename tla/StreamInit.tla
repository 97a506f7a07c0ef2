----------------------------- MODULE StreamInit ------------------------------
(***************************************************************************)
(* zero_strm_write_init and zero_strm_read_init for a buffer of any size:  *)
(* how many blocks it is cut into, what becomes of the first ones, and     *)
(* what the receive channel, started half way through, may interrupt.      *)
(* StreamWrite and StreamRead begin where this module ends.                *)
(***************************************************************************)
EXTENDS BlockPool, ByteFifo

CONSTANTS
  Header,                   \* sizeof(mem_blk_t)
  WRITE_BUFF_CNT, READ_BUFF_CNT,
  WriteSizes, ReadSizes,    \* the buffer sizes tried
  EarlyBytes                \* environment: bytes that may come in meanwhile

\* uint8_t and uint16_t.
uint8 == 0 .. 255
uint16 == 0 .. 65535

ASSUME InitAssumption ==
  /\ Header \in Nat \ {0}
  /\ WRITE_BUFF_CNT \in Nat \ {0} /\ READ_BUFF_CNT \in Nat \ {0, 1}
  /\ WriteSizes \subseteq uint16 /\ ReadSizes \subseteq uint16
  /\ EarlyBytes \in Nat
  /\ NULL \notin uint8

VARIABLES
  dir, hwSize,          \* which initialiser runs, and cfg.hwSize
  initPc,                   \* where it is
  chIndex, freeList, tSizeInByte,
  ptByteFifo,           \* the block under the ring (ptByteFifoEmpty in the receiver)
  ptByteFifoDmaRx, tByteFifo,
  fsmReady,             \* FSM objects that are more than zeroed memory
  CNDTR, HTIF, early,   \* the receive channel; bytes it stored so far
  fault                 \* NULL was dereferenced

poolVars == <<chIndex, freeList, tSizeInByte>>
ringVars == <<ptByteFifo, tByteFifo>>
dmaVars  == <<ptByteFifoDmaRx, CNDTR, HTIF, early>>
initVars == <<dir, hwSize, initPc, poolVars, ringVars, fsmReady, dmaVars, fault>>

\* sizeof of the union of a block header and the header with its payload.
BuffCnt == IF dir = "write" THEN WRITE_BUFF_CNT ELSE READ_BUFF_CNT
BlockBytes == Header + BuffCnt
WholeBlocks == hwSize \div BlockBytes

\* uint8_t chCnt.
chCnt == WholeBlocks % 256

NoRing == [pchBuffer |-> NULL, hwSize |-> 0, hwHead |-> 0, hwTail |-> 0, hwLength |-> 0]

\* Entry, with the object zeroed.
InitEntry ==
  /\ dir \in {"write", "read"}
  /\ hwSize \in IF dir = "write" THEN WriteSizes ELSE ReadSizes
  /\ initPc = "carve"
  /\ chIndex = 0 /\ freeList = <<>> /\ tSizeInByte = [b \in uint8 |-> 0]
  /\ ptByteFifo = NULL /\ tByteFifo = NoRing /\ ptByteFifoDmaRx = NULL
  /\ fsmReady = {}
  /\ CNDTR = 0 /\ HTIF = FALSE /\ early = 0
  /\ fault = FALSE

Runs(statement) == ~fault /\ initPc = statement

---------------------------------------------------------------------------
\* The loop that cuts the buffer up; its index has eight bits too.
BadMore == chIndex <= chCnt
More == chIndex < chCnt

CarveBlock ==
  /\ Runs("carve") /\ More
  /\ tSizeInByte' = [tSizeInByte EXCEPT ![chIndex] = BuffCnt]
  /\ freeList' = Freed(freeList, chIndex)
  /\ chIndex' = (chIndex + 1) % 256
  /\ UNCHANGED <<dir, hwSize, initPc, ringVars, fsmReady, dmaVars, fault>>

CarveDone ==
  /\ Runs("carve") /\ ~More
  /\ initPc' = IF dir = "read" THEN "dma" ELSE "ring"
  /\ UNCHANGED <<dir, hwSize, poolVars, ringVars, fsmReady, dmaVars, fault>>

\* zero_strm_block_new: the block, and what is left.
NewBlock == IF freeList = <<>> THEN NULL ELSE Head(freeList)
RestFree == IF freeList = <<>> THEN <<>> ELSE Tail(freeList)

\* The receiver starts its channel on the first block; the callback ignores NULL.
StartChannel(block) == CNDTR' = tSizeInByte[block]

TakeDmaBlock ==
  /\ Runs("dma")
  /\ ptByteFifoDmaRx' = NewBlock
  /\ freeList' = RestFree
  /\ IF NewBlock = NULL THEN UNCHANGED CNDTR ELSE StartChannel(NewBlock)
  /\ initPc' = "ring"
  /\ UNCHANGED <<dir, hwSize, chIndex, tSizeInByte, ringVars, fsmReady, HTIF, early, fault>>

\* The ring over the next block; the writer's then counts from none.  The size
\* is read through the pointer, whatever it is.
TakeRingBlock ==
  /\ Runs("ring")
  /\ ptByteFifo' = NewBlock
  /\ freeList' = RestFree
  /\ initPc' = "fsm"
  /\ IF NewBlock = NULL
     THEN fault' = TRUE /\ UNCHANGED <<tByteFifo, tSizeInByte>>
     ELSE /\ tByteFifo' = InitEmpty(tByteFifo, NewBlock, tSizeInByte[NewBlock])
          /\ tSizeInByte' = IF dir = "write" THEN [tSizeInByte EXCEPT ![NewBlock] = 0]
                            ELSE tSizeInByte
          /\ UNCHANGED fault
  /\ UNCHANGED <<dir, hwSize, chIndex, fsmReady, dmaVars>>

\* init_fsm, object by object.
FsmOrder == IF dir = "write" THEN <<"fsmEnqueue", "fsmFlushAuto", "fsmFlushManual">>
            ELSE <<"fsmFlushHt", "fsmDequeue", "fsmTimeOut">>

InitFsm ==
  /\ Runs("fsm")
  /\ \E i \in 1 .. Len(FsmOrder) :
       /\ fsmReady = {FsmOrder[j] : j \in 1 .. i - 1}
       /\ fsmReady' = fsmReady \union {FsmOrder[i]}
       /\ initPc' = IF i = Len(FsmOrder) THEN "done" ELSE "fsm"
  /\ UNCHANGED <<dir, hwSize, poolVars, ringVars, dmaVars, fault>>

---------------------------------------------------------------------------
\* The receive channel works as soon as it is started.
ByteArrives ==
  /\ ~fault /\ CNDTR > 0 /\ early < EarlyBytes
  /\ CNDTR' = CNDTR - 1
  /\ early' = early + 1
  /\ HTIF' = (HTIF \/ CNDTR' = READ_BUFF_CNT \div 2)
  /\ UNCHANGED <<dir, hwSize, initPc, poolVars, ringVars, fsmReady, ptByteFifoDmaRx, fault>>

\* The half-transfer handler on a flush FSM that is still zeroed memory: its
\* ptStreamRead is NULL.  (On an initialised one it is StreamRead's DmaHalfIrq.)
DmaHalfIrq ==
  /\ ~fault /\ HTIF /\ "fsmFlushHt" \notin fsmReady
  /\ fault' = TRUE
  /\ UNCHANGED <<dir, hwSize, initPc, poolVars, ringVars, fsmReady, dmaVars>>

InitStep == CarveBlock \/ CarveDone \/ TakeDmaBlock \/ TakeRingBlock \/ InitFsm
InitNext == InitStep \/ ByteArrives \/ DmaHalfIrq

InitSpec == InitEntry /\ [][InitNext]_initVars

---------------------------------------------------------------------------
(* Properties.                                                              *)

\* Blocks the two initialisers need.
Needed == IF dir = "write" THEN 1 ELSE 2

\* When the initialiser has returned, the first chCnt blocks of the buffer are in
\* the pool or in use, none reaches past its end, and the object is as StreamWrite
\* and StreamRead begin.  (chCnt is short of the blocks that fit from 256 on.)
BlocksReady ==
  initPc = "done" =>
    LET used == IF dir = "write" THEN <<ptByteFifo>> ELSE <<ptByteFifoDmaRx, ptByteFifo>>
    IN  /\ used \o freeList = [i \in 1 .. chCnt |-> chCnt - i]
        /\ \A b \in Elems(used \o freeList) : (b + 1) * BlockBytes <= hwSize
        /\ tByteFifo = [NoRing EXCEPT !.pchBuffer = ptByteFifo, !.hwSize = BuffCnt]
        /\ \A b \in 0 .. chCnt - 1 :
             tSizeInByte[b] = IF dir = "write" /\ b = ptByteFifo THEN 0 ELSE BuffCnt

\* NULL is dereferenced only for want of blocks, which 256 blocks are too, or
\* because half a block came in between the start of the channel and init_fsm of
\* the flush FSM.
FaultsExplained ==
  fault => \/ chCnt < Needed
           \/ dir = "read" /\ early >= READ_BUFF_CNT - READ_BUFF_CNT \div 2

\* How an initialiser can end, whatever the size of the buffer.
InitOutcome == BlocksReady /\ FaultsExplained

---------------------------------------------------------------------------
(* Why: what the steps keep, for the proofs.                                *)

\* The blocks pushed so far, the last one on top.
Descending(n) == [i \in 1 .. n |-> n - i]

InitTypes ==
  /\ dir \in {"write", "read"} /\ hwSize \in uint16
  /\ initPc \in {"carve", "dma", "ring", "fsm", "done"}
  /\ chIndex \in uint8 /\ tSizeInByte \in [uint8 -> Nat]
  /\ CNDTR \in Nat /\ early \in Nat /\ HTIF \in BOOLEAN /\ fault \in BOOLEAN

\* The index does not wrap, and every block cut has the size of its payload.
BlocksCut ==
  /\ chIndex <= chCnt /\ (initPc # "carve" => chIndex = chCnt)
  /\ \A b \in 0 .. chIndex - 1 :
       tSizeInByte[b] = IF dir = "write" /\ b = ptByteFifo THEN 0 ELSE BuffCnt

\* Where the blocks are, statement by statement.
BlocksPlaced ==
  /\ initPc = "dma" => dir = "read"
  /\ initPc \in {"carve", "dma"} => ptByteFifoDmaRx = NULL /\ freeList = Descending(chIndex)
  /\ initPc \in {"carve", "dma", "ring"} => ptByteFifo = NULL /\ tByteFifo = NoRing
  /\ initPc = "ring" /\ (dir = "write" \/ chCnt = 0) => freeList = Descending(chCnt)
  /\ initPc = "ring" /\ dir = "read" /\ chCnt > 0 =>
       ptByteFifoDmaRx = chCnt - 1 /\ freeList = Descending(chCnt - 1)
  /\ initPc \in {"fsm", "done"} /\ ~fault =>
       /\ chCnt >= Needed /\ freeList = Descending(chCnt - Needed)
       /\ ptByteFifo = chCnt - Needed /\ (dir = "read" => ptByteFifoDmaRx = chCnt - 1)
       /\ tByteFifo = [NoRing EXCEPT !.pchBuffer = ptByteFifo, !.hwSize = BuffCnt]

\* The channel counts the bytes that came in, and interrupts at half a block.
ChannelCounts ==
  /\ dir = "write" \/ initPc \in {"carve", "dma"} => CNDTR = 0 /\ early = 0
  /\ CNDTR > 0 => CNDTR + early = READ_BUFF_CNT
  /\ HTIF => dir = "read" /\ early >= READ_BUFF_CNT - READ_BUFF_CNT \div 2

\* The flush FSM is ready when the receiver is done; nothing faults after that.
FlushReady ==
  /\ initPc = "done" /\ dir = "read" => "fsmFlushHt" \in fsmReady
  /\ fault => initPc # "done"

InitInv ==
  /\ InitTypes /\ BlocksCut /\ BlocksPlaced /\ ChannelCounts /\ FlushReady
  /\ FaultsExplained
=============================================================================
