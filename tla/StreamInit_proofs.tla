------------------------- MODULE StreamInit_proofs --------------------------
(***************************************************************************)
(* For a buffer of any size, blocks of any size and any number of early    *)
(* bytes: the initialisers end with every block they counted in its place, *)
(* or dereference NULL for one of two reasons.                             *)
(*                                                                         *)
(* InitOutcome is not inductive: it says nothing before the end.  InitInv  *)
(* follows the blocks statement by statement; its FlushReady keeps the     *)
(* half-transfer interrupt from spoiling what is done.                     *)
(***************************************************************************)
EXTENDS StreamInit, Lists_proofs

\* Eight and sixteen bits.
LEMMA Words ==
  /\ uint8 \subseteq Nat /\ uint16 \subseteq Nat /\ 0 \in uint8
  /\ \A n \in Nat : n \in uint8 <=> n < 256
<1>1. \A n \in Nat, k \in Nat : n \in 0 .. k <=> n < k + 1
  OBVIOUS
<1>2. \A k \in Nat : 0 .. k \subseteq Nat
  OBVIOUS
<1>3. 255 \in Nat /\ 65535 \in Nat /\ 255 + 1 = 256
  OBVIOUS
<1>4. \A n \in Nat : n \in uint8 <=> n < 256
  <2>1. PICK k \in Nat : k = 255
    BY <1>3
  <2>2. uint8 = 0 .. k /\ k + 1 = 256
    BY <1>3, <2>1 DEF uint8
  <2> QED BY <1>1, <2>1, <2>2
<1>5. uint8 \subseteq Nat /\ uint16 \subseteq Nat
  BY <1>2, <1>3 DEF uint8, uint16
<1> QED BY <1>4, <1>5

\* The stack that the loop builds, and what zero_strm_block_new takes from it.
LEMMA DescendingList ==
  ASSUME NEW n \in Nat
  PROVE  /\ Descending(n) \in Seq(Nat) /\ Len(Descending(n)) = n
         /\ Descending(0) = <<>>
         /\ <<n>> \o Descending(n) = Descending(n + 1)
         /\ n > 0 => /\ Descending(n) # <<>> /\ Head(Descending(n)) = n - 1
                     /\ Tail(Descending(n)) = Descending(n - 1)
         /\ n = 0 => Descending(n) = <<>>
<1>1. Descending(n) \in Seq(Nat) /\ Len(Descending(n)) = n
  BY DEF Descending
<1>2. Descending(0) = <<>>
  BY DEF Descending
<1>3. <<n>> \o Descending(n) = Descending(n + 1)
  <2>1. /\ <<n>> \o Descending(n) \in Seq(Nat) /\ Descending(n + 1) \in Seq(Nat)
        /\ Len(<<n>> \o Descending(n)) = n + 1 /\ Len(Descending(n + 1)) = n + 1
    BY <1>1 DEF Descending
  <2>2. ASSUME NEW i \in 1 .. n + 1
        PROVE  (<<n>> \o Descending(n))[i] = Descending(n + 1)[i]
    BY <1>1 DEF Descending
  <2> QED BY <2>1, <2>2
<1>4. ASSUME n > 0
      PROVE  /\ Descending(n) # <<>> /\ Head(Descending(n)) = n - 1
             /\ Tail(Descending(n)) = Descending(n - 1)
  <2>1. Descending(n) # <<>> /\ Head(Descending(n)) = n - 1
    BY <1>1, <1>4 DEF Descending
  <2>2. /\ Tail(Descending(n)) \in Seq(Nat) /\ Descending(n - 1) \in Seq(Nat)
        /\ Len(Tail(Descending(n))) = n - 1 /\ Len(Descending(n - 1)) = n - 1
    BY <1>1, <1>4, <2>1 DEF Descending
  <2>3. ASSUME NEW i \in 1 .. n - 1
        PROVE  Tail(Descending(n))[i] = Descending(n - 1)[i]
    BY <1>1, <1>4 DEF Descending
  <2> QED BY <2>1, <2>2, <2>3
<1> QED BY <1>1, <1>2, <1>3, <1>4

\* chCnt has eight bits and counts no block that does not fit.
LEMMA CountFits ==
  ASSUME InitTypes
  PROVE  /\ BuffCnt \in Nat \ {0} /\ BlockBytes \in Nat \ {0}
         /\ chCnt \in uint8 /\ chCnt \in Nat /\ Needed \in {1, 2}
         /\ \A b \in 0 .. chCnt - 1 : (b + 1) * BlockBytes <= hwSize
<1>1. BuffCnt \in Nat \ {0} /\ BlockBytes \in Nat \ {0} /\ hwSize \in Nat
  BY InitAssumption, Words DEF InitTypes, BuffCnt, BlockBytes
<1> DEFINE whole == hwSize \div BlockBytes
<1>2. whole \in Nat /\ whole * BlockBytes <= hwSize
  BY <1>1
<1>3. chCnt = whole % 256
  BY DEF chCnt, WholeBlocks
<1> HIDE DEF whole
<1>4. chCnt \in Nat /\ chCnt \in uint8 /\ chCnt <= whole
  BY <1>2, <1>3, Words
<1>5. ASSUME NEW b \in 0 .. chCnt - 1 PROVE (b + 1) * BlockBytes <= hwSize
  <2>1. b + 1 <= whole /\ b + 1 \in Nat
    BY <1>2, <1>4
  <2>2. (b + 1) * BlockBytes <= whole * BlockBytes
    BY <1>1, <1>2, <2>1
  <2>3. (b + 1) * BlockBytes \in Nat /\ whole * BlockBytes \in Nat
    BY <1>1, <1>2, <2>1
  <2> QED BY <1>1, <1>2, <2>2, <2>3
<1> QED BY <1>1, <1>4, <1>5 DEF Needed

LEMMA InitStarts == InitEntry => InitInv
<1> SUFFICES ASSUME InitEntry PROVE InitInv
  OBVIOUS
<1>1. InitTypes
  BY InitAssumption, Words DEF InitEntry, InitTypes
<1>2. chIndex = 0 /\ freeList = Descending(0)
  BY DescendingList DEF InitEntry
<1>3. BlocksCut
  BY <1>1, <1>2, CountFits DEF InitEntry, BlocksCut
<1>4. BlocksPlaced
  BY <1>2 DEF InitEntry, BlocksPlaced
<1>5. ChannelCounts /\ FlushReady /\ FaultsExplained
  BY InitAssumption DEF InitEntry, ChannelCounts, FlushReady, FaultsExplained
<1> QED BY <1>1, <1>3, <1>4, <1>5 DEF InitInv

\* The loop: the index counts the blocks pushed.
LEMMA CarveBlockKeeps == ASSUME InitInv, CarveBlock PROVE InitInv'
<1>1. /\ initPc = "carve" /\ ~fault /\ chIndex < chCnt /\ chIndex \in Nat
      /\ chCnt \in Nat /\ chCnt \in uint8 /\ chIndex \in uint8
      /\ freeList = Descending(chIndex) /\ ptByteFifo = NULL
      /\ tSizeInByte \in [uint8 -> Nat] /\ BuffCnt \in Nat
  BY Words, CountFits DEF CarveBlock, Runs, More, InitInv, InitTypes, BlocksCut, BlocksPlaced
<1>2. chIndex' = chIndex + 1 /\ chIndex' \in uint8 /\ chIndex # NULL
  BY <1>1, Words, InitAssumption DEF CarveBlock
<1>3. freeList' = Descending(chIndex')
  BY <1>1, <1>2, DescendingList DEF CarveBlock, Freed
<1>4. /\ chCnt' = chCnt /\ BuffCnt' = BuffCnt /\ NoRing' = NoRing /\ Needed' = Needed
      /\ initPc' = "carve" /\ ~fault'
  BY <1>1 DEF CarveBlock, chCnt, WholeBlocks, BlockBytes, BuffCnt, NoRing, Needed
<1>5. tSizeInByte' = [tSizeInByte EXCEPT ![chIndex] = BuffCnt]
  BY DEF CarveBlock
<1>6. InitTypes'
  BY <1>1, <1>2, <1>5 DEF InitInv, InitTypes, CarveBlock, dmaVars
<1>7. BlocksCut'
  <2>1. ptByteFifo' = NULL /\ dir' = dir
    BY <1>1 DEF CarveBlock, ringVars
  <2>2. ASSUME NEW b \in 0 .. chIndex' - 1 PROVE tSizeInByte'[b] = BuffCnt
    <3>1. b \in uint8 /\ b \in Nat /\ (b = chIndex \/ b \in 0 .. chIndex - 1)
      BY <1>1, <1>2, Words
    <3>2. b # NULL
      BY <3>1, InitAssumption
    <3>3. b \in 0 .. chIndex - 1 => tSizeInByte[b] = BuffCnt
      BY <1>1, <3>2 DEF InitInv, BlocksCut
    <3> QED BY <1>1, <1>5, <3>1, <3>3
  <2>3. \A b \in 0 .. chIndex' - 1 : b # NULL
    BY <1>1, <1>2, Words, InitAssumption
  <2> QED BY <1>1, <1>2, <1>4, <2>1, <2>2, <2>3 DEF BlocksCut
<1>8. BlocksPlaced'
  BY <1>1, <1>3, <1>4 DEF InitInv, BlocksPlaced, CarveBlock, ringVars, dmaVars
<1>9. ChannelCounts' /\ FlushReady' /\ FaultsExplained'
  BY <1>1, <1>4 DEF InitInv, ChannelCounts, FlushReady, FaultsExplained, CarveBlock, dmaVars
<1> QED BY <1>6, <1>7, <1>8, <1>9 DEF InitInv

LEMMA CarveDoneKeeps == ASSUME InitInv, CarveDone PROVE InitInv'
<1>1. /\ initPc = "carve" /\ ~fault /\ chIndex = chCnt /\ freeList = Descending(chCnt)
      /\ ptByteFifo = NULL
  BY Words, CountFits DEF CarveDone, Runs, More, InitInv, InitTypes, BlocksCut, BlocksPlaced
<1>2. /\ chCnt' = chCnt /\ BuffCnt' = BuffCnt /\ NoRing' = NoRing /\ Needed' = Needed
      /\ ~fault' /\ dir' = dir /\ chIndex' = chIndex /\ freeList' = freeList
      /\ tSizeInByte' = tSizeInByte /\ ptByteFifo' = ptByteFifo /\ tByteFifo' = tByteFifo
      /\ ptByteFifoDmaRx' = ptByteFifoDmaRx /\ CNDTR' = CNDTR /\ HTIF' = HTIF
      /\ early' = early /\ fsmReady' = fsmReady /\ hwSize' = hwSize /\ fault' = fault
  BY <1>1 DEF CarveDone, chCnt, WholeBlocks, BlockBytes, BuffCnt, NoRing, Needed, poolVars,
              ringVars, dmaVars
<1>3. initPc' \in {"dma", "ring"} /\ (initPc' = "dma" <=> dir = "read")
  BY DEF CarveDone
<1>4. dir = "read" \/ dir = "write"
  BY DEF InitInv, InitTypes
<1>5. InitTypes'
  BY <1>2, <1>3 DEF InitInv, InitTypes
<1>6. BlocksCut'
  BY <1>1, <1>2 DEF InitInv, BlocksCut
<1>7. BlocksPlaced'
  BY <1>1, <1>2, <1>3, <1>4 DEF InitInv, BlocksPlaced
<1>8. ChannelCounts' /\ FlushReady' /\ FaultsExplained'
  BY <1>1, <1>2, <1>3, <1>4 DEF InitInv, ChannelCounts, FlushReady, FaultsExplained
<1> QED BY <1>5, <1>6, <1>7, <1>8 DEF InitInv

\* zero_strm_block_new, of a stack the loop built.
LEMMA NewBlockOf ==
  ASSUME NEW n \in Nat, freeList = Descending(n)
  PROVE  /\ n = 0 => NewBlock = NULL /\ RestFree = Descending(n)
         /\ n > 0 => NewBlock = n - 1 /\ RestFree = Descending(n - 1)
BY DescendingList DEF NewBlock, RestFree

\* The receive channel starts on the first block.
LEMMA TakeDmaBlockKeeps == ASSUME InitInv, TakeDmaBlock PROVE InitInv'
<1>1. /\ initPc = "dma" /\ ~fault /\ dir = "read" /\ chIndex = chCnt
      /\ freeList = Descending(chCnt) /\ ptByteFifo = NULL /\ chCnt \in Nat /\ chCnt \in uint8
      /\ CNDTR = 0 /\ early = 0 /\ ~HTIF
  BY CountFits, InitAssumption
     DEF TakeDmaBlock, Runs, InitInv, BlocksCut, BlocksPlaced, ChannelCounts
<1>2. /\ chCnt' = chCnt /\ BuffCnt' = BuffCnt /\ NoRing' = NoRing /\ Needed' = Needed
      /\ ~fault' /\ dir' = dir /\ hwSize' = hwSize /\ chIndex' = chIndex
      /\ tSizeInByte' = tSizeInByte /\ ptByteFifo' = ptByteFifo /\ tByteFifo' = tByteFifo
      /\ HTIF' = HTIF /\ early' = early /\ fsmReady' = fsmReady /\ fault' = fault
      /\ initPc' = "ring" /\ ptByteFifoDmaRx' = NewBlock /\ freeList' = RestFree
  BY <1>1 DEF TakeDmaBlock, chCnt, WholeBlocks, BlockBytes, BuffCnt, NoRing, Needed, ringVars
<1>3. /\ chCnt = 0 => NewBlock = NULL /\ RestFree = Descending(chCnt)
      /\ chCnt > 0 => NewBlock = chCnt - 1 /\ RestFree = Descending(chCnt - 1)
  BY <1>1, NewBlockOf
<1>4. CNDTR' \in Nat /\ (CNDTR' > 0 => CNDTR' = READ_BUFF_CNT)
  <2>1. CASE chCnt = 0
    BY <1>1, <1>3, <2>1 DEF TakeDmaBlock
  <2>2. CASE chCnt > 0
    <3>1. chCnt - 1 \in 0 .. chIndex - 1 /\ chCnt - 1 \in uint8
      BY <1>1, <2>2, Words
    <3>2. chCnt - 1 # NULL
      BY <3>1, InitAssumption
    <3>3. tSizeInByte[chCnt - 1] = READ_BUFF_CNT
      BY <1>1, <3>1, <3>2 DEF InitInv, BlocksCut, BuffCnt
    <3> QED BY <1>1, <1>3, <2>2, <3>2, <3>3, InitAssumption DEF TakeDmaBlock, StartChannel
  <2> QED BY <1>1, <2>1, <2>2
<1>5. InitTypes'
  BY <1>2, <1>4 DEF InitInv, InitTypes
<1>6. BlocksCut'
  BY <1>1, <1>2 DEF InitInv, BlocksCut
<1>7. BlocksPlaced'
  BY <1>1, <1>2, <1>3 DEF InitInv, BlocksPlaced
<1>8. ChannelCounts'
  <2>1. READ_BUFF_CNT \in Nat
    BY InitAssumption
  <2>2. CNDTR' > 0 => CNDTR' + early' = READ_BUFF_CNT
    BY <1>1, <1>2, <1>4, <2>1
  <2>3. ~HTIF' /\ dir' = "read" /\ initPc' = "ring"
    BY <1>1, <1>2
  <2> QED BY <2>2, <2>3 DEF ChannelCounts
<1>9. FlushReady' /\ FaultsExplained'
  BY <1>2 DEF FlushReady, FaultsExplained
<1> QED BY <1>5, <1>6, <1>7, <1>8, <1>9 DEF InitInv

\* The ring over the next block, or NULL dereferenced for want of one.
LEMMA TakeRingBlockKeeps == ASSUME InitInv, TakeRingBlock PROVE InitInv'
<1>1. /\ initPc = "ring" /\ ~fault /\ chIndex = chCnt /\ dir \in {"read", "write"}
      /\ ptByteFifo = NULL /\ tByteFifo = NoRing /\ chCnt \in Nat /\ chCnt \in uint8
      /\ BuffCnt \in Nat \ {0} /\ Needed \in {1, 2}
      /\ tSizeInByte \in [uint8 -> Nat]
  BY CountFits DEF TakeRingBlock, Runs, InitInv, InitTypes, BlocksCut, BlocksPlaced
<1>2. /\ chCnt' = chCnt /\ BuffCnt' = BuffCnt /\ NoRing' = NoRing /\ Needed' = Needed
      /\ dir' = dir /\ hwSize' = hwSize /\ chIndex' = chIndex
      /\ ptByteFifoDmaRx' = ptByteFifoDmaRx /\ CNDTR' = CNDTR
      /\ HTIF' = HTIF /\ early' = early /\ fsmReady' = fsmReady
      /\ initPc' = "fsm" /\ ptByteFifo' = NewBlock /\ freeList' = RestFree
  BY <1>1 DEF TakeRingBlock, chCnt, WholeBlocks, BlockBytes, BuffCnt, NoRing, Needed, dmaVars
<1> DEFINE left == IF dir = "read" /\ chCnt > 0 THEN chCnt - 1 ELSE chCnt
<1>3. left \in Nat /\ freeList = Descending(left)
  BY <1>1 DEF InitInv, BlocksPlaced
<1>4. /\ left = 0 => NewBlock = NULL
      /\ left > 0 => NewBlock = left - 1 /\ RestFree = Descending(left - 1)
  BY <1>3, NewBlockOf
<1>5. /\ dir = "write" => left = chCnt /\ Needed = 1
      /\ dir = "read" => Needed = 2 /\ (left > 0 => left = chCnt - 1)
      /\ dir = "read" /\ left = 0 => chCnt < 2
  BY <1>1 DEF Needed
<1> HIDE DEF left
<1>6. ChannelCounts'
  BY <1>1, <1>2 DEF InitInv, ChannelCounts
<1>7. CASE left = 0
  <2>1. fault' /\ UNCHANGED <<tByteFifo, tSizeInByte>>
    BY <1>4, <1>7 DEF TakeRingBlock
  <2>2. chCnt < Needed
    BY <1>1, <1>5, <1>7
  <2>3. InitTypes'
    BY <1>2, <2>1 DEF InitInv, InitTypes
  <2>4. BlocksCut'
    BY <1>1, <1>2, <1>4, <1>7, <2>1 DEF InitInv, BlocksCut
  <2>5. BlocksPlaced' /\ FlushReady' /\ FaultsExplained'
    BY <1>1, <1>2, <2>1, <2>2 DEF BlocksPlaced, FlushReady, FaultsExplained
  <2> QED BY <1>6, <2>3, <2>4, <2>5 DEF InitInv
<1>8. CASE left > 0
  <2> DEFINE b == left - 1
  <2>1. /\ NewBlock = b /\ b \in Nat /\ b = chCnt - Needed /\ chCnt >= Needed
        /\ b \in 0 .. chIndex - 1 /\ RestFree = Descending(chCnt - Needed)
    BY <1>1, <1>3, <1>4, <1>5, <1>8
  <2>2. b \in uint8 /\ b # NULL
    <3>1. b < 256
      BY <1>1, <2>1, Words
    <3> QED BY <2>1, <3>1, Words, InitAssumption
  <2> HIDE DEF b
  <2>3. tSizeInByte[b] = BuffCnt
    BY <1>1, <2>1, <2>2 DEF InitInv, BlocksCut
  <2>4. /\ tByteFifo' = InitEmpty(tByteFifo, b, BuffCnt)
        /\ tSizeInByte' = IF dir = "write" THEN [tSizeInByte EXCEPT ![b] = 0] ELSE tSizeInByte
        /\ fault' = fault
    BY <2>1, <2>2, <2>3 DEF TakeRingBlock
  <2>5. tByteFifo' = [NoRing EXCEPT !.pchBuffer = ptByteFifo', !.hwSize = BuffCnt']
    <3>1. tByteFifo' = [pchBuffer |-> b, hwSize |-> BuffCnt, hwHead |-> 0, hwTail |-> 0,
                        hwLength |-> 0]
      BY <1>1, <2>4 DEF InitEmpty
    <3>2. \A x, y : [NoRing EXCEPT !.pchBuffer = x, !.hwSize = y]
                     = [pchBuffer |-> x, hwSize |-> y, hwHead |-> 0, hwTail |-> 0,
                        hwLength |-> 0]
      <4>1. ASSUME NEW x, NEW y
            PROVE  [[NoRing EXCEPT !.pchBuffer = x] EXCEPT !.hwSize = y]
                     = [pchBuffer |-> x, hwSize |-> y, hwHead |-> 0, hwTail |-> 0,
                        hwLength |-> 0]
        <5>1. [NoRing EXCEPT !.pchBuffer = x]
                = [pchBuffer |-> x, hwSize |-> 0, hwHead |-> 0, hwTail |-> 0, hwLength |-> 0]
          BY DEF NoRing
        <5>2. [[pchBuffer |-> x, hwSize |-> 0, hwHead |-> 0, hwTail |-> 0, hwLength |-> 0]
                 EXCEPT !.hwSize = y]
                = [pchBuffer |-> x, hwSize |-> y, hwHead |-> 0, hwTail |-> 0, hwLength |-> 0]
          OBVIOUS
        <5> QED BY <5>1, <5>2
      <4> QED BY <4>1
    <3>3. ptByteFifo' = b /\ BuffCnt' = BuffCnt
      BY <1>2, <2>1
    <3> QED BY <3>1, <3>2, <3>3
  <2>6. InitTypes'
    BY <1>1, <1>2, <2>2, <2>4 DEF InitInv, InitTypes
  <2>7. BlocksCut'
    <3>1. ASSUME NEW d \in 0 .. chIndex - 1
          PROVE  tSizeInByte'[d] = IF dir = "write" /\ d = b THEN 0 ELSE BuffCnt
      <4>1. d < 256 /\ d \in Nat
        BY <1>1, Words
      <4>2. d \in uint8 /\ d # NULL
        BY <4>1, Words, InitAssumption
      <4>3. tSizeInByte[d] = BuffCnt
        BY <1>1, <4>2 DEF InitInv, BlocksCut
      <4> QED BY <1>1, <2>2, <2>4, <4>2, <4>3
    <3> QED BY <1>1, <1>2, <2>1, <3>1 DEF BlocksCut
  <2>8. dir = "read" => ptByteFifoDmaRx = chCnt - 1
    BY <1>1, <1>5, <1>8, <2>1 DEF InitInv, BlocksPlaced
  <2>9. BlocksPlaced'
    BY <1>2, <2>1, <2>5, <2>8 DEF BlocksPlaced
  <2>10. FlushReady' /\ FaultsExplained'
    BY <1>1, <1>2, <2>4 DEF FlushReady, FaultsExplained
  <2> QED BY <1>6, <2>6, <2>7, <2>9, <2>10 DEF InitInv
<1> QED BY <1>3, <1>7, <1>8

\* The FSM objects, the receiver's flush first.
LEMMA InitFsmKeeps == ASSUME InitInv, InitFsm PROVE InitInv'
<1>1. /\ initPc = "fsm" /\ ~fault /\ dir \in {"read", "write"}
  BY DEF InitFsm, Runs, InitInv, InitTypes
<1>2. /\ chCnt' = chCnt /\ BuffCnt' = BuffCnt /\ NoRing' = NoRing /\ Needed' = Needed
      /\ dir' = dir /\ hwSize' = hwSize /\ chIndex' = chIndex /\ freeList' = freeList
      /\ tSizeInByte' = tSizeInByte /\ ptByteFifo' = ptByteFifo /\ tByteFifo' = tByteFifo
      /\ ptByteFifoDmaRx' = ptByteFifoDmaRx /\ CNDTR' = CNDTR
      /\ HTIF' = HTIF /\ early' = early /\ fault' = fault
  BY DEF InitFsm, chCnt, WholeBlocks, BlockBytes, BuffCnt, NoRing, Needed, poolVars, ringVars,
         dmaVars
<1>3. /\ initPc' \in {"fsm", "done"}
      /\ initPc' = "done" /\ dir = "read" => "fsmFlushHt" \in fsmReady'
  <2>1. PICK i \in 1 .. Len(FsmOrder) :
          /\ fsmReady = {FsmOrder[j] : j \in 1 .. i - 1}
          /\ fsmReady' = fsmReady \union {FsmOrder[i]}
          /\ initPc' = IF i = Len(FsmOrder) THEN "done" ELSE "fsm"
    BY DEF InitFsm
  <2>2. dir = "read" => FsmOrder[1] = "fsmFlushHt" /\ Len(FsmOrder) = 3
    BY DEF FsmOrder
  <2>3. initPc' = "done" => i = Len(FsmOrder)
    BY <2>1
  <2>4. ASSUME initPc' = "done", dir = "read" PROVE "fsmFlushHt" \in fsmReady'
    <3>1. i = 3
      BY <2>2, <2>3, <2>4
    <3>2. 1 \in 1 .. i - 1
      BY <3>1
    <3> QED BY <2>1, <2>2, <2>4, <3>2
  <2> QED BY <2>1, <2>4
<1>4. InitTypes' /\ BlocksCut'
  BY <1>1, <1>2, <1>3 DEF InitInv, InitTypes, BlocksCut
<1>5. BlocksPlaced'
  BY <1>1, <1>2, <1>3 DEF InitInv, BlocksPlaced
<1>6. ChannelCounts' /\ FlushReady' /\ FaultsExplained'
  BY <1>1, <1>2, <1>3 DEF InitInv, ChannelCounts, FlushReady, FaultsExplained
<1> QED BY <1>4, <1>5, <1>6 DEF InitInv

\* Bytes that come in before the initialiser is done.
LEMMA ByteArrivesKeeps == ASSUME InitInv, ByteArrives PROVE InitInv'
<1>1. /\ ~fault /\ CNDTR \in Nat \ {0} /\ early \in Nat /\ READ_BUFF_CNT \in Nat \ {0, 1}
      /\ CNDTR + early = READ_BUFF_CNT /\ dir = "read" /\ initPc \notin {"carve", "dma"}
  BY InitAssumption DEF ByteArrives, InitInv, InitTypes, ChannelCounts
<1>2. /\ chCnt' = chCnt /\ BuffCnt' = BuffCnt /\ NoRing' = NoRing /\ Needed' = Needed
      /\ dir' = dir /\ hwSize' = hwSize /\ initPc' = initPc /\ chIndex' = chIndex
      /\ freeList' = freeList /\ tSizeInByte' = tSizeInByte /\ ptByteFifo' = ptByteFifo
      /\ tByteFifo' = tByteFifo /\ ptByteFifoDmaRx' = ptByteFifoDmaRx
      /\ fsmReady' = fsmReady /\ fault' = fault
  BY DEF ByteArrives, chCnt, WholeBlocks, BlockBytes, BuffCnt, NoRing, Needed, poolVars, ringVars
<1>3. /\ CNDTR' = CNDTR - 1 /\ early' = early + 1
      /\ HTIF' = (HTIF \/ CNDTR' = READ_BUFF_CNT \div 2)
  BY DEF ByteArrives
<1>4. InitTypes'
  <2>1. HTIF' \in BOOLEAN
    BY <1>3 DEF InitInv, InitTypes
  <2>2. CNDTR' \in Nat /\ early' \in Nat
    BY <1>1, <1>3
  <2> QED BY <1>2, <2>1, <2>2 DEF InitInv, InitTypes
<1>5. BlocksCut' /\ BlocksPlaced'
  BY <1>2 DEF InitInv, BlocksCut, BlocksPlaced
<1>6. ChannelCounts'
  <2>1. CNDTR' + early' = READ_BUFF_CNT
    BY <1>1, <1>3
  <2>2. HTIF => early >= READ_BUFF_CNT - READ_BUFF_CNT \div 2
    BY DEF InitInv, ChannelCounts
  <2>3. READ_BUFF_CNT \div 2 \in Nat
    BY <1>1
  <2>4. HTIF' => early' >= READ_BUFF_CNT - READ_BUFF_CNT \div 2
    <3>1. CASE HTIF
      BY <1>1, <1>3, <2>2, <2>3, <3>1
    <3>2. CASE CNDTR' = READ_BUFF_CNT \div 2
      BY <1>1, <1>3, <2>1, <2>3, <3>2
    <3> QED BY <1>3, <3>1, <3>2
  <2> QED BY <1>1, <1>2, <2>1, <2>4 DEF ChannelCounts
<1>7. FlushReady' /\ FaultsExplained'
  BY <1>1, <1>2 DEF InitInv, FlushReady, FaultsExplained
<1> QED BY <1>4, <1>5, <1>6, <1>7 DEF InitInv

\* The half-transfer interrupt on a flush FSM not ready: half a block has come in.
LEMMA DmaHalfIrqKeeps == ASSUME InitInv, DmaHalfIrq PROVE InitInv'
<1>1. /\ ~fault /\ fault' /\ dir = "read" /\ initPc # "done"
      /\ early >= READ_BUFF_CNT - READ_BUFF_CNT \div 2
  BY DEF DmaHalfIrq, InitInv, ChannelCounts, FlushReady
<1>2. /\ chCnt' = chCnt /\ BuffCnt' = BuffCnt /\ NoRing' = NoRing /\ Needed' = Needed
      /\ dir' = dir /\ hwSize' = hwSize /\ initPc' = initPc /\ chIndex' = chIndex
      /\ freeList' = freeList /\ tSizeInByte' = tSizeInByte /\ ptByteFifo' = ptByteFifo
      /\ tByteFifo' = tByteFifo /\ ptByteFifoDmaRx' = ptByteFifoDmaRx
      /\ CNDTR' = CNDTR /\ HTIF' = HTIF /\ early' = early /\ fsmReady' = fsmReady
  BY DEF DmaHalfIrq, chCnt, WholeBlocks, BlockBytes, BuffCnt, NoRing, Needed, poolVars, ringVars,
         dmaVars
<1>3. fault' = TRUE
  BY DEF DmaHalfIrq
<1>4. InitTypes' /\ BlocksCut' /\ BlocksPlaced'
  BY <1>1, <1>2, <1>3 DEF InitInv, InitTypes, BlocksCut, BlocksPlaced
<1>5. ChannelCounts' /\ FlushReady' /\ FaultsExplained'
  BY <1>1, <1>2 DEF InitInv, ChannelCounts, FlushReady, FaultsExplained
<1> QED BY <1>4, <1>5 DEF InitInv

LEMMA InitStepKeeps == ASSUME InitInv, [InitNext]_initVars PROVE InitInv'
<1>1. CASE UNCHANGED initVars
  <2>1. /\ dir' = dir /\ hwSize' = hwSize /\ initPc' = initPc /\ chIndex' = chIndex
        /\ freeList' = freeList /\ tSizeInByte' = tSizeInByte /\ ptByteFifo' = ptByteFifo
        /\ tByteFifo' = tByteFifo /\ ptByteFifoDmaRx' = ptByteFifoDmaRx
        /\ CNDTR' = CNDTR /\ HTIF' = HTIF /\ early' = early /\ fsmReady' = fsmReady
        /\ fault' = fault
    BY <1>1 DEF initVars, poolVars, ringVars, dmaVars
  <2>2. chCnt' = chCnt /\ BuffCnt' = BuffCnt /\ NoRing' = NoRing /\ Needed' = Needed
    BY <2>1 DEF chCnt, WholeBlocks, BlockBytes, BuffCnt, NoRing, Needed
  <2> QED BY <2>1, <2>2 DEF InitInv, InitTypes, BlocksCut, BlocksPlaced, ChannelCounts,
                            FlushReady, FaultsExplained
<1> QED BY <1>1, CarveBlockKeeps, CarveDoneKeeps, TakeDmaBlockKeeps, TakeRingBlockKeeps,
           InitFsmKeeps, ByteArrivesKeeps, DmaHalfIrqKeeps DEF InitNext, InitStep

THEOREM InitAlways == InitSpec => []InitInv
<1>1. InitInv /\ [InitNext]_initVars => InitInv'
  BY InitStepKeeps
<1> QED BY InitStarts, <1>1, PTL DEF InitSpec

\* What the two lists of blocks hold in the end.
LEMMA InvIsReady == InitInv => BlocksReady
<1> SUFFICES ASSUME InitInv, initPc = "done" PROVE BlocksReady
  BY DEF BlocksReady
<1>1. /\ dir \in {"read", "write"} /\ ~fault /\ chIndex = chCnt /\ chCnt \in Nat
      /\ Needed = (IF dir = "write" THEN 1 ELSE 2) /\ chCnt >= Needed
      /\ freeList = Descending(chCnt - Needed) /\ ptByteFifo = chCnt - Needed
      /\ (dir = "read" => ptByteFifoDmaRx = chCnt - 1)
      /\ tByteFifo = [NoRing EXCEPT !.pchBuffer = ptByteFifo, !.hwSize = BuffCnt]
  BY CountFits DEF InitInv, InitTypes, BlocksCut, BlocksPlaced, FlushReady, Needed
<1> DEFINE used == IF dir = "write" THEN <<ptByteFifo>> ELSE <<ptByteFifoDmaRx, ptByteFifo>>
<1> DEFINE Push(n) == <<n>> \o Descending(n) = Descending(n + 1) /\ Descending(n) \in Seq(Nat)
<1>2. \A n \in Nat : Push(n)
  BY DescendingList
<1>3. used \o freeList = Descending(chCnt)
  <2>1. CASE dir = "write"
    <3>1. Push(chCnt - 1)
      <4>1. chCnt - 1 \in Nat
        BY <1>1, <2>1
      <4> HIDE DEF Push
      <4> QED BY <1>2, <4>1
    <3>2. (chCnt - 1) + 1 = chCnt
      BY <1>1
    <3> QED BY <1>1, <2>1, <3>1, <3>2
  <2>2. CASE dir = "read"
    <3>1. PICK k \in Nat : k = chCnt - 2
      BY <1>1, <2>2
    <3>2. /\ <<k>> \o Descending(k) = Descending(k + 1) /\ Descending(k) \in Seq(Nat)
          /\ <<k + 1>> \o Descending(k + 1) = Descending((k + 1) + 1)
      <4>1. k + 1 \in Nat
        OBVIOUS
      <4> QED BY <1>2, <4>1
    <3>3. used = <<k + 1, k>> /\ freeList = Descending(k) /\ (k + 1) + 1 = chCnt
      BY <1>1, <2>2, <3>1
    <3>4. <<k + 1, k>> \o Descending(k) = <<k + 1>> \o (<<k>> \o Descending(k))
      <4>1. PICK d \in Seq(Nat) : d = Descending(k)
        BY <3>2
      <4>2. k + 1 \in Nat
        OBVIOUS
      <4>3. <<k + 1, k>> \o d = <<k + 1>> \o (<<k>> \o d)
        BY <4>2
      <4> QED BY <4>1, <4>3
    <3> QED BY <3>2, <3>3, <3>4
  <2> QED BY <1>1, <2>1, <2>2
<1> HIDE DEF used
<1>4. ASSUME NEW b \in Elems(used \o freeList) PROVE (b + 1) * BlockBytes <= hwSize
  <2>1. b \in 0 .. chCnt - 1
    <3>1. PICK i \in 1 .. Len(Descending(chCnt)) : b = Descending(chCnt)[i]
      BY <1>3, <1>4 DEF Elems
    <3> QED BY <1>1, <3>1, DescendingList DEF Descending
  <2> QED BY <2>1, CountFits DEF InitInv
<1>5. used \o freeList = [i \in 1 .. chCnt |-> chCnt - i]
  BY <1>3 DEF Descending
<1>6. \A b \in 0 .. chCnt - 1 :
        tSizeInByte[b] = IF dir = "write" /\ b = ptByteFifo THEN 0 ELSE BuffCnt
  BY <1>1 DEF InitInv, BlocksCut
<1> QED BY <1>1, <1>4, <1>5, <1>6 DEF BlocksReady, used

\* The initialisers, for buffers of any size: when they return, every block counted
\* is in the pool or in use, none reaches past the end of the buffer, and the object
\* is as the streams begin; NULL is dereferenced only for want of blocks, or when
\* half a block came in before the flush FSM was ready.
THEOREM InitAlwaysEnds == InitSpec => []InitOutcome
<1>1. InitInv => InitOutcome
  BY InvIsReady DEF InitInv, InitOutcome
<1> QED BY <1>1, InitAlways, PTL
=============================================================================
