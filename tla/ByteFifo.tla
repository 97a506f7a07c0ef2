------------------------------ MODULE ByteFifo ------------------------------
(***************************************************************************)
(* The byte ring of src/common/byte_fifo: operators over its descriptor    *)
(* byte_fifo_t.  pchBuffer names the memory the ring runs over (a block    *)
(* of the pool, or any other tag); the bytes themselves are kept by the    *)
(* client, which writes at hwTail before Enqueued and reads at hwHead      *)
(* before Dequeued.  Bad... operators are faulty variants nothing uses.    *)
(***************************************************************************)
LOCAL INSTANCE Naturals

ByteFifoType(Buffers, MaxSize) ==
  [pchBuffer : Buffers, hwSize : 0 .. MaxSize, hwHead : 0 .. MaxSize,
   hwTail : 0 .. MaxSize, hwLength : 0 .. MaxSize]

\* zero_strm_init_byte_fifo_empty: a zero size is refused, the ring stays as it was.
InitEmpty(ring, buffer, size) ==
  IF size = 0 THEN ring
  ELSE [pchBuffer |-> buffer, hwSize |-> size,
        hwHead |-> 0, hwTail |-> 0, hwLength |-> 0]

\* zero_strm_init_byte_fifo_full: the buffer already holds size bytes.
InitFull(ring, buffer, size) ==
  IF size = 0 THEN ring
  ELSE [pchBuffer |-> buffer, hwSize |-> size,
        hwHead |-> 0, hwTail |-> 0, hwLength |-> size]

\* head = tail is ambiguous; hwLength tells a full ring from an empty one.
BadIsFull(ring) == ring.hwLength + 1 >= ring.hwSize
IsFull(ring)  == ring.hwHead = ring.hwTail /\ ring.hwLength # 0
IsEmpty(ring) == ring.hwHead = ring.hwTail /\ ring.hwLength = 0

\* An index past the end goes back to 0.
BadWrapped(ring, index) == IF index + 1 > ring.hwSize THEN 0 ELSE index + 1
Wrapped(ring, index) == IF index + 1 >= ring.hwSize THEN 0 ELSE index + 1

\* The descriptor after a byte was stored at hwTail (the ring was not full).
Enqueued(ring) ==
  [ring EXCEPT !.hwTail = Wrapped(ring, @), !.hwLength = @ + 1]

\* The descriptor after a byte was taken from hwHead (the ring was not empty).
Dequeued(ring) ==
  [ring EXCEPT !.hwHead = Wrapped(ring, @), !.hwLength = @ - 1]
=============================================================================
