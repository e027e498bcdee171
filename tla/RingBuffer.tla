----------------------------- MODULE RingBuffer -----------------------------
(***************************************************************************)
(* struct ring_buffer (src/src/RingBuffer.h) together with the two         *)
(* functions of PipeProcess.cpp through which all bytes of a child process *)
(* pass: readToRing fills the ring from a pipe, readFromRing empties it    *)
(* into a QIODevice.                                                       *)
(*                                                                         *)
(* The indices run over twice the size of the buffer, so that a full ring  *)
(* and an empty one differ.  size is a power of two (ring_buffer_init      *)
(* refuses any other), therefore "& low_mask" is "% Size" and              *)
(* "& high_mask" is "% (2 * Size)", also when uint32_t subtraction wraps   *)
(* or a negative number is added.  Elsewhere a uint32_t keeps its width:   *)
(* "% Word".                                                               *)
(*                                                                         *)
(* A device whose client has left refuses every write: QIODevice::write    *)
(* returns -1, and readFromRing adds it to the bytes it has done, as if it *)
(* were a number of bytes.                                                 *)
(***************************************************************************)
EXTENDS Integers, Sequences

CONSTANTS
  Size,          \* ring_buffer.size
  Byte,          \* the values a byte takes
  Word,          \* 2^32: a uint32_t is below it
  OneRead        \* the most bytes one read(2) of the pipe yields

ASSUME SizeAssumption == Size \in Nat \ {0}
ASSUME ByteAssumption == Byte # {}
ASSUME WordAssumption == Word \in Nat /\ Word >= 2 * Size /\ Word % (2 * Size) = 0
ASSUME OneReadAssumption == OneRead \in Nat \ {0}

VARIABLES
  write_idx,
  read_idx,
  data,          \* the memory at data_ptr
  out,           \* what the last readFromRing got into the device
  gone           \* the device has lost its client, for good

ring_vars == << write_idx, read_idx, data, out, gone >>

Slots == 0..(Size - 1)
Indices == 0..(2 * Size - 1)

used_size == (write_idx - read_idx) % (2 * Size)
(* Faults: full and empty told apart by the low mask; the read index       *)
(* masked as if it were a slot.                                            *)
Fault_free_size == Size - ((write_idx - read_idx) % Size)
Fault_read_advance(n) == read_idx' = (read_idx + n) % Size

free_size == (Size - used_size) % Word

write_advance(n) == write_idx' = (write_idx + n) % (2 * Size)
read_advance(n)  == read_idx'  = (read_idx + n) % (2 * Size)

(* The bottom half of a transfer of n bytes that starts at slot idx; the   *)
(* rest of it, the top half, continues at slot 0.                          *)
FirstHalf(idx, n) == IF (idx + n) % Word > Size THEN Size - idx ELSE n

write_slot == write_idx % Size
read_slot  == read_idx % Size

-----------------------------------------------------------------------------
RingInit ==
  /\ write_idx = 0
  /\ read_idx = 0
  /\ data \in [Slots -> Byte]      \* fresh memory: any contents
  /\ out = << >>
  /\ gone = FALSE

(* One turn of the loop of readToRing: read(2) puts between one byte and   *)
(* sz1 bytes into the bottom half of the free space.  What it puts behind  *)
(* the memory, if free_size says more than there is, is not followed.      *)
readToRing(burst) ==
  /\ free_size # 0
  /\ LET n == Len(burst)
     IN  /\ n \in 1..FirstHalf(write_slot, free_size)
         /\ data' = [j \in Slots |-> IF j \in write_slot..(write_slot + n - 1)
                                     THEN burst[j - write_slot + 1]
                                     ELSE data[j]]
         /\ write_advance(n)
  /\ UNCHANGED << read_idx, out, gone >>

(* readFromRing for sz bytes.  Each half is one write to the device, which *)
(* takes all of it (a buffer; a connected socket, which buffers) or, once  *)
(* its client has gone, none.  The client may go between the two writes.   *)
readFromRing(sz) ==
  LET n     == IF sz < used_size THEN sz ELSE used_size
      sz1   == FirstHalf(read_slot, n)
      first == IF gone THEN -1 ELSE sz1
      rest  == IF sz1 = n THEN 0 ELSE IF gone' THEN -1 ELSE n - sz1
      taken == IF gone THEN 0 ELSE IF gone' THEN sz1 ELSE n
  IN  /\ n # 0
      /\ gone' \in (IF sz1 = n THEN {gone} ELSE {gone, TRUE})
      /\ out' = [i \in 1..taken |-> IF i <= sz1 THEN data[read_slot + i - 1]
                                                ELSE data[i - sz1 - 1]]
      /\ read_advance(first + rest)
      /\ UNCHANGED << write_idx, data >>

(* The client of the device leaves.                                        *)
DeviceGoes ==
  /\ gone' = TRUE
  /\ UNCHANGED << write_idx, read_idx, data, out >>

Bursts == UNION { [1..n -> Byte] : n \in 1..OneRead }

RingNext ==
  \/ \E burst \in Bursts : readToRing(burst)
  \/ \E sz \in 1..(2 * Size) : readFromRing(sz)
  \/ DeviceGoes

RingSpec == RingInit /\ [][RingNext]_ring_vars
-----------------------------------------------------------------------------
RingTypeOK ==
  /\ write_idx \in Indices
  /\ read_idx \in Indices
  /\ data \in [Slots -> Byte]
  /\ out \in UNION { [1..n -> Byte] : n \in 0..Size }
  /\ gone \in BOOLEAN

(* While its device takes what it is given, the ring never claims to hold  *)
(* more bytes than its memory has room for.                                *)
NeverOverfull == ~gone => used_size <= Size

(* The bytes the ring holds, oldest first.                                 *)
Contents == [i \in 1..used_size |-> data[(read_idx + i - 1) % Size]]

(* The index arithmetic and the two-part transfers implement a bounded     *)
(* FIFO, as long as the device has its client: every byte read from the    *)
(* pipe is handed to the device once, in order, and unread bytes are never *)
(* overwritten; and nothing more is handed over once the client has gone.  *)
Fifo == INSTANCE BoundedFifo WITH Capacity <- Size, queue <- Contents
RingIsFifo == Fifo!Spec

(* RingBuffer.h:68 says that ring_buffer_free_size returns the "size       *)
(* available for write", hence no more than the memory has.  A write that  *)
(* the device of a full ring refuses moves the read index back: the used   *)
(* size passes Size, and the free size wraps to nearly 2^32.               *)
FreeSizeIsRoom == free_size <= Size
=============================================================================
