-------------------------- MODULE TranscodingProofs --------------------------
(***************************************************************************)
(* The way of a transcoded film: the ring, the child processes, and the    *)
(* transcoder that has one of each.                                        *)
(*                                                                         *)
(* RingBuffer, for every size of the ring, every set of byte values and    *)
(* every width of the machine's words: the indices stay in range, also     *)
(* after refused writes; and the ring is not overfull and implements the   *)
(* bounded FIFO as long as its device takes what it is given.              *)
(*                                                                         *)
(* PipeProcess, for any number of objects, threads and pids: the mutex     *)
(* keeps the calls and the signal handlers apart, and therefore the        *)
(* registry is right, kill() hits no stranger and starts and finishes      *)
(* balance.                                                                *)
(*                                                                         *)
(* MencoderTranscoder, which takes the ring for such a FIFO and the child  *)
(* for such a process, for all thresholds, ring and pipe sizes.  Its first *)
(* lemmas say what one call of process() does to the bytes in the ring and *)
(* in the socket; every handler that calls it is then a matter of          *)
(* regrouping one stream.                                                  *)
(***************************************************************************)
EXTENDS RingBuffer, PipeProcess, MencoderTranscoder, FiniteSetTheorems,
        SequenceTheorems, TLAPS

-----------------------------------------------------------------------------
(* The ring (RingBuffer).                                                  *)


(* The distance between two indices, without a remainder.                  *)
LEMMA Distance ==
  ASSUME NEW w \in Indices, NEW r \in Indices
  PROVE  /\ (w - r) % (2 * Size) = IF w >= r THEN w - r ELSE w - r + 2 * Size
         /\ (w - r) % (2 * Size) \in Indices
  <1>1. (w - r) % (2 * Size) = IF w >= r THEN w - r ELSE w - r + 2 * Size
    BY SizeAssumption DEF Indices
  <1>2. QED
    BY <1>1, SizeAssumption DEF Indices

(* An index moved by any distance.                                         *)
LEMMA Moved ==
  ASSUME NEW i \in Indices, NEW n \in Int
  PROVE  (i + n) % (2 * Size) \in Indices
  <1>1. i + n \in Int /\ 2 * Size \in Nat /\ 2 * Size > 0
    BY SizeAssumption DEF Indices
  <1>2. \A a \in Int, m \in Nat : m > 0 => a % m \in 0..(m - 1)
    OBVIOUS
  <1>3. QED
    BY <1>1, <1>2 DEF Indices

(* An index moved forward by at most the size of the memory.               *)
LEMMA Forward ==
  ASSUME NEW i \in Indices, NEW n \in 1..Size
  PROVE  /\ (i + n) % (2 * Size) = IF i + n < 2 * Size THEN i + n
                                                       ELSE i + n - 2 * Size
         /\ (i + n) % (2 * Size) \in Indices
  <1>1. (i + n) % (2 * Size) = IF i + n < 2 * Size THEN i + n
                                                   ELSE i + n - 2 * Size
    BY SizeAssumption DEF Indices
  <1>2. QED
    BY <1>1, SizeAssumption DEF Indices

(* The bytes held are the distance from read_idx to write_idx.             *)
LEMMA UsedSize ==
  ASSUME RingTypeOK
  PROVE  /\ used_size = IF write_idx >= read_idx
                        THEN write_idx - read_idx
                        ELSE write_idx - read_idx + 2 * Size
         /\ used_size \in Indices
  <1>1. used_size = IF write_idx >= read_idx
                    THEN write_idx - read_idx
                    ELSE write_idx - read_idx + 2 * Size
    BY Distance DEF RingTypeOK, used_size
  <1>2. QED
    BY <1>1, SizeAssumption DEF RingTypeOK, Indices

(* A half of a transfer is never empty, never longer than the transfer and *)
(* stays inside the memory.                                                *)
LEMMA FirstHalfFits ==
  ASSUME NEW idx \in Slots, NEW n \in 1..Size
  PROVE  /\ FirstHalf(idx, n) = IF idx + n > Size THEN Size - idx ELSE n
         /\ FirstHalf(idx, n) \in 1..n
         /\ idx + FirstHalf(idx, n) <= Size
  <1>1. idx + n \in Nat /\ idx + n < Word
    BY SizeAssumption, WordAssumption DEF Slots
  <1>2. (idx + n) % Word = idx + n
    BY <1>1, WordAssumption
  <1>3. QED
    BY <1>2, SizeAssumption DEF Slots, FirstHalf

(* While no more is used than there is, the free size is the rest.         *)
LEMMA FreeSize ==
  ASSUME RingTypeOK, used_size <= Size
  PROVE  free_size = Size - used_size /\ free_size \in 0..Size
  <1>1. used_size \in 0..Size
    BY UsedSize, SizeAssumption DEF Indices
  <1>2. Size - used_size \in 0..Size /\ Size < Word
    BY <1>1, SizeAssumption, WordAssumption
  <1>3. (Size - used_size) % Word = Size - used_size
    BY <1>2, WordAssumption, SizeAssumption
  <1>4. QED
    BY <1>2, <1>3 DEF free_size

(* A slot is the index, or the index less one turn of the memory.          *)
LEMMA SlotOfIndex ==
  ASSUME NEW i \in Indices
  PROVE  /\ i % Size = IF i < Size THEN i ELSE i - Size
         /\ i % Size \in Slots
  <1>1. i % Size = IF i < Size THEN i ELSE i - Size
    BY SizeAssumption DEF Indices
  <1>2. QED
    BY <1>1, SizeAssumption DEF Indices, Slots

(* The slot that lies i - 1 places after an index.                         *)
LEMMA SlotAfter ==
  ASSUME NEW r \in Indices, NEW i \in 1..Size
  PROVE  (r + i - 1) % Size = IF r + i - 1 < Size THEN r + i - 1
                              ELSE IF r + i - 1 < 2 * Size
                                   THEN r + i - 1 - Size
                                   ELSE r + i - 1 - 2 * Size
  <1>1. CASE r + i - 1 < 2 * Size
    BY <1>1, SizeAssumption DEF Indices
  <1>2. CASE ~(r + i - 1 < 2 * Size)
    <2>1. (r + i - 1) % Size = r + i - 1 - 2 * Size
      BY <1>2, SizeAssumption DEF Indices
    <2>2. QED
      BY <1>2, <2>1, SizeAssumption DEF Indices
  <1>3. QED
    BY <1>1, <1>2

(* The slot of the i-th unread byte, from the slot of the first.           *)
LEMMA SlotOfByte ==
  ASSUME RingTypeOK, NEW i \in 1..Size
  PROVE  (read_idx + i - 1) % Size = IF read_slot + i - 1 < Size
                                     THEN read_slot + i - 1
                                     ELSE read_slot + i - 1 - Size
  <1>1. read_idx \in Indices
    BY DEF RingTypeOK
  <1>2. read_slot = IF read_idx < Size THEN read_idx ELSE read_idx - Size
    BY <1>1, SlotOfIndex DEF read_slot
  <1>3. QED
    BY <1>1, <1>2, SlotAfter, SizeAssumption DEF Indices

(* Writing n free bytes makes n more used, and leaves every index legal.   *)
LEMMA WriteAdvance ==
  ASSUME RingTypeOK, used_size <= Size, NEW n \in 1..free_size,
         write_advance(n), read_idx' = read_idx
  PROVE  /\ write_idx' \in Indices
         /\ used_size' = used_size + n
  <1>1. n \in 1..Size /\ n <= Size - used_size
    BY UsedSize, FreeSize, SizeAssumption DEF Indices
  <1>2. /\ write_idx' = IF write_idx + n < 2 * Size
                        THEN write_idx + n ELSE write_idx + n - 2 * Size
        /\ write_idx' \in Indices
    BY <1>1, Forward DEF RingTypeOK, write_advance
  <1>3. used_size' = IF write_idx' >= read_idx
                     THEN write_idx' - read_idx
                     ELSE write_idx' - read_idx + 2 * Size
    BY <1>2, Distance DEF RingTypeOK, used_size
  <1>4. QED
    BY <1>1, <1>2, <1>3, UsedSize, SizeAssumption DEF RingTypeOK, Indices

(* Reading n used bytes makes n fewer used, and leaves every index legal.  *)
LEMMA ReadAdvance ==
  ASSUME RingTypeOK, used_size <= Size, NEW n \in 1..used_size,
         read_advance(n), write_idx' = write_idx
  PROVE  /\ read_idx' \in Indices
         /\ used_size' = used_size - n
         /\ read_idx' = IF read_idx + n < 2 * Size
                        THEN read_idx + n ELSE read_idx + n - 2 * Size
  <1>1. n \in 1..Size
    BY UsedSize, SizeAssumption DEF Indices
  <1>2. /\ read_idx' = IF read_idx + n < 2 * Size
                       THEN read_idx + n ELSE read_idx + n - 2 * Size
        /\ read_idx' \in Indices
    BY <1>1, Forward DEF RingTypeOK, read_advance
  <1>3. used_size' = IF write_idx >= read_idx'
                     THEN write_idx - read_idx'
                     ELSE write_idx - read_idx' + 2 * Size
    BY <1>2, Distance DEF RingTypeOK, used_size
  <1>4. QED
    BY <1>1, <1>2, <1>3, UsedSize, SizeAssumption DEF RingTypeOK, Indices

-----------------------------------------------------------------------------
(* The inductive invariant: indices in range and, while the device takes   *)
(* what it is given, never more used bytes than memory.                    *)
RingInv == RingTypeOK /\ NeverOverfull

(* The burst a step of readToRing stores fits the free space.              *)
LEMMA BurstFits ==
  ASSUME RingTypeOK, used_size <= Size,
         NEW burst \in Bursts, readToRing(burst)
  PROVE  /\ write_slot \in Slots
         /\ free_size = Size - used_size
         /\ Len(burst) \in 1..free_size
         /\ burst \in [1..Len(burst) -> Byte]
         /\ write_slot + Len(burst) <= Size
  <1>1. write_slot \in Slots
    BY SlotOfIndex DEF RingTypeOK, write_slot
  <1>2. free_size = Size - used_size /\ free_size \in 1..Size
    BY FreeSize, SizeAssumption DEF readToRing
  <1>3. Len(burst) \in 1..FirstHalf(write_slot, free_size)
    BY DEF readToRing
  <1>4. burst \in [1..Len(burst) -> Byte]
    <2>1. PICK n \in 1..OneRead : burst \in [1..n -> Byte]
      BY Zenon DEF Bursts
    <2>2. Len(burst) = n
      BY <2>1, OneReadAssumption
    <2>3. QED
      BY <2>1, <2>2
  <1>5. /\ FirstHalf(write_slot, free_size) \in 1..free_size
        /\ write_slot + FirstHalf(write_slot, free_size) <= Size
    BY <1>1, <1>2, FirstHalfFits
  <1>6. QED
    BY <1>1, <1>2, <1>3, <1>4, <1>5, SizeAssumption DEF Slots

(* Whatever free_size says: the memory keeps its bytes, the index its      *)
(* range.                                                                  *)
LEMMA IInvReadToRing ==
  ASSUME RingInv, NEW burst \in Bursts, readToRing(burst)
  PROVE  RingInv'
  <1>1. PICK n \in 1..OneRead : burst \in [1..n -> Byte] /\ Len(burst) = n
    <2>1. PICK n \in 1..OneRead : burst \in [1..n -> Byte]
      BY Zenon DEF Bursts
    <2>2. Len(burst) = n
      BY <2>1, OneReadAssumption
    <2>3. QED
      BY <2>1, <2>2
  <1>2. write_idx' \in Indices
    BY <1>1, Moved DEF RingInv, RingTypeOK, readToRing, write_advance
  <1>3. data' \in [Slots -> Byte]
    <2>1. write_slot \in Slots
      BY SlotOfIndex DEF RingInv, RingTypeOK, write_slot
    <2>2. ASSUME NEW j \in Slots
          PROVE  (IF j \in write_slot..(write_slot + n - 1)
                  THEN burst[j - write_slot + 1] ELSE data[j]) \in Byte
      BY <1>1, <2>1, SizeAssumption DEF RingInv, RingTypeOK, Slots
    <2>3. data' = [j \in Slots |-> IF j \in write_slot..(write_slot + n - 1)
                                   THEN burst[j - write_slot + 1] ELSE data[j]]
      BY <1>1 DEF readToRing
    <2>4. QED
      BY <2>2, <2>3
  <1>4. NeverOverfull'
    <2>1. SUFFICES ASSUME ~gone' PROVE used_size' <= Size
      BY DEF NeverOverfull
    <2>2. RingTypeOK /\ used_size <= Size
      BY <2>1 DEF RingInv, NeverOverfull, readToRing
    <2>3. Len(burst) \in 1..free_size /\ free_size = Size - used_size
      BY <2>2, BurstFits
    <2>4. used_size' = used_size + Len(burst)
      BY <2>2, <2>3, WriteAdvance DEF readToRing
    <2>5. QED
      BY <2>2, <2>3, <2>4, UsedSize, SizeAssumption DEF Indices
  <1>5. QED
    BY <1>2, <1>3, <1>4 DEF RingInv, RingTypeOK, readToRing

(* What readFromRing hands to a device that takes something is no longer   *)
(* than what the ring holds.                                               *)
LEMMA ReadFits ==
  ASSUME RingTypeOK, used_size <= Size,
         NEW sz \in 1..(2 * Size), readFromRing(sz)
  PROVE  \E n \in 1..used_size :
           /\ n \in 1..Size
           /\ n = IF sz < used_size THEN sz ELSE used_size
           /\ read_slot \in Slots
           /\ FirstHalf(read_slot, n) = IF read_slot + n > Size
                                        THEN Size - read_slot ELSE n
           /\ FirstHalf(read_slot, n) \in 1..n
           /\ read_slot + FirstHalf(read_slot, n) <= Size
  <1> DEFINE n == IF sz < used_size THEN sz ELSE used_size
  <1>1. n \in 1..used_size /\ n \in 1..Size
    BY UsedSize, SizeAssumption DEF readFromRing, Indices
  <1>2. read_slot \in Slots
    BY SlotOfIndex DEF RingTypeOK, read_slot
  <1>3. QED
    BY <1>1, <1>2, FirstHalfFits

(* What has come from the ring: the front of its contents, as many bytes   *)
(* as the device has taken.                                                *)
LEMMA FrontOut ==
  ASSUME RingTypeOK, used_size <= Size, NEW n \in 1..used_size, n \in 1..Size,
         NEW taken \in 0..n, NEW sz1 \in 1..n,
         sz1 = (IF read_slot + n > Size THEN Size - read_slot ELSE n),
         NEW i \in 1..taken
  PROVE  /\ (IF i <= sz1 THEN data[read_slot + i - 1]
                         ELSE data[i - sz1 - 1]) = Contents[i]
         /\ Contents[i] \in Byte
  <1>1. i \in 1..Size /\ i \in 1..used_size
    BY UsedSize, SizeAssumption DEF Indices
  <1>2. read_slot \in Slots
    BY SlotOfIndex DEF RingTypeOK, read_slot
  <1>3. Contents[i] = data[IF read_slot + i - 1 < Size
                           THEN read_slot + i - 1
                           ELSE read_slot + i - 1 - Size]
    BY <1>1, SlotOfByte DEF Contents
  <1> DEFINE slot == IF i <= sz1 THEN read_slot + i - 1 ELSE i - sz1 - 1
  <1>4. /\ slot = IF read_slot + i - 1 < Size THEN read_slot + i - 1
                                            ELSE read_slot + i - 1 - Size
        /\ slot \in Slots
    BY SMTT(30), <1>1, <1>2, SizeAssumption DEF Slots
  <1>5. data[slot] = Contents[i] /\ data[slot] \in Byte
    BY <1>3, <1>4 DEF RingTypeOK
  <1>6. QED
    BY <1>5

LEMMA IInvReadFromRing ==
  ASSUME RingInv, NEW sz \in 1..(2 * Size), readFromRing(sz)
  PROVE  RingInv'
  <1>1. used_size \in Indices /\ read_slot \in Slots
    BY UsedSize, SlotOfIndex DEF RingInv, RingTypeOK, read_slot
  <1> DEFINE n   == IF sz < used_size THEN sz ELSE used_size
             sz1 == FirstHalf(read_slot, n)
             fst == IF gone THEN -1 ELSE sz1
             rst == IF sz1 = n THEN 0 ELSE IF gone' THEN -1 ELSE n - sz1
             tkn == IF gone THEN 0 ELSE IF gone' THEN sz1 ELSE n
  <1>2. /\ n # 0
        /\ gone' \in (IF sz1 = n THEN {gone} ELSE {gone, TRUE})
        /\ out' = [i \in 1..tkn |-> IF i <= sz1 THEN data[read_slot + i - 1]
                                                ELSE data[i - sz1 - 1]]
        /\ read_advance(fst + rst)
        /\ UNCHANGED << write_idx, data >>
    BY DEF readFromRing
  <1>3. n \in Int /\ sz1 \in Int /\ gone' \in BOOLEAN
    <2>1. n \in Int
      BY <1>1, SizeAssumption DEF Indices
    <2>2. sz1 \in Int
      BY <1>1, <2>1, SizeAssumption DEF FirstHalf, Slots
    <2>3. gone' \in BOOLEAN
      BY <1>2 DEF RingInv, RingTypeOK
    <2>4. QED
      BY <2>1, <2>2, <2>3
  <1>4. read_idx' \in Indices
    <2>1. fst + rst \in Int
      BY <1>3
    <2>2. QED
      BY <1>2, <2>1, Moved DEF read_advance, RingInv, RingTypeOK
  <1>5. CASE gone
    <2>1. out' = [i \in 1..0 |-> IF i <= sz1 THEN data[read_slot + i - 1]
                                             ELSE data[i - sz1 - 1]]
      BY <1>2, <1>5
    <2>2. out' \in [1..0 -> Byte]
      BY <2>1
    <2>3. gone'
      BY <1>2, <1>5
    <2>4. QED
      BY <1>2, <1>3, <1>4, <2>2, <2>3, SizeAssumption
         DEF RingInv, RingTypeOK, NeverOverfull
  <1>6. CASE ~gone
    <2>1. RingTypeOK /\ used_size <= Size
      BY <1>6 DEF RingInv, NeverOverfull
    <2>2. /\ n \in 1..used_size /\ n \in 1..Size /\ sz1 \in 1..n
          /\ sz1 = IF read_slot + n > Size THEN Size - read_slot ELSE n
      BY <2>1, ReadFits
    <2>3. tkn \in 0..n /\ tkn \in 0..Size
      BY <1>3, <1>6, <2>2, SizeAssumption
    <2>4. out' \in [1..tkn -> Byte]
      <3>1. ASSUME NEW i \in 1..tkn
            PROVE  (IF i <= sz1 THEN data[read_slot + i - 1]
                                ELSE data[i - sz1 - 1]) \in Byte
        <4> HIDE DEF n, sz1, tkn
        <4>1. QED
          BY <2>1, <2>2, <2>3, FrontOut
      <3> HIDE DEF n, sz1, tkn
      <3>2. QED
        BY <1>2, <3>1
    <2>5. RingTypeOK'
      BY <1>2, <1>3, <1>4, <2>3, <2>4 DEF RingInv, RingTypeOK
    <2>6. ASSUME ~gone' PROVE used_size' <= Size
      <3>1. fst + rst = n
        BY <1>3, <1>6, <2>2, <2>6
      <3>2. read_advance(n)
        BY <1>2, <3>1
      <3>3. used_size' = used_size - n
        <4> HIDE DEF n, sz1
        <4>1. QED
          BY <1>2, <2>1, <2>2, <3>2, ReadAdvance
      <3>4. QED
        BY <1>1, <2>1, <2>2, <3>3, SizeAssumption DEF Indices
    <2>7. QED
      BY <2>5, <2>6 DEF RingInv, NeverOverfull
  <1>7. QED
    BY <1>5, <1>6

LEMMA RingInvInit == RingInit => RingInv
  <1> SUFFICES ASSUME RingInit PROVE RingInv
    OBVIOUS
  <1>1. RingTypeOK
    <2>1. out \in [1..0 -> Byte] /\ 0 \in 0..Size
      BY SizeAssumption DEF RingInit
    <2>2. out \in UNION { [1..n -> Byte] : n \in 0..Size }
      BY <2>1
    <2>3. write_idx \in Indices /\ read_idx \in Indices
      BY SizeAssumption DEF RingInit, Indices
    <2>4. QED
      BY Zenon, <2>2, <2>3 DEF RingInit, RingTypeOK
  <1>2. used_size = 0
    BY <1>1, UsedSize DEF RingInit
  <1>3. QED
    BY <1>1, <1>2, SizeAssumption DEF RingInv, NeverOverfull

LEMMA RingInvNext == RingInv /\ [RingNext]_ring_vars => RingInv'
  <1> SUFFICES ASSUME RingInv, [RingNext]_ring_vars PROVE RingInv'
    OBVIOUS
  <1>1. CASE \E burst \in Bursts : readToRing(burst)
    BY <1>1, IInvReadToRing
  <1>2. CASE \E sz \in 1..(2 * Size) : readFromRing(sz)
    BY <1>2, IInvReadFromRing
  <1>3. CASE DeviceGoes
    BY <1>3 DEF DeviceGoes, RingInv, RingTypeOK, NeverOverfull, used_size
  <1>4. CASE UNCHANGED ring_vars
    BY <1>4 DEF ring_vars, RingInv, RingTypeOK, NeverOverfull, used_size
  <1>5. QED
    BY <1>1, <1>2, <1>3, <1>4 DEF RingNext

LEMMA RingInvariance == RingSpec => []RingInv
  BY RingInvInit, RingInvNext, PTL DEF RingSpec

(* Both indices of the ring stay below twice its size, its memory and the  *)
(* bursts it hands out keep their types, however many writes the device    *)
(* refuses and however far the indices move back for it: for every size    *)
(* and byte set.                                                           *)
THEOREM RingTypeCorrect == RingSpec => []RingTypeOK
  <1>1. RingInv => RingTypeOK
    BY DEF RingInv
  <1>2. QED
    BY <1>1, RingInvariance, PTL

(* As long as the device takes what it is given, the ring never claims to  *)
(* hold more bytes than its memory has room for, so free_size does not     *)
(* wrap: for every size and byte set.                                      *)
THEOREM RingNeverOverfull == RingSpec => []NeverOverfull
  <1>1. RingInv => NeverOverfull
    BY DEF RingInv
  <1>2. QED
    BY <1>1, RingInvariance, PTL

-----------------------------------------------------------------------------
(* The slot that is written next follows the unread bytes.                 *)
LEMMA WriteSlotFollows ==
  ASSUME RingTypeOK, used_size <= Size
  PROVE  write_slot = IF read_slot + used_size < Size
                      THEN read_slot + used_size
                      ELSE read_slot + used_size - Size
  <1>1. /\ read_slot = IF read_idx < Size THEN read_idx ELSE read_idx - Size
        /\ write_slot = IF write_idx < Size THEN write_idx
                                            ELSE write_idx - Size
    BY SlotOfIndex DEF RingTypeOK, read_slot, write_slot
  <1>2. QED
    BY <1>1, UsedSize, SizeAssumption DEF RingTypeOK, Indices

(* The contents as a sequence of used_size bytes.                          *)
LEMMA ContentsLen ==
  ASSUME RingTypeOK, used_size <= Size
  PROVE  /\ Len(Contents) = used_size
         /\ used_size \in 0..Size
         /\ \A i \in 1..used_size :
              Contents[i] = data[(read_idx + i - 1) % Size]
  BY UsedSize, SizeAssumption DEF Contents, Indices

LEMMA ContentsLenAfter ==
  ASSUME RingTypeOK', used_size' <= Size
  PROVE  /\ Len(Contents') = used_size'
         /\ used_size' \in 0..Size
         /\ \A i \in 1..used_size' :
              Contents'[i] = data'[(read_idx' + i - 1) % Size]
  <1>1. write_idx' \in Indices /\ read_idx' \in Indices
    BY DEF RingTypeOK
  <1>2. used_size' \in Indices
    BY <1>1, Distance DEF used_size
  <1>3. used_size' \in 0..Size
    BY <1>1, <1>2, SizeAssumption DEF Indices
  <1>4. QED
    BY <1>3, SizeAssumption DEF Contents

(* A turn of readToRing appends to the contents: what it writes lies       *)
(* behind the unread bytes and touches none of their slots.                *)
LEMMA PutStep ==
  ASSUME RingInv, ~gone, NEW burst \in Bursts, readToRing(burst)
  PROVE  Fifo!Put
  <1> DEFINE n == Len(burst)
  <1>0. RingTypeOK /\ used_size <= Size /\ ~gone'
    BY DEF RingInv, NeverOverfull, readToRing
  <1>1. /\ write_slot \in Slots
        /\ free_size = Size - used_size
        /\ n \in 1..free_size
        /\ write_slot + n <= Size
    BY <1>0, BurstFits
  <1>2. /\ data' = [j \in Slots |-> IF j \in write_slot..(write_slot + n - 1)
                                    THEN burst[j - write_slot + 1]
                                    ELSE data[j]]
        /\ write_advance(n)
        /\ UNCHANGED << read_idx, out, gone >>
    BY DEF readToRing
  <1>3. RingTypeOK' /\ used_size' <= Size
    BY <1>0, IInvReadToRing DEF RingInv, NeverOverfull
  <1>4. used_size' = used_size + n
    BY <1>0, <1>1, <1>2, WriteAdvance
  <1>5. /\ Len(Contents) = used_size /\ used_size \in 0..Size
        /\ \A i \in 1..used_size : Contents[i] = data[(read_idx + i - 1) % Size]
    BY <1>0, ContentsLen
  <1>6. /\ Len(Contents') = used_size' /\ used_size' \in 0..Size
        /\ \A i \in 1..used_size' :
             Contents'[i] = data'[(read_idx' + i - 1) % Size]
    BY <1>3, ContentsLenAfter
  <1>7. ASSUME NEW i \in 1..used_size
        PROVE  Contents'[i] = Contents[i]
    <2> DEFINE slot == (read_idx + i - 1) % Size
    <2>1. i \in 1..Size
      BY <1>5, SizeAssumption
    <2>2. read_slot \in Slots
      BY <1>0, SlotOfIndex DEF RingTypeOK, read_slot
    <2>3. slot = IF read_slot + i - 1 < Size
                 THEN read_slot + i - 1
                 ELSE read_slot + i - 1 - Size
      BY <1>0, <2>1, SlotOfByte
    <2>4. slot \in Slots /\ slot \notin write_slot..(write_slot + n - 1)
      BY <1>0, <1>1, <1>5, <2>1, <2>2, <2>3, WriteSlotFollows, SizeAssumption
         DEF Slots
    <2>5. data'[slot] = data[slot]
      BY <1>2, <2>4
    <2>6. i \in 1..used_size'
      BY <1>1, <1>4, <1>5, SizeAssumption
    <2>7. QED
      BY <1>2, <1>5, <1>6, <2>5, <2>6
  <1>8. Len(Contents) < Len(Contents') /\ Len(Contents') <= Size
    BY <1>1, <1>4, <1>5, <1>6, SizeAssumption
  <1>9. QED
    BY <1>2, <1>5, <1>7, <1>8 DEF Fifo!Put

(* readFromRing takes the oldest bytes: the two halves of the transfer put *)
(* together are the front of the contents, the rest is what remains.  If   *)
(* the client goes between the two, what it has got is the front too.      *)
LEMMA TakeStep ==
  ASSUME RingInv, ~gone, NEW sz \in 1..(2 * Size), readFromRing(sz)
  PROVE  \/ \E n \in 1..Len(Contents) : Fifo!Take(n)
         \/ \E n \in 0..Len(Contents) : Fifo!Leave(n)
  <1>0. RingTypeOK /\ used_size <= Size /\ gone' \in BOOLEAN
    BY IInvReadFromRing DEF RingInv, NeverOverfull, RingTypeOK
  <1>1. PICK n \in 1..used_size :
          /\ n \in 1..Size
          /\ n = IF sz < used_size THEN sz ELSE used_size
          /\ read_slot \in Slots
          /\ FirstHalf(read_slot, n) = IF read_slot + n > Size
                                       THEN Size - read_slot ELSE n
          /\ FirstHalf(read_slot, n) \in 1..n
          /\ read_slot + FirstHalf(read_slot, n) <= Size
    BY <1>0, ReadFits
  <1> DEFINE sz1 == FirstHalf(read_slot, n)
             tkn == IF gone' THEN sz1 ELSE n
  <1>2. /\ out' = [i \in 1..tkn |-> IF i <= sz1 THEN data[read_slot + i - 1]
                                               ELSE data[i - sz1 - 1]]
        /\ gone' = FALSE => read_advance(n)
        /\ UNCHANGED << write_idx, data >>
    BY <1>0, <1>1 DEF readFromRing
  <1>3. tkn \in 1..n
    BY <1>1
  <1>4. /\ Len(Contents) = used_size /\ used_size \in 0..Size
        /\ \A i \in 1..used_size : Contents[i] = data[(read_idx + i - 1) % Size]
    BY <1>0, ContentsLen
  <1>5. out' = [i \in 1..tkn |-> Contents[i]]
    <2>1. ASSUME NEW i \in 1..tkn
          PROVE  (IF i <= sz1 THEN data[read_slot + i - 1]
                              ELSE data[i - sz1 - 1]) = Contents[i]
      <3>1. tkn \in 0..n
        BY <1>3
      <3>2. QED
        BY <1>0, <1>1, <3>1, FrontOut
    <2> HIDE DEF sz1, tkn
    <2>2. QED
      BY <1>2, <2>1
  <1>6. CASE gone'
    <2>1. Fifo!Leave(tkn)
      BY <1>5, <1>6 DEF Fifo!Leave
    <2>2. tkn \in 0..Len(Contents)
      BY <1>3, <1>4
    <2>3. QED
      BY <2>1, <2>2
  <1>7. CASE ~gone'
    <2>1. tkn = n /\ read_advance(n) /\ UNCHANGED gone
      BY <1>0, <1>2, <1>7 DEF RingTypeOK
    <2>2. /\ used_size' = used_size - n
          /\ read_idx' = IF read_idx + n < 2 * Size
                         THEN read_idx + n ELSE read_idx + n - 2 * Size
          /\ read_idx' \in Indices
      BY <1>0, <1>1, <1>2, <2>1, ReadAdvance
    <2>3. Contents' = [i \in 1..(used_size - n) |-> Contents[i + n]]
      <3>1. ASSUME NEW i \in 1..(used_size - n)
            PROVE  data'[(read_idx' + i - 1) % Size] = Contents[i + n]
        <4>1. i \in 1..Size /\ i + n \in 1..Size /\ i + n \in 1..used_size
          BY <1>1, <1>4, SizeAssumption
        <4>2. Contents[i + n] = data[(read_idx + (i + n) - 1) % Size]
          BY <1>4, <4>1
        <4>3. (read_idx' + i - 1) % Size = (read_idx + (i + n) - 1) % Size
          <5>1. read_idx \in Indices
            BY <1>0 DEF RingTypeOK
          <5> DEFINE k == i + n
          <5>2. k \in 1..Size /\ i = k - n
            BY <1>1, <4>1, SizeAssumption
          <5>3. (read_idx' + i - 1) % Size = IF read_idx' + i - 1 < Size
                THEN read_idx' + i - 1
                ELSE IF read_idx' + i - 1 < 2 * Size
                     THEN read_idx' + i - 1 - Size
                     ELSE read_idx' + i - 1 - 2 * Size
            BY <2>2, <4>1, SlotAfter
          <5>4. (read_idx + k - 1) % Size = IF read_idx + k - 1 < Size
                THEN read_idx + k - 1
                ELSE IF read_idx + k - 1 < 2 * Size
                     THEN read_idx + k - 1 - Size
                     ELSE read_idx + k - 1 - 2 * Size
            BY <5>1, <5>2, SlotAfter
          <5>5. QED
            BY <1>1, <2>2, <4>1, <5>1, <5>2, <5>3, <5>4, SizeAssumption
               DEF Indices
        <4>4. QED
          BY <1>2, <4>2, <4>3
      <3>2. Contents' = [i \in 1..(used_size - n) |->
                           data'[(read_idx' + i - 1) % Size]]
        BY <2>2 DEF Contents
      <3>3. QED
        BY <3>1, <3>2
    <2>4. QED
      BY <1>1, <1>4, <1>5, <2>1, <2>3 DEF Fifo!Take
  <1>8. QED
    BY <1>6, <1>7

(* After the client has gone the ring hands nothing over.                  *)
LEMMA AloneStep ==
  ASSUME RingInv, gone, RingNext
  PROVE  Fifo!Alone
  <1>1. ASSUME NEW burst \in Bursts, readToRing(burst)
        PROVE  Fifo!Alone
    BY <1>1 DEF readToRing, Fifo!Alone
  <1>2. ASSUME NEW sz \in 1..(2 * Size), readFromRing(sz)
        PROVE  Fifo!Alone
    <2>1. gone'
      BY <1>2 DEF readFromRing
    <2>2. out' = << >>
      BY <1>2 DEF readFromRing
    <2>3. gone' = TRUE
      BY <1>2, <2>1, IInvReadFromRing DEF RingInv, RingTypeOK
    <2>4. QED
      BY <2>2, <2>3 DEF Fifo!Alone
  <1>3. CASE DeviceGoes
    BY <1>3 DEF DeviceGoes, Fifo!Alone
  <1>4. QED
    BY <1>1, <1>2, <1>3 DEF RingNext

(* The ring buffer, with its masked indices and two-part transfers, is a   *)
(* bounded FIFO until its device refuses a write: no byte is lost,         *)
(* repeated, reordered or overwritten before, and none handed over after,  *)
(* for every size and byte set.                                            *)
THEOREM RingImplementsFifo == RingSpec => RingIsFifo
  <1>1. RingInit => Fifo!Init
    <2> SUFFICES ASSUME RingInit PROVE Fifo!Init
      OBVIOUS
    <2>1. RingInv
      BY RingInvInit
    <2>2. used_size = 0
      BY <2>1, UsedSize DEF RingInit, RingInv
    <2>3. QED
      BY <2>2 DEF RingInit, Fifo!Init, Contents
  <1>2. RingInv /\ [RingNext]_ring_vars
          => [Fifo!Next]_<< Contents, out, gone >>
    <2> SUFFICES ASSUME RingInv, [RingNext]_ring_vars
                 PROVE  [Fifo!Next]_<< Contents, out, gone >>
      OBVIOUS
    <2>1. CASE gone /\ RingNext
      BY <2>1, AloneStep DEF Fifo!Next
    <2>2. CASE ~gone /\ \E burst \in Bursts : readToRing(burst)
      BY <2>2, PutStep DEF Fifo!Next
    <2>3. CASE ~gone /\ \E sz \in 1..(2 * Size) : readFromRing(sz)
      BY <2>3, TakeStep DEF Fifo!Next
    <2>4. CASE ~gone /\ DeviceGoes
      <3>1. Fifo!Leave(0)
        BY <2>4 DEF DeviceGoes, Fifo!Leave, Contents, used_size
      <3>2. 0 \in 0..Len(Contents)
        BY <2>4, ContentsLen DEF RingInv, NeverOverfull
      <3>3. QED
        BY <3>1, <3>2 DEF Fifo!Next
    <2>5. CASE UNCHANGED ring_vars
      BY <2>5 DEF ring_vars, Contents, used_size
    <2>6. QED
      BY <2>1, <2>2, <2>3, <2>4, <2>5 DEF RingNext
  <1>3. QED
    BY <1>1, <1>2, RingInvariance, PTL DEF RingSpec, RingIsFifo, Fifo!Spec

-----------------------------------------------------------------------------
(* The transcoder (MencoderTranscoder).                                    *)

(* Streams of bytes may be joined, and grouped in any way.                 *)
LEMMA Grouping ==
  /\ \A s, t \in Seq(Bytes) : s \o t \in Seq(Bytes)
  /\ \A s, t, u \in Seq(Bytes) : (s \o t) \o u = s \o (t \o u)
  <1>1. ASSUME NEW s \in Seq(Bytes), NEW t \in Seq(Bytes)
        PROVE  s \o t \in Seq(Bytes)
    BY ConcatProperties
  <1>2. ASSUME NEW s \in Seq(Bytes), NEW t \in Seq(Bytes), NEW u \in Seq(Bytes)
        PROVE  (s \o t) \o u = s \o (t \o u)
    BY ConcatAssociative
  <1>3. QED
    BY <1>1, <1>2

(* Two halves of a sequence make it up again.                              *)
LEMMA FrontAndRest ==
  ASSUME NEW S, NEW s \in Seq(S), NEW n \in 0..Len(s)
  PROVE  /\ Front(s, n) \in Seq(S) /\ Len(Front(s, n)) = n
         /\ Rest(s, n) \in Seq(S) /\ Len(Rest(s, n)) = Len(s) - n
         /\ Front(s, n) \o Rest(s, n) = s
  <1>1. Len(s) \in Nat /\ \A i \in 1..Len(s) : s[i] \in S
    BY LenProperties, ElementOfSeq
  <1>2. Front(s, n) \in Seq(S) /\ Len(Front(s, n)) = n
    BY <1>1, SubSeqProperties DEF Front
  <1>3. Rest(s, n) \in Seq(S) /\ Len(Rest(s, n)) = Len(s) - n
    BY <1>1, SubSeqProperties DEF Rest
  <1>4. Front(s, n) \o Rest(s, n) = SubSeq(s, 1, Len(s))
    <2>1. 1 \in 1..Len(s)+1 /\ n \in 1-1..Len(s) /\ Len(s) \in n..Len(s)
      BY <1>1
    <2>2. SubSeq(s, 1, n) \o SubSeq(s, n+1, Len(s)) = SubSeq(s, 1, Len(s))
      BY <2>1, ConcatAdjacentSubSeq, Zenon
    <2>3. QED
      BY <2>2 DEF Front, Rest
  <1>5. QED
    BY <1>2, <1>3, <1>4, SubSeqFull

(* process() moves no more than there is, and than the socket may take.    *)
LEMMA PortionFits ==
  ASSUME TypeOK, SocketBounded, NEW n \in Nat
  PROVE  /\ Portion(n) \in 0..n
         /\ Len(sock) + Portion(n) <= MaxThreshold
  <1>1. Len(sock) \in Nat
    BY LenProperties DEF TypeOK
  <1>2. MinThreshold \in Nat /\ MaxThreshold \in Nat
    BY ThresholdAssumption
  <1>3. QED
    BY <1>1, <1>2 DEF Portion, Least, SocketBounded

(* process() moves the border between socket and ring, and nothing else.   *)
LEMMA ProcessMoves ==
  ASSUME TypeOK, SocketBounded, NEW bytes \in Seq(Bytes), process(bytes)
  PROVE  /\ sock' \in Seq(Bytes) /\ Len(sock') <= MaxThreshold
         /\ ring' \in Seq(Bytes) /\ Len(ring') <= Len(bytes)
         /\ sock' \o ring' = sock \o bytes
  <1> DEFINE n == Portion(Len(bytes))
  <1>1. n \in 0..Len(bytes) /\ Len(sock) + n <= MaxThreshold /\ Len(bytes) \in Nat
    BY PortionFits, LenProperties
  <1>2. sock \in Seq(Bytes) /\ Len(sock) \in Nat
    BY LenProperties DEF TypeOK
  <1>3. sock' = sock \o Front(bytes, n) /\ ring' = Rest(bytes, n)
    BY DEF process
  <1> HIDE DEF n
  <1>4. /\ Front(bytes, n) \in Seq(Bytes) /\ Len(Front(bytes, n)) = n
        /\ Rest(bytes, n) \in Seq(Bytes) /\ Len(Rest(bytes, n)) = Len(bytes) - n
        /\ Front(bytes, n) \o Rest(bytes, n) = bytes
    BY <1>1, FrontAndRest
  <1>5. sock' \in Seq(Bytes) /\ Len(sock') = Len(sock) + n
    BY <1>2, <1>3, <1>4, ConcatProperties
  <1>6. sock' \o ring' = sock \o bytes
    <2>1. (sock \o Front(bytes, n)) \o Rest(bytes, n)
            = sock \o (Front(bytes, n) \o Rest(bytes, n))
      BY <1>2, <1>4, Grouping, Zenon
    <2>2. QED
      BY <1>3, <1>4, <2>1
  <1>7. QED
    BY <1>1, <1>2, <1>3, <1>4, <1>5, <1>6

-----------------------------------------------------------------------------
(* The strengthening: types, the bound of the socket, one stream, and that *)
(* a child that lives belongs to a run.                                    *)
RunCounted == running => run > 0
IInv == TypeOK /\ SocketBounded /\ NothingLost /\ TranscodingEnds /\ RunCounted

LEMMA InvariantInit == Init => IInv
  <1> SUFFICES ASSUME Init PROVE IInv
    OBVIOUS
  <1>1. << >> \in Seq(Bytes) /\ Len(<< >>) = 0
    BY EmptySeq
  <1>2. << >> \o << >> = << >>
    BY <1>1, ConcatEmptySeq
  <1>3. TypeOK
    <2>1. PipeRoom \in Nat /\ MaxRuns \in Nat /\ RingSize \in Nat
      BY RingAssumption, ThresholdAssumption, BoundAssumption
    <2>2. \A s \in {wrote, pipe, ring, sock, received} : s \in Seq(Bytes)
      BY <1>1 DEF Init
    <2>3. Len(pipe) <= PipeRoom /\ Len(ring) <= RingSize
      BY <1>1, <2>1 DEF Init
    <2>4. {running, terminated, destroyed} \subseteq BOOLEAN
      BY DEF Init
    <2>5. /\ m_state \in {"Stopped", "Transcoding"}
          /\ finishes \in Nat /\ run \in 0..MaxRuns
      BY <2>1 DEF Init
    <2>6. QED
      BY <2>2, <2>3, <2>4, <2>5 DEF TypeOK
  <1>4. QED
    BY <1>1, <1>2, <1>3, ThresholdAssumption
       DEF Init, IInv, SocketBounded, NothingLost, TranscodingEnds, RunCounted

(* The places of the bytes are sequences of bytes, and so is their join.   *)
LEMMA Places ==
  ASSUME TypeOK
  PROVE  /\ pipe \in Seq(Bytes) /\ ring \in Seq(Bytes) /\ sock \in Seq(Bytes)
         /\ received \in Seq(Bytes) /\ wrote \in Seq(Bytes)
         /\ Len(pipe) \in Nat /\ Len(ring) \in Nat /\ Len(sock) \in Nat
  BY LenProperties DEF TypeOK

LEMMA onStdoutKeeps ==
  ASSUME IInv, onStdout
  PROVE  IInv'
  <1> DEFINE n == Least(RingSize - Len(ring), Len(pipe))
             bytes == ring \o Front(pipe, n)
  <1>1. TypeOK /\ SocketBounded /\ NothingLost
    BY DEF IInv
  <1>2. /\ pipe \in Seq(Bytes) /\ ring \in Seq(Bytes) /\ sock \in Seq(Bytes)
        /\ received \in Seq(Bytes)
        /\ Len(pipe) \in Nat /\ Len(ring) \in Nat /\ Len(ring) <= RingSize
        /\ RingSize \in Nat
    BY <1>1, Places, RingAssumption, ThresholdAssumption DEF TypeOK
  <1>3. n \in 0..Len(pipe) /\ Len(ring) + n <= RingSize
    BY <1>2 DEF Least
  <1>4. pipe' = Rest(pipe, n) /\ process(bytes)
    BY DEF onStdout
  <1>5. UNCHANGED << m_state, process_vars, received, destroyed >>
    BY DEF onStdout
  <1> HIDE DEF n
  <1>6. /\ Front(pipe, n) \in Seq(Bytes) /\ Len(Front(pipe, n)) = n
        /\ Rest(pipe, n) \in Seq(Bytes) /\ Len(Rest(pipe, n)) = Len(pipe) - n
        /\ Front(pipe, n) \o Rest(pipe, n) = pipe
    BY <1>2, <1>3, FrontAndRest
  <1>7. bytes \in Seq(Bytes) /\ Len(bytes) = Len(ring) + n
    BY <1>2, <1>6, ConcatProperties
  <1>8. bytes \o pipe' = ring \o pipe
    <2>1. (ring \o Front(pipe, n)) \o Rest(pipe, n)
            = ring \o (Front(pipe, n) \o Rest(pipe, n))
      BY ZenonT(30), <1>2, <1>6, Grouping
    <2>2. QED
      BY <1>4, <1>6, <2>1
  <1> HIDE DEF bytes
  <1>9. /\ sock' \in Seq(Bytes) /\ Len(sock') <= MaxThreshold
        /\ ring' \in Seq(Bytes) /\ Len(ring') <= Len(bytes)
        /\ sock' \o ring' = sock \o bytes
    BY <1>1, <1>4, <1>7, ProcessMoves
  <1>10. TypeOK'
    <2>1. Len(pipe') <= PipeRoom
      BY <1>1, <1>2, <1>3, <1>4, <1>6, BoundAssumption DEF TypeOK
    <2>2. Len(ring') <= RingSize
      BY <1>2, <1>3, <1>7, <1>9, LenProperties
    <2>3. pipe' \in Seq(Bytes)
      BY <1>4, <1>6
    <2>4. QED
      BY <1>1, <1>5, <1>9, <2>1, <2>2, <2>3 DEF TypeOK, process_vars
  <1>11. sock' \o (ring' \o pipe') = sock \o (ring \o pipe)
    <2>1. pipe' \in Seq(Bytes)
      BY <1>4, <1>6
    <2>2. (sock' \o ring') \o pipe' = sock' \o (ring' \o pipe')
      BY <1>9, <2>1, Grouping, Zenon
    <2>3. (sock \o bytes) \o pipe' = sock \o (bytes \o pipe')
      BY ZenonT(30), <1>2, <1>7, <2>1, Grouping
    <2>4. (sock' \o ring') \o pipe' = (sock \o bytes) \o pipe'
      BY <1>9, Zenon
    <2>5. sock \o (bytes \o pipe') = sock \o (ring \o pipe)
      BY <1>8, Zenon
    <2>6. QED
      BY <2>2, <2>3, <2>4, <2>5, Zenon
  <1>12. NothingLost'
    BY <1>1, <1>5, <1>11 DEF NothingLost, process_vars
  <1>13. TranscodingEnds' /\ RunCounted'
    BY <1>5 DEF IInv, TranscodingEnds, RunCounted, process_vars
  <1>14. QED
    BY <1>9, <1>10, <1>12, <1>13 DEF IInv, SocketBounded

LEMMA onFinishedKeeps ==
  ASSUME IInv, onFinished
  PROVE  IInv'
  <1>1. TypeOK /\ SocketBounded /\ NothingLost
    BY DEF IInv
  <1>2. /\ pipe \in Seq(Bytes) /\ ring \in Seq(Bytes) /\ sock \in Seq(Bytes)
        /\ Len(ring) \in Nat /\ Len(ring) <= RingSize /\ RingSize \in Nat
    BY <1>1, Places, RingAssumption, ThresholdAssumption DEF TypeOK
  <1>3. /\ process(ring) /\ m_state' = "Stopped"
        /\ finishes' \in Nat
        /\ UNCHANGED << running, terminated, run, wrote, pipe, received, destroyed >>
    BY <1>1 DEF onFinished, TypeOK
  <1>4. /\ sock' \in Seq(Bytes) /\ Len(sock') <= MaxThreshold
        /\ ring' \in Seq(Bytes) /\ Len(ring') <= Len(ring)
        /\ sock' \o ring' = sock \o ring
    BY <1>1, <1>2, <1>3, ProcessMoves
  <1>5. TypeOK'
    <2>1. Len(ring') <= RingSize
      BY <1>2, <1>4, LenProperties
    <2>2. QED
      BY <1>1, <1>3, <1>4, <2>1 DEF TypeOK
  <1>6. sock' \o (ring' \o pipe) = sock \o (ring \o pipe)
    <2>1. (sock' \o ring') \o pipe = sock' \o (ring' \o pipe)
      BY <1>2, <1>4, Grouping, Zenon
    <2>2. (sock \o ring) \o pipe = sock \o (ring \o pipe)
      BY <1>2, Grouping, Zenon
    <2>3. QED
      BY <1>4, <2>1, <2>2, Zenon
  <1>7. NothingLost'
    BY <1>1, <1>3, <1>6 DEF NothingLost
  <1>8. QED
    BY <1>3, <1>4, <1>5, <1>7
       DEF IInv, SocketBounded, TranscodingEnds, RunCounted

(* A child counts its bytes from 1.                                        *)
LEMMA WrittenIsNat == ASSUME TypeOK, NEW r PROVE Written(r) \in Nat
  <1>1. Len(wrote) \in Nat
    BY LenProperties DEF TypeOK
  <1>2. IsFiniteSet(1..Len(wrote))
    BY <1>1, FS_Interval
  <1>3. IsFiniteSet({ i \in 1..Len(wrote) : wrote[i][1] = r })
    BY <1>2, FS_Subset
  <1>4. QED
    BY <1>3, FS_CardinalityType DEF Written

LEMMA ChildWritesKeeps ==
  ASSUME IInv, ChildWrites
  PROVE  IInv'
  <1> DEFINE b == << run, Written(run) + 1 >>
             more == << b >>
  <1>1. TypeOK /\ SocketBounded /\ NothingLost /\ RunCounted
    BY DEF IInv
  <1>2. /\ pipe \in Seq(Bytes) /\ ring \in Seq(Bytes) /\ sock \in Seq(Bytes)
        /\ received \in Seq(Bytes) /\ wrote \in Seq(Bytes)
        /\ Len(pipe) \in Nat
    BY <1>1, Places
  <1>3. b \in Bytes
    <2>1. Written(run) \in Nat /\ Written(run) < MaxBytes
      BY <1>1, WrittenIsNat DEF ChildWrites
    <2>2. Written(run) + 1 \in 1..MaxBytes
      BY <2>1, BoundAssumption
    <2>3. run \in 1..MaxRuns
      BY <1>1, BoundAssumption DEF TypeOK, RunCounted, ChildWrites
    <2>4. QED
      BY <2>2, <2>3 DEF Bytes
  <1>4. /\ pipe' = Append(pipe, b) /\ wrote' = Append(wrote, b)
        /\ Len(pipe) < PipeRoom
        /\ UNCHANGED << m_state, running, terminated, finishes, run, ring, sock,
                        received, destroyed >>
    BY DEF ChildWrites
  <1> HIDE DEF b
  <1>5. /\ pipe' = pipe \o more /\ wrote' = wrote \o more
        /\ more \in Seq(Bytes)
    BY <1>2, <1>3, <1>4, AppendIsConcat
  <1>6. /\ pipe' \in Seq(Bytes) /\ Len(pipe') = Len(pipe) + 1
        /\ wrote' \in Seq(Bytes)
    BY <1>2, <1>3, <1>4, AppendProperties
  <1> HIDE DEF more
  <1>7. TypeOK'
    <2>1. Len(pipe') <= PipeRoom
      BY <1>2, <1>4, <1>6, BoundAssumption
    <2>2. QED
      BY <1>1, <1>4, <1>6, <2>1 DEF TypeOK
  <1>8. received \o (sock \o (ring \o (pipe \o more)))
          = (received \o (sock \o (ring \o pipe))) \o more
    <2> DEFINE rest == ring \o pipe
               way  == sock \o rest
    <2>1. rest \in Seq(Bytes)
      BY <1>2, Grouping, Zenon
    <2>2. rest \o more = ring \o (pipe \o more)
      BY ZenonT(30), <1>2, <1>5, Grouping
    <2> HIDE DEF rest
    <2>3. way \in Seq(Bytes)
      BY <1>2, <2>1, Grouping, Zenon
    <2>4. way \o more = sock \o (rest \o more)
      <3>1. sock \in Seq(Bytes) /\ rest \in Seq(Bytes) /\ more \in Seq(Bytes)
        BY <1>2, <1>5, <2>1
      <3>2. QED
        BY <3>1, Grouping, Zenon
    <2> HIDE DEF way
    <2>5. (received \o way) \o more = received \o (way \o more)
      <3>1. received \in Seq(Bytes) /\ way \in Seq(Bytes) /\ more \in Seq(Bytes)
        BY <1>2, <1>5, <2>3
      <3>2. QED
        BY <3>1, Grouping, Zenon
    <2>6. QED
      BY <2>2, <2>4, <2>5, Zenon DEF way, rest
  <1>9. NothingLost'
    BY <1>1, <1>4, <1>5, <1>8 DEF NothingLost
  <1>10. QED
    BY <1>1, <1>4, <1>7, <1>9
       DEF IInv, SocketBounded, TranscodingEnds, RunCounted

LEMMA ClientReadsKeeps ==
  ASSUME IInv, NEW n \in 1..MaxThreshold, ClientReads(n)
  PROVE  IInv'
  <1> DEFINE rest == ring \o pipe
  <1>1. TypeOK /\ SocketBounded /\ NothingLost
    BY DEF IInv
  <1>2. /\ pipe \in Seq(Bytes) /\ ring \in Seq(Bytes) /\ sock \in Seq(Bytes)
        /\ received \in Seq(Bytes) /\ Len(sock) \in Nat /\ MaxThreshold \in Nat
    BY <1>1, Places, ThresholdAssumption
  <1>3. /\ n \in 0..Len(sock)
        /\ received' = received \o Front(sock, n) /\ sock' = Rest(sock, n)
        /\ UNCHANGED << m_state, process_vars, pipe, ring, destroyed >>
    BY <1>2 DEF ClientReads
  <1>4. /\ Front(sock, n) \in Seq(Bytes)
        /\ Rest(sock, n) \in Seq(Bytes) /\ Len(Rest(sock, n)) = Len(sock) - n
        /\ Front(sock, n) \o Rest(sock, n) = sock
    BY <1>2, <1>3, FrontAndRest
  <1>5. Len(sock') <= MaxThreshold
    BY <1>1, <1>2, <1>3, <1>4 DEF SocketBounded
  <1>6. TypeOK'
    <2>1. received' \in Seq(Bytes)
      BY <1>2, <1>3, <1>4, Grouping
    <2>2. QED
      BY <1>1, <1>3, <1>4, <2>1 DEF TypeOK, process_vars
  <1>7. rest \in Seq(Bytes)
    BY <1>2, Grouping, Zenon
  <1> HIDE DEF rest
  <1>8. (received \o Front(sock, n)) \o (Rest(sock, n) \o rest)
          = received \o (sock \o rest)
    <2> DEFINE read == Front(sock, n)
               left == Rest(sock, n)
    <2>1. read \in Seq(Bytes) /\ left \in Seq(Bytes) /\ read \o left = sock
      BY <1>4
    <2> HIDE DEF read, left
    <2>2. left \o rest \in Seq(Bytes)
      BY <1>7, <2>1, Grouping, Zenon
    <2>3. (read \o left) \o rest = read \o (left \o rest)
      BY <1>7, <2>1, Grouping, Zenon
    <2>4. (received \o read) \o (left \o rest) = received \o (read \o (left \o rest))
      <3>1. received \in Seq(Bytes) /\ read \in Seq(Bytes)
        BY <1>2, <2>1
      <3>2. QED
        BY <2>2, <3>1, Grouping, Zenon
    <2>5. QED
      BY <2>1, <2>3, <2>4, Zenon DEF read, left
  <1>9. NothingLost'
    BY <1>1, <1>3, <1>8 DEF NothingLost, process_vars, rest
  <1>10. QED
    BY <1>3, <1>5, <1>6, <1>9
       DEF IInv, SocketBounded, TranscodingEnds, RunCounted, process_vars

(* The handlers that move no byte.                                         *)
LEMMA ControlKeeps ==
  ASSUME IInv,
         \/ startTranscoding \/ terminateTranscoding \/ destructor \/ ChildEnds
         \/ UNCHANGED vars
  PROVE  IInv'
  <1>1. TypeOK /\ SocketBounded /\ NothingLost /\ TranscodingEnds /\ RunCounted
    BY DEF IInv
  <1>2. UNCHANGED << wrote, pipe, ring, sock, received >>
    BY DEF startTranscoding, terminateTranscoding, destructor, ChildEnds, vars
  <1>3. SocketBounded' /\ NothingLost'
    BY <1>1, <1>2 DEF SocketBounded, NothingLost
  <1>4. MaxRuns \in Nat
    BY BoundAssumption
  <1>5. CASE startTranscoding
    <2>1. TypeOK'
      <3>1. run' \in 0..MaxRuns
        BY <1>1, <1>4, <1>5 DEF TypeOK, startTranscoding
      <3>2. running' = TRUE /\ terminated' = FALSE /\ m_state' = "Transcoding"
        BY <1>5 DEF startTranscoding
      <3>3. UNCHANGED << finishes, destroyed >>
        BY <1>5 DEF startTranscoding
      <3>4. QED
        BY <1>1, <1>2, <3>1, <3>2, <3>3 DEF TypeOK
    <2>2. TranscodingEnds' /\ RunCounted'
      BY <1>1, <1>4, <1>5 DEF TypeOK, startTranscoding, TranscodingEnds, RunCounted
    <2>3. QED
      BY <1>3, <2>1, <2>2 DEF IInv
  <1>6. CASE terminateTranscoding
    BY <1>1, <1>2, <1>3, <1>6
       DEF IInv, TypeOK, terminateTranscoding, TranscodingEnds, RunCounted
  <1>7. CASE destructor
    <2>1. TypeOK'
      <3>1. terminated' \in BOOLEAN /\ destroyed' \in BOOLEAN
        BY <1>7 DEF destructor
      <3>2. m_state' \in {"Stopped", "Transcoding"}
        BY <1>1, <1>7 DEF destructor, TypeOK
      <3>3. UNCHANGED << running, finishes, run >>
        BY <1>7 DEF destructor
      <3>4. QED
        BY <1>1, <1>2, <3>1, <3>2, <3>3 DEF TypeOK
    <2>2. TranscodingEnds' /\ RunCounted'
      BY <1>1, <1>7 DEF destructor, TranscodingEnds, RunCounted
    <2>3. QED
      BY <1>3, <2>1, <2>2 DEF IInv
  <1>8. CASE ChildEnds
    <2>1. TypeOK'
      <3>1. finishes' \in Nat /\ running' = FALSE
        BY <1>1, <1>8 DEF TypeOK, ChildEnds
      <3>2. UNCHANGED << m_state, terminated, run, destroyed >>
        BY <1>8 DEF ChildEnds
      <3>3. QED
        BY <1>1, <1>2, <3>1, <3>2 DEF TypeOK
    <2>2. TranscodingEnds' /\ RunCounted'
      BY <1>1, <1>8 DEF TypeOK, ChildEnds, TranscodingEnds, RunCounted
    <2>3. QED
      BY <1>3, <2>1, <2>2 DEF IInv
  <1>9. CASE UNCHANGED vars
    BY <1>1, <1>2, <1>3, <1>9 DEF IInv, TypeOK, vars, TranscodingEnds, RunCounted
  <1>10. QED
    BY <1>5, <1>6, <1>7, <1>8, <1>9

LEMMA InvariantNext == IInv /\ [Next]_vars => IInv'
  <1> SUFFICES ASSUME IInv, [Next]_vars PROVE IInv'
    OBVIOUS
  <1>1. CASE onStdout
    BY <1>1, onStdoutKeeps
  <1>2. CASE onFinished
    BY <1>2, onFinishedKeeps
  <1>3. CASE ChildWrites
    BY <1>3, ChildWritesKeeps
  <1>4. CASE \E n \in 1..MaxThreshold : ClientReads(n)
    BY <1>4, ClientReadsKeeps
  <1>5. CASE \/ startTranscoding \/ terminateTranscoding \/ destructor \/ ChildEnds
             \/ UNCHANGED vars
    BY <1>5, ControlKeeps
  <1>6. QED
    BY <1>1, <1>2, <1>3, <1>4, <1>5 DEF Next

-----------------------------------------------------------------------------
LEMMA Invariance == Spec => []IInv
  BY InvariantInit, InvariantNext, PTL DEF Spec

(* Every variable of MencoderTranscoder keeps its type: in particular the  *)
(* ring never holds more than it was allocated for.                        *)
THEOREM TypeCorrect == Spec => []TypeOK
  <1>1. IInv => TypeOK
    BY DEF IInv
  <1>2. QED
    BY <1>1, Invariance, PTL

(* process() never leaves more than maxThreshold bytes in the write buffer *)
(* of the socket, for all thresholds with min < max.                       *)
THEOREM SocketNeverOverfilled == Spec => []SocketBounded
  <1>1. IInv => SocketBounded
    BY DEF IInv
  <1>2. QED
    BY <1>1, Invariance, PTL

(* Every byte a child writes reaches the client once and in order or is    *)
(* still on its way, whatever the sizes and however the runs follow.       *)
THEOREM StreamIsWhole == Spec => []NothingLost
  <1>1. IInv => NothingLost
    BY DEF IInv
  <1>2. QED
    BY <1>1, Invariance, PTL

(* The transcoder is in the state Transcoding only while it has a child or *)
(* the end of one is still to be handled by onFinished.                    *)
THEOREM TranscodingIsBounded == Spec => []TranscodingEnds
  <1>1. IInv => TranscodingEnds
    BY DEF IInv
  <1>2. QED
    BY <1>1, Invariance, PTL

(* While the child lives, process() leaves minThreshold bytes in the ring  *)
(* whenever it sends anything.                                             *)
LEMMA ReserveStep ==
  ASSUME IInv, running, onStdout, Len(sock') > Len(sock)
  PROVE  Len(ring') >= MinThreshold
  <1> DEFINE m == Least(RingSize - Len(ring), Len(pipe))
             bytes == ring \o Front(pipe, m)
             n == Portion(Len(bytes))
  <1>1. /\ pipe \in Seq(Bytes) /\ ring \in Seq(Bytes) /\ sock \in Seq(Bytes)
        /\ Len(pipe) \in Nat /\ Len(ring) \in Nat /\ Len(sock) \in Nat
        /\ Len(ring) <= RingSize /\ RingSize \in Nat
    BY Places, RingAssumption, ThresholdAssumption DEF IInv, TypeOK
  <1>2. m \in 0..Len(pipe)
    BY <1>1 DEF Least
  <1>3. sock' = sock \o Front(bytes, n) /\ ring' = Rest(bytes, n)
    BY DEF onStdout, process
  <1> HIDE DEF m
  <1>4. Front(pipe, m) \in Seq(Bytes)
    BY <1>1, <1>2, FrontAndRest
  <1>5. bytes \in Seq(Bytes) /\ Len(bytes) \in Nat
    BY <1>1, <1>4, ConcatProperties, LenProperties
  <1> HIDE DEF bytes
  <1>6. n \in 0..Len(bytes)
    BY <1>5, PortionFits DEF IInv
  <1>7. n > 0 => Len(bytes) - n >= MinThreshold
    BY <1>1, <1>5, ThresholdAssumption DEF Portion, Least
  <1> HIDE DEF n
  <1>8. /\ Front(bytes, n) \in Seq(Bytes) /\ Len(Front(bytes, n)) = n
        /\ Len(Rest(bytes, n)) = Len(bytes) - n
    BY <1>5, <1>6, FrontAndRest
  <1>9. Len(sock') = Len(sock) + n
    BY <1>1, <1>3, <1>8, ConcatProperties
  <1>10. n > 0
    BY <1>1, <1>6, <1>9
  <1>11. QED
    BY <1>3, <1>7, <1>8, <1>10

(* The reserve of a living child is never sent: the action property        *)
(* KeepsReserve holds for all thresholds.                                  *)
THEOREM ReserveIsKept == Spec => KeepsReserve
  <1>1. IInv => (running /\ onStdout /\ Len(sock') > Len(sock)
                   => Len(ring') >= MinThreshold)
    BY ReserveStep
  <1>2. QED
    BY <1>1, Invariance, PTL DEF KeepsReserve

-----------------------------------------------------------------------------
(* The child processes (PipeProcess).                                      *)
USE MainAssumption, ObjectAssumption, PidsAssumption, StartsAssumption DEF NoPid

LEMMA TypeInit == PipeInit => PipeTypeOK
  <1> SUFFICES ASSUME PipeInit PROVE PipeTypeOK
    OBVIOUS
  <1> USE DEF PipeInit, PipeTypeOK, Calls
  <1>1. childRun \in [Pids -> (Objects \cup {NoObject}) \X Nat]
    BY DEF PipeInit
  <1>2. \A t \in Threads : handler[t] = "died" => reaped[t] \in Pids
    OBVIOUS
  <1>3. QED
    BY <1>1, <1>2

LEMMA TypeNext == PipeTypeOK /\ [PipeNext]_pipe_vars => PipeTypeOK'
  <1> SUFFICES ASSUME PipeTypeOK, [PipeNext]_pipe_vars PROVE PipeTypeOK'
    OBVIOUS
  <1> USE DEF PipeTypeOK, Calls
  <1>1. ASSUME NEW o \in Objects, NEW op \in Calls, Call(o, op) PROVE PipeTypeOK'
    BY <1>1 DEF Call, kernel, counts
  <1>2. CASE Lock
    BY <1>2 DEF Lock, kernel, counts
  <1>3. ASSUME NEW p \in Pids, Fork(p) PROVE PipeTypeOK'
    BY <1>3 DEF Fork, InBody
  <1>4. CASE OtherBody
    BY <1>4 DEF OtherBody, InBody, kernel, counts
  <1>5. CASE Destroy
    BY <1>5 DEF Destroy, InBody, kernel, counts
  <1>6. CASE Unmask
    BY <1>6 DEF Unmask, kernel, counts
  <1>7. CASE Unlock
    BY <1>7 DEF Unlock, kernel, counts
  <1>8. ASSUME NEW o \in Objects, DeathActivate(o) PROVE PipeTypeOK'
    BY <1>8 DEF DeathActivate, kernel
  <1>9. ASSUME NEW p \in Pids, ChildDies(p) PROVE PipeTypeOK'
    BY <1>9 DEF ChildDies, counts
  <1>10. ASSUME NEW t \in Threads, Deliver(t) PROVE PipeTypeOK'
    BY <1>10 DEF Deliver, kernel, counts
  <1>11. ASSUME NEW t \in Threads, HandlerLock(t) PROVE PipeTypeOK'
    BY <1>11 DEF HandlerLock, kernel, counts
  <1>12. ASSUME NEW t \in Threads, NEW p \in Pids, Waitpid(t, p) PROVE PipeTypeOK'
    BY <1>12 DEF Waitpid, counts
  <1>13. ASSUME NEW t \in Threads, ChildDied(t) PROVE PipeTypeOK'
    <2>1. reaped[t] \in Pids /\ pids[reaped[t]] \in Objects \cup {NoObject}
      BY <1>13 DEF ChildDied, childDied
    <2>2. childRun[reaped[t]][2] \in Nat
      BY <2>1
    <2>3. CASE pids[reaped[t]] = NoObject
      BY <1>13, <2>1, <2>3 DEF ChildDied, childDied, kernel, counts
    <2>4. CASE pids[reaped[t]] # NoObject
      BY SMTT(30), <1>13, <2>1, <2>2, <2>4 DEF ChildDied, childDied, kernel, counts
    <2>5. QED
      BY <2>3, <2>4
  <1>14. ASSUME NEW t \in Threads, HandlerReturn(t) PROVE PipeTypeOK'
    BY <1>14 DEF HandlerReturn, kernel, counts
  <1>15. CASE UNCHANGED pipe_vars
    BY <1>15 DEF pipe_vars
  <1>16. QED
    BY <1>1, <1>2, <1>3, <1>4, <1>5, <1>6, <1>7, <1>8, <1>9, <1>10, <1>11,
       <1>12, <1>13, <1>14, <1>15 DEF PipeNext, MainStep, HandlerStep

(* Every variable keeps its type, for all constants.                       *)
THEOREM PipeTypeCorrect == PipeSpec => []PipeTypeOK
  BY TypeInit, TypeNext, PTL DEF PipeSpec

-----------------------------------------------------------------------------
(* Whoever is inside holds the mutex, which makes OneInside inductive.     *)
Inside ==
  /\ CallInside => mutex = Main
  /\ \A t \in Threads : HandlerInside(t) => mutex = t
  /\ OneInside

LEMMA InsideNext == PipeTypeOK /\ Inside /\ [PipeNext]_pipe_vars => Inside'
  <1> SUFFICES ASSUME PipeTypeOK, Inside, [PipeNext]_pipe_vars PROVE Inside'
    OBVIOUS
  <1> USE DEF Inside, OneInside, CallInside, HandlerInside
  <1>1. ASSUME NEW o \in Objects, NEW op \in Calls, Call(o, op) PROVE Inside'
    BY <1>1 DEF Call
  <1>2. CASE Lock
    BY <1>2 DEF Lock
  <1>3. ASSUME NEW p \in Pids, Fork(p) PROVE Inside'
    BY <1>3 DEF Fork, InBody
  <1>4. CASE OtherBody
    BY <1>4 DEF OtherBody, InBody
  <1>5. CASE Destroy
    BY <1>5 DEF Destroy, InBody
  <1>6. CASE Unmask
    BY <1>6 DEF Unmask
  <1>7. CASE Unlock
    BY <1>7 DEF Unlock
  <1>8. ASSUME NEW o \in Objects, DeathActivate(o) PROVE Inside'
    BY <1>8 DEF DeathActivate
  <1>9. ASSUME NEW p \in Pids, ChildDies(p) PROVE Inside'
    BY <1>9 DEF ChildDies
  <1>10. ASSUME NEW t \in Threads, Deliver(t) PROVE Inside'
    BY <1>10 DEF Deliver, PipeTypeOK
  <1>11. ASSUME NEW t \in Threads, HandlerLock(t) PROVE Inside'
    BY <1>11 DEF HandlerLock, PipeTypeOK
  <1>12. ASSUME NEW t \in Threads, NEW p \in Pids, Waitpid(t, p) PROVE Inside'
    BY <1>12 DEF Waitpid, PipeTypeOK
  <1>13. ASSUME NEW t \in Threads, ChildDied(t) PROVE Inside'
    BY <1>13 DEF ChildDied, childDied, PipeTypeOK
  <1>14. ASSUME NEW t \in Threads, HandlerReturn(t) PROVE Inside'
    BY <1>14 DEF HandlerReturn, PipeTypeOK
  <1>15. CASE UNCHANGED pipe_vars
    BY <1>15 DEF pipe_vars
  <1>16. QED
    BY <1>1, <1>2, <1>3, <1>4, <1>5, <1>6, <1>7, <1>8, <1>9, <1>10, <1>11,
       <1>12, <1>13, <1>14, <1>15 DEF PipeNext, MainStep, HandlerStep

(* Nobody touches the registry together with a call or another handler.    *)
THEOREM MutualExclusion == PipeSpec => []OneInside
  <1>1. PipeInit => Inside
    BY DEF PipeInit, Inside, OneInside, CallInside, HandlerInside
  <1>2. Inside => OneInside
    BY DEF Inside
  <1>3. QED
    BY <1>1, <1>2, InsideNext, PipeTypeCorrect, PTL DEF PipeSpec

-----------------------------------------------------------------------------
(* Most steps touch neither the registry nor the pids of the objects, free *)
(* no pid, and take no handler away from the pid it has collected.         *)
LEMMA RegistryKept ==
  ASSUME RegistryTight,
         UNCHANGED << m_pid, pids >>,
         \A p \in Pids : child'[p] = "free" => child[p] = "free",
         \A t \in Threads :
           handler[t] = "died" => handler'[t] = "died" /\ reaped'[t] = reaped[t]
  PROVE  RegistryTight'
  <1>1. m_pid' = m_pid /\ pids' = pids
    OBVIOUS
  <1>2. \A o \in Objects, p \in Pids : m_pid'[o] = p <=> pids'[p] = o
    <2>1. \A o \in Objects, p \in Pids : m_pid[o] = p <=> pids[p] = o
      BY Zenon DEF RegistryTight
    <2>2. ASSUME NEW o \in Objects, NEW p \in Pids PROVE m_pid'[o] = p <=> pids'[p] = o
      <3>1. m_pid[o] = p <=> pids[p] = o
        BY <2>1, Zenon
      <3>2. m_pid'[o] = m_pid[o] /\ pids'[p] = pids[p]
        BY <1>1, Zenon
      <3>3. QED
        BY <3>1, <3>2, Zenon
    <2>3. QED
      BY <2>2, Zenon
  <1>3. ASSUME NEW p \in Pids, child'[p] = "free", pids'[p] # NoObject
        PROVE  \E t \in Threads : handler'[t] = "died" /\ reaped'[t] = p
    <2>1. PICK t \in Threads : handler[t] = "died" /\ reaped[t] = p
      BY <1>1, <1>3 DEF RegistryTight
    <2>2. QED
      BY <2>1
  <1>4. QED
    BY <1>2, <1>3 DEF RegistryTight

LEMMA RegistryNext ==
        PipeTypeOK /\ Inside /\ RegistryTight /\ [PipeNext]_pipe_vars => RegistryTight'
  <1> SUFFICES ASSUME PipeTypeOK, Inside, RegistryTight, [PipeNext]_pipe_vars
               PROVE  RegistryTight'
    OBVIOUS
  <1>1. ASSUME NEW o \in Objects, NEW op \in Calls, Call(o, op)
        PROVE  RegistryTight'
    BY <1>1, RegistryKept DEF Call, kernel
  <1>2. CASE Lock
    BY <1>2, RegistryKept DEF Lock, kernel
  <1>3. ASSUME NEW p \in Pids, Fork(p) PROVE RegistryTight'
    <2>1. /\ pc = "body" /\ this \in Objects /\ m_pid[this] = NoPid
          /\ child[p] = "free" /\ p # NoPid
      BY <1>3 DEF Fork, InBody, PipeTypeOK
    <2>2. pids[p] = NoObject
      BY <2>1 DEF RegistryTight, Inside, OneInside, CallInside, HandlerInside
    <2>3. /\ m_pid' = [m_pid EXCEPT ![this] = p]
          /\ pids' = [pids EXCEPT ![p] = this]
          /\ child' = [child EXCEPT ![p] = "running"]
          /\ UNCHANGED << handler, reaped >>
      BY <1>3 DEF Fork
    <2>4. \A o \in Objects, q \in Pids : m_pid'[o] = q <=> pids'[q] = o
      BY <2>1, <2>2, <2>3 DEF PipeTypeOK, RegistryTight
    <2>5. QED
      BY <2>1, <2>3, <2>4 DEF PipeTypeOK, RegistryTight
  <1>4. CASE OtherBody
    BY <1>4, RegistryKept DEF OtherBody, kernel
  <1>5. CASE Destroy
    <2>1. /\ this \in Objects
          /\ pids' = IF m_pid[this] # NoPid
                     THEN [pids EXCEPT ![m_pid[this]] = NoObject]
                     ELSE pids
          /\ m_pid' = [m_pid EXCEPT ![this] = NoPid]
          /\ UNCHANGED << child, handler, reaped >>
      BY <1>5 DEF Destroy, InBody, PipeTypeOK, kernel
    <2>2. QED
      BY <2>1 DEF PipeTypeOK, RegistryTight
  <1>6. CASE Unmask
    BY <1>6, RegistryKept DEF Unmask, kernel
  <1>7. CASE Unlock
    BY <1>7, RegistryKept DEF Unlock, kernel
  <1>8. ASSUME NEW o \in Objects, DeathActivate(o) PROVE RegistryTight'
    BY <1>8, RegistryKept DEF DeathActivate, kernel
  <1>9. ASSUME NEW p \in Pids, ChildDies(p) PROVE RegistryTight'
    <2>1. \A q \in Pids : child'[q] = "free" => child[q] = "free"
      BY <1>9 DEF ChildDies, PipeTypeOK
    <2>2. UNCHANGED << m_pid, pids, handler, reaped >>
      BY <1>9 DEF ChildDies
    <2>3. QED
      BY <2>1, <2>2, RegistryKept
  <1>10. ASSUME NEW t \in Threads, Deliver(t) PROVE RegistryTight'
    <2>1. \A u \in Threads :
            handler[u] = "died" => handler'[u] = "died" /\ reaped'[u] = reaped[u]
      BY <1>10 DEF Deliver, PipeTypeOK
    <2>2. UNCHANGED << m_pid, pids, child >>
      BY <1>10 DEF Deliver, kernel
    <2>3. QED
      BY <2>1, <2>2, RegistryKept
  <1>11. ASSUME NEW t \in Threads, HandlerLock(t) PROVE RegistryTight'
    <2>1. \A u \in Threads :
            handler[u] = "died" => handler'[u] = "died" /\ reaped'[u] = reaped[u]
      BY <1>11 DEF HandlerLock, PipeTypeOK
    <2>2. UNCHANGED << m_pid, pids, child >>
      BY <1>11 DEF HandlerLock, kernel
    <2>3. QED
      BY <2>1, <2>2, RegistryKept
  <1>12. ASSUME NEW t \in Threads, NEW p \in Pids, Waitpid(t, p)
         PROVE  RegistryTight'
    <2>1. /\ handler[t] = "wait" /\ UNCHANGED << m_pid, pids >>
          /\ child' = [child EXCEPT ![p] = "free"]
          /\ reaped' = [reaped EXCEPT ![t] = p]
          /\ handler' = [handler EXCEPT ![t] = "died"]
      BY <1>12 DEF Waitpid
    <2>2. /\ handler'[t] = "died" /\ reaped'[t] = p
          /\ \A u \in Threads \ {t} : handler'[u] = handler[u] /\ reaped'[u] = reaped[u]
      BY <2>1 DEF PipeTypeOK
    <2>3. ASSUME NEW q \in Pids, child'[q] = "free", pids'[q] # NoObject
          PROVE  \E u \in Threads : handler'[u] = "died" /\ reaped'[u] = q
      <3>1. CASE q = p
        BY <2>2, <3>1
      <3>2. CASE q # p
        <4>1. child[q] = "free" /\ pids[q] # NoObject
          BY <2>1, <2>3, <3>2 DEF PipeTypeOK
        <4>2. PICK u \in Threads : handler[u] = "died" /\ reaped[u] = q
          BY <4>1 DEF RegistryTight
        <4>3. QED
          BY <2>1, <2>2, <4>2
      <3>3. QED
        BY <3>1, <3>2
    <2>4. QED
      BY <2>1, <2>3 DEF RegistryTight
  <1>13. ASSUME NEW t \in Threads, ChildDied(t) PROVE RegistryTight'
    <2>1. handler[t] = "died"
      BY <1>13 DEF ChildDied, childDied
    <2>2. PICK p \in Pids : reaped[t] = p
      BY <2>1 DEF PipeTypeOK
    <2>3. PICK o \in Objects \cup {NoObject} : pids[p] = o
      BY DEF PipeTypeOK
    <2>4. /\ handler' = [handler EXCEPT ![t] = "wait"]
          /\ reaped' = [reaped EXCEPT ![t] = NoPid]
          /\ child' = child
      BY <1>13 DEF ChildDied, childDied, kernel
    <2>5. \A u \in Threads : u # t => handler'[u] = handler[u] /\ reaped'[u] = reaped[u]
      BY <2>4
    <2>6. pids' = [pids EXCEPT ![p] = NoObject]
      BY <1>13, <2>2, <2>3 DEF ChildDied, childDied, PipeTypeOK
    <2>7. m_pid' = IF o = NoObject THEN m_pid ELSE [m_pid EXCEPT ![o] = NoPid]
      BY <1>13, <2>2, <2>3 DEF ChildDied, childDied
    <2>8. /\ pids \in [Pids -> Objects \cup {NoObject}]
          /\ m_pid \in [Objects -> Pids \cup {NoPid}]
      BY DEF PipeTypeOK
    <2>9. \A x \in Objects, q \in Pids : m_pid'[x] = q <=> pids'[q] = x
      <3>1. CASE o = NoObject
        <4>1. m_pid' = m_pid /\ pids' = pids
          BY <2>3, <2>6, <2>7, <2>8, <3>1
        <4>2. QED
          BY <4>1 DEF RegistryTight
      <3>2. CASE o # NoObject
        <4>1. o \in Objects /\ m_pid' = [m_pid EXCEPT ![o] = NoPid]
          BY <2>7, <3>2
        <4>2. m_pid[o] = p
          BY <2>3, <4>1 DEF RegistryTight
        <4>3. ASSUME NEW x \in Objects, NEW q \in Pids
              PROVE  m_pid'[x] = q <=> pids'[q] = x
          <5>1. CASE x = o
            BY <2>6, <2>8, <2>3, <4>1, <4>2, <5>1 DEF RegistryTight
          <5>2. CASE x # o
            BY <2>6, <2>8, <2>3, <4>1, <4>2, <5>2 DEF RegistryTight
          <5>3. QED
            BY <5>1, <5>2
        <4>4. QED
          BY <4>3
      <3>3. QED
        BY <3>1, <3>2
    <2>10. ASSUME NEW q \in Pids, child'[q] = "free", pids'[q] # NoObject
           PROVE  \E u \in Threads : handler'[u] = "died" /\ reaped'[u] = q
      <3>1. q # p /\ pids[q] # NoObject /\ child[q] = "free"
        BY <2>4, <2>6, <2>8, <2>10
      <3>2. PICK u \in Threads : handler[u] = "died" /\ reaped[u] = q
        BY <3>1 DEF RegistryTight
      <3>3. u # t
        BY <2>2, <3>1, <3>2
      <3>4. QED
        BY <2>5, <3>2, <3>3
    <2>11. QED
      BY <2>9, <2>10 DEF RegistryTight
  <1>14. ASSUME NEW t \in Threads, HandlerReturn(t) PROVE RegistryTight'
    <2>1. \A u \in Threads :
            handler[u] = "died" => handler'[u] = "died" /\ reaped'[u] = reaped[u]
      BY <1>14 DEF HandlerReturn, PipeTypeOK
    <2>2. UNCHANGED << m_pid, pids, child >>
      BY <1>14 DEF HandlerReturn, kernel
    <2>3. QED
      BY <2>1, <2>2, RegistryKept
  <1>15. CASE UNCHANGED pipe_vars
    BY <1>15, RegistryKept DEF pipe_vars, kernel
  <1>16. QED
    BY <1>1, <1>2, <1>3, <1>4, <1>5, <1>6, <1>7, <1>8, <1>9, <1>10, <1>11,
       <1>12, <1>13, <1>14, <1>15 DEF PipeNext, MainStep, HandlerStep

(* The registry and the objects agree, and no freed pid is registered      *)
(* except while its handler is about to remove it.                         *)
THEOREM RegistryIsTight == PipeSpec => []RegistryTight
  <1>1. PipeInit => Inside /\ RegistryTight
    BY DEF PipeInit, Inside, OneInside, CallInside, HandlerInside, RegistryTight
  <1>2. QED
    BY <1>1, InsideNext, RegistryNext, PipeTypeCorrect, PTL DEF PipeSpec

-----------------------------------------------------------------------------
(* A registered child is the object's own and is its latest run ...        *)
RunsKnown ==
  \A p \in Pids :
    pids[p] # NoObject => /\ childRun[p][1] = pids[p]
                         /\ childRun[p][2] = started[pids[p]]

(* ... and the status an object holds is that of the last run that died.   *)
StatusIsLatest ==
  \A o \in Objects : alive[o] => m_exitStatus[o] = finished[o] + deathBytes[o]

Settled == PipeTypeOK /\ Inside /\ RegistryTight

LEMMA RunsNext == Settled /\ RunsKnown /\ [PipeNext]_pipe_vars => RunsKnown'
  <1> SUFFICES ASSUME Settled, RunsKnown, [PipeNext]_pipe_vars PROVE RunsKnown'
    OBVIOUS
  <1> USE DEF RunsKnown
  <1>1. ASSUME NEW o \in Objects, NEW op \in Calls, Call(o, op)
        PROVE  RunsKnown'
    BY <1>1 DEF Call, kernel, counts
  <1>2. CASE Lock
    BY <1>2 DEF Lock, kernel, counts
  <1>3. ASSUME NEW p \in Pids, Fork(p) PROVE RunsKnown'
    <2>1. /\ this \in Objects /\ m_pid[this] = NoPid
          /\ pids' = [pids EXCEPT ![p] = this]
          /\ childRun' = [childRun EXCEPT ![p] = << this, started[this] + 1 >>]
          /\ started' = [started EXCEPT ![this] = @ + 1]
      BY <1>3 DEF Fork, InBody, Settled, PipeTypeOK
    <2>2. \A q \in Pids : q # p => pids[q] # this
      BY <2>1 DEF Settled, RegistryTight
    <2>3. pids \in [Pids -> Objects \cup {NoObject}] /\ DOMAIN childRun = Pids
          /\ started \in [Objects -> Nat]
      BY DEF Settled, PipeTypeOK
    <2>4. ASSUME NEW q \in Pids, pids'[q] # NoObject
          PROVE  childRun'[q][1] = pids'[q] /\ childRun'[q][2] = started'[pids'[q]]
      <3>1. CASE q = p
        BY <2>1, <2>3, <3>1
      <3>2. CASE q # p
        BY <2>1, <2>2, <2>3, <2>4, <3>2
      <3>3. QED
        BY <3>1, <3>2
    <2>5. QED
      BY <2>4
  <1>4. CASE OtherBody
    BY <1>4 DEF OtherBody, kernel, counts
  <1>5. CASE Destroy
    BY <1>5 DEF Destroy, InBody, kernel, counts, Settled, PipeTypeOK
  <1>6. CASE Unmask
    BY <1>6 DEF Unmask, kernel, counts
  <1>7. CASE Unlock
    BY <1>7 DEF Unlock, kernel, counts
  <1>8. ASSUME NEW o \in Objects, DeathActivate(o) PROVE RunsKnown'
    BY <1>8 DEF DeathActivate, kernel
  <1>9. ASSUME NEW p \in Pids, ChildDies(p) PROVE RunsKnown'
    BY <1>9 DEF ChildDies, counts
  <1>10. ASSUME NEW t \in Threads, Deliver(t) PROVE RunsKnown'
    BY <1>10 DEF Deliver, kernel, counts
  <1>11. ASSUME NEW t \in Threads, HandlerLock(t) PROVE RunsKnown'
    BY <1>11 DEF HandlerLock, kernel, counts
  <1>12. ASSUME NEW t \in Threads, NEW p \in Pids, Waitpid(t, p)
         PROVE  RunsKnown'
    BY <1>12 DEF Waitpid, counts
  <1>13. ASSUME NEW t \in Threads, ChildDied(t) PROVE RunsKnown'
    BY <1>13 DEF ChildDied, childDied, kernel, counts, Settled, PipeTypeOK
  <1>14. ASSUME NEW t \in Threads, HandlerReturn(t) PROVE RunsKnown'
    BY <1>14 DEF HandlerReturn, kernel, counts
  <1>15. CASE UNCHANGED pipe_vars
    BY <1>15 DEF pipe_vars
  <1>16. QED
    BY <1>1, <1>2, <1>3, <1>4, <1>5, <1>6, <1>7, <1>8, <1>9, <1>10, <1>11,
       <1>12, <1>13, <1>14, <1>15 DEF PipeNext, MainStep, HandlerStep

THEOREM RunsAreKnown == PipeSpec => [](Settled /\ RunsKnown)
  <1>1. PipeInit => Settled /\ RunsKnown
    BY TypeInit DEF PipeInit, Inside, OneInside, CallInside, HandlerInside,
                    RegistryTight, Settled, RunsKnown
  <1>2. Settled /\ [PipeNext]_pipe_vars => Settled'
    BY TypeNext, InsideNext, RegistryNext DEF Settled
  <1>3. QED
    BY <1>1, <1>2, RunsNext, PTL DEF PipeSpec

(* No call can signal a process that is not a child of its own object.     *)
THEOREM KillIsSafe == PipeSpec => []KillHitsOwnChild
  <1>1. Settled /\ RunsKnown => KillHitsOwnChild
    <2> SUFFICES ASSUME Settled, RunsKnown, pc = "body", m_pid[this] # NoPid
                 PROVE  /\ child[m_pid[this]] # "free"
                        /\ childRun[m_pid[this]][1] = this
      BY DEF KillHitsOwnChild
    <2>1. this \in Objects /\ m_pid[this] \in Pids
      BY DEF Settled, PipeTypeOK
    <2>2. pids[m_pid[this]] = this
      BY <2>1 DEF Settled, RegistryTight
    <2>3. \A t \in Threads : handler[t] # "died"
      BY DEF Settled, Inside, OneInside, CallInside, HandlerInside
    <2>4. PICK p \in Pids : m_pid[this] = p
      BY <2>1
    <2>5. pids[p] = this /\ this # NoObject
      BY <2>1, <2>2, <2>4
    <2>6. child[p] # "free"
      BY <2>3, <2>5 DEF Settled, RegistryTight
    <2>7. childRun[p][1] = this
      BY <2>5 DEF RunsKnown
    <2>8. QED
      BY <2>4, <2>6, <2>7
  <1>2. QED
    BY <1>1, RunsAreKnown, PTL

-----------------------------------------------------------------------------
Accounts == StartFinishBalance /\ StatusIsLatest

LEMMA AccountsNext ==
        Settled /\ RunsKnown /\ Accounts /\ [PipeNext]_pipe_vars => Accounts'
  <1> SUFFICES ASSUME Settled, RunsKnown, Accounts, [PipeNext]_pipe_vars
               PROVE  Accounts'
    OBVIOUS
  <1>a. /\ m_pid \in [Objects -> Pids \cup {NoPid}]
        /\ m_exitStatus \in [Objects -> Nat]
        /\ deathBytes \in [Objects -> Nat]
        /\ alive \in [Objects -> BOOLEAN]
        /\ started \in [Objects -> Nat]
        /\ finished \in [Objects -> Nat]
    BY DEF Settled, PipeTypeOK
  <1> USE <1>a DEF Accounts, StartFinishBalance, StatusIsLatest
  <1>1. ASSUME NEW o \in Objects, NEW op \in Calls, Call(o, op)
        PROVE  Accounts'
    BY <1>1 DEF Call, kernel, counts
  <1>2. CASE Lock
    BY <1>2 DEF Lock, kernel, counts
  <1>3. ASSUME NEW p \in Pids, Fork(p) PROVE Accounts'
    <2>1. /\ this \in Objects /\ m_pid[this] = NoPid /\ p # NoPid
          /\ m_pid' = [m_pid EXCEPT ![this] = p]
          /\ started' = [started EXCEPT ![this] = @ + 1]
          /\ UNCHANGED << m_exitStatus, deathBytes, alive, finished >>
      BY <1>3 DEF Fork, InBody, Settled, PipeTypeOK
    <2>2. QED
      BY <2>1
  <1>4. CASE OtherBody
    BY <1>4 DEF OtherBody, kernel, counts
  <1>5. CASE Destroy
    <2>1. /\ this \in Objects
          /\ alive' = [alive EXCEPT ![this] = FALSE]
          /\ m_pid' = [m_pid EXCEPT ![this] = NoPid]
          /\ deathBytes' = [deathBytes EXCEPT ![this] = 0]
          /\ UNCHANGED << m_exitStatus, started, finished >>
      BY <1>5 DEF Destroy, InBody, counts, Settled, PipeTypeOK
    <2>2. \A o \in Objects : alive'[o] => o # this
      BY <2>1
    <2>3. QED
      BY <2>1, <2>2
  <1>6. CASE Unmask
    BY <1>6 DEF Unmask, kernel, counts
  <1>7. CASE Unlock
    BY <1>7 DEF Unlock, kernel, counts
  <1>8. ASSUME NEW o \in Objects, DeathActivate(o) PROVE Accounts'
    <2>1. /\ deathBytes[o] > 0
          /\ deathBytes' = [deathBytes EXCEPT ![o] = @ - 1]
          /\ finished' = [finished EXCEPT ![o] = @ + 1]
          /\ UNCHANGED << m_pid, m_exitStatus, alive, started >>
      BY <1>8 DEF DeathActivate
    <2>2. QED
      BY <2>1
  <1>9. ASSUME NEW p \in Pids, ChildDies(p)
        PROVE  Accounts'
    BY <1>9 DEF ChildDies, kernel, counts
  <1>10. ASSUME NEW t \in Threads, Deliver(t)
        PROVE  Accounts'
    BY <1>10 DEF Deliver, kernel, counts
  <1>11. ASSUME NEW t \in Threads, HandlerLock(t)
        PROVE  Accounts'
    BY <1>11 DEF HandlerLock, kernel, counts
  <1>12. ASSUME NEW t \in Threads, NEW p \in Pids, Waitpid(t, p)
        PROVE  Accounts'
    BY <1>12 DEF Waitpid, kernel, counts
  <1>13. ASSUME NEW t \in Threads, ChildDied(t) PROVE Accounts'
    <2>1. PICK p \in Pids : reaped[t] = p
      BY <1>13 DEF ChildDied, childDied, Settled, PipeTypeOK
    <2>2. UNCHANGED << alive, started, finished >>
      BY <1>13 DEF ChildDied, childDied, counts
    <2>3. CASE pids[p] = NoObject
      <3>1. UNCHANGED << m_pid, m_exitStatus, deathBytes >>
        BY <1>13, <2>1, <2>3 DEF ChildDied, childDied
      <3>2. QED
        BY <2>2, <3>1
    <2>4. CASE pids[p] # NoObject
      <3>1. PICK o \in Objects : pids[p] = o
        BY <2>4 DEF Settled, PipeTypeOK
      <3>2. m_pid[o] = p /\ p # NoPid
        BY <3>1 DEF Settled, RegistryTight
      <3>3. childRun[p][2] = started[o]
        BY <2>4, <3>1 DEF RunsKnown
      <3>4. /\ m_pid' = [m_pid EXCEPT ![o] = NoPid]
            /\ m_exitStatus' = [m_exitStatus EXCEPT ![o] = started[o]]
            /\ deathBytes' = [deathBytes EXCEPT ![o] = @ + 1]
        BY <1>13, <2>1, <2>4, <3>1, <3>3 DEF ChildDied, childDied
      <3>5. QED
        BY <2>2, <3>2, <3>4
    <2>5. QED
      BY <2>3, <2>4
  <1>14. ASSUME NEW t \in Threads, HandlerReturn(t)
        PROVE  Accounts'
    BY <1>14 DEF HandlerReturn, kernel, counts
  <1>15. CASE UNCHANGED pipe_vars
    BY <1>15 DEF pipe_vars
  <1>16. QED
    BY <1>1, <1>2, <1>3, <1>4, <1>5, <1>6, <1>7, <1>8, <1>9, <1>10, <1>11,
       <1>12, <1>13, <1>14, <1>15 DEF PipeNext, MainStep, HandlerStep

LEMMA AccountsAlways == PipeSpec => [](Settled /\ RunsKnown /\ Accounts)
  <1>1. PipeInit => Accounts
    BY DEF PipeInit, Accounts, StartFinishBalance, StatusIsLatest
  <1>2. QED
    BY <1>1, RunsAreKnown, AccountsNext, PTL DEF PipeSpec

(* Starts and finishes balance for every object that lives.                *)
THEOREM StartsFinishOnce == PipeSpec => []StartFinishBalance
  <1>1. Accounts => StartFinishBalance
    BY DEF Accounts
  <1>2. QED
    BY <1>1, AccountsAlways, PTL

(* The n-th finished() reports the n-th run or a later one, never an older.*)
THEOREM ReportsAreRecent == PipeSpec => ReportsNoOlderRun
  <1> DEFINE Recent == \A o \in Objects : finished'[o] # finished[o] =>
                         reported'[o] \in finished'[o]..started[o]
  <1>1. Settled /\ Accounts /\ [PipeNext]_pipe_vars => [Recent]_pipe_vars
    <2> SUFFICES ASSUME Settled, Accounts, PipeNext, NEW o \in Objects,
                        finished'[o] # finished[o]
                 PROVE  reported'[o] \in finished'[o]..started[o]
      OBVIOUS
    <2>1. PICK x \in Objects : DeathActivate(x)
      BY DEF PipeNext, MainStep, HandlerStep, Call, Lock, Fork, OtherBody, Destroy,
             Unmask, Unlock, ChildDies, Deliver, HandlerLock, Waitpid,
             ChildDied, childDied, HandlerReturn, counts
    <2>2. /\ alive[x] /\ deathBytes[x] > 0
          /\ finished' = [finished EXCEPT ![x] = @ + 1]
          /\ reported' = [reported EXCEPT ![x] = m_exitStatus[x]]
      BY <2>1 DEF DeathActivate
    <2>3. /\ finished \in [Objects -> Nat] /\ started \in [Objects -> Nat]
          /\ deathBytes \in [Objects -> Nat] /\ reported \in [Objects -> Nat]
      BY DEF Settled, PipeTypeOK
    <2>4. x = o
      BY <2>2, <2>3
    <2>5. /\ m_exitStatus[o] = finished[o] + deathBytes[o]
          /\ started[o] >= finished[o] + deathBytes[o]
      BY <2>2, <2>3, <2>4 DEF Accounts, StartFinishBalance, StatusIsLatest
    <2>6. QED
      BY <2>2, <2>3, <2>4, <2>5
  <1>2. QED
    BY <1>1, AccountsAlways, PTL DEF PipeSpec, ReportsNoOlderRun
=============================================================================
