---------------------------- MODULE BufferProofs ----------------------------
(* Proofs about Buffer, for a buffer of any size and any bytes. *)
EXTENDS Buffer, TLAPS, SequenceTheorems

(* The inductive invariant. *)
IndInv == TypeOK /\ PointersOrdered /\ DrainedIsReset

-----------------------------------------------------------------------------
(* What one recv() or one struct puts into the buffer is a sequence of      *)
(* bytes that is not empty and not longer than the buffer.                  *)
LEMMA StringsType ==
  \A s : s \in Strings <=> s \in Seq(Byte) /\ Len(s) \in 1..N
<1>1. ASSUME NEW s, s \in Strings PROVE s \in Seq(Byte) /\ Len(s) \in 1..N
  <2>1. PICK k \in 1..N : s \in [1..k -> Byte]
    BY <1>1 DEF Strings
  <2>2. s \in Seq(Byte)
    BY <2>1, NAssumption, SeqDef
  <2>3. Len(s) = k
    BY <2>1, <2>2, NAssumption, LenProperties
  <2> QED BY <2>2, <2>3
<1>2. ASSUME NEW s, s \in Seq(Byte), Len(s) \in 1..N PROVE s \in Strings
  BY <1>2, LenProperties DEF Strings
<1> QED BY <1>1, <1>2

(* A single byte, as buffer_write stores it. *)
LEMMA OneByte ==
  ASSUME NEW c \in Byte
  PROVE  <<c>> \in Strings /\ Len(<<c>>) = 1
<1>1. <<c>> \in Seq(Byte) /\ Len(<<c>>) = 1
  OBVIOUS
<1>2. 1 \in 1..N
  BY NAssumption
<1> QED BY <1>1, <1>2, StringsType

(* Storing bytes that fit keeps the pointers in order. *)
LEMMA StoreStep ==
  ASSUME IndInv, NEW s \in Strings, Len(s) <= N - write, Store(s)
  PROVE  IndInv'
<1>1. s \in Seq(Byte) /\ Len(s) \in 1..N
  BY StringsType
<1>2. /\ read' = read /\ write' = write + Len(s)
      /\ mem' = [i \in Offset |-> IF i \in write..(write + Len(s) - 1)
                                    THEN s[i - write + 1] ELSE mem[i]]
  BY DEF Store
<1>3. read \in Nat /\ write \in Nat /\ read <= write /\ write <= N
  BY NAssumption DEF IndInv, TypeOK, PointersOrdered
<1>4. \A i \in write..(write + Len(s) - 1) : s[i - write + 1] \in Byte
  <2> TAKE i \in write..(write + Len(s) - 1)
  <2>1. i - write + 1 \in 1..Len(s)
    BY <1>1, <1>3
  <2> QED BY <1>1, <2>1, ElementOfSeq
<1>5. mem' \in [Offset -> Byte]
  BY <1>2, <1>4 DEF IndInv, TypeOK
<1> QED BY <1>1, <1>2, <1>3, <1>5, NAssumption
        DEF IndInv, TypeOK, PointersOrdered, DrainedIsReset

(* So does consuming bytes that are there; a drained buffer is compacted. *)
LEMMA ReadAdvStep ==
  ASSUME IndInv, NEW n \in 1..N, buffer_read_adv(n)
  PROVE  IndInv'
BY NAssumption DEF IndInv, TypeOK, PointersOrdered, DrainedIsReset, buffer_read_adv

(* So does moving the unread bytes to the front. *)
LEMMA CompactStep ==
  ASSUME IndInv, buffer_compact
  PROVE  IndInv'
<1>1. read \in Nat /\ write \in Nat /\ read <= write /\ write <= N
  BY NAssumption DEF IndInv, TypeOK, PointersOrdered
<1>2. \A i \in Offset : i < write - read => i + read \in Offset
  BY <1>1, NAssumption DEF Offset
<1>3. mem' \in [Offset -> Byte]
  BY <1>2 DEF buffer_compact, IndInv, TypeOK
<1> QED BY <1>1, <1>3, NAssumption
        DEF buffer_compact, IndInv, TypeOK, PointersOrdered, DrainedIsReset

(* The pointers stay in order, inside of the block, and a drained buffer    *)
(* has its whole capacity again, after any sequence of operations.          *)
THEOREM BufferSafe == Spec => [](TypeOK /\ PointersOrdered /\ DrainedIsReset)
<1>1. Init => IndInv
  BY NAssumption DEF Init, IndInv, TypeOK, PointersOrdered, DrainedIsReset
<1>2. IndInv /\ [Next]_vars => IndInv'
  <2> SUFFICES ASSUME IndInv, [Next]_vars PROVE IndInv'
    OBVIOUS
  <2>1. CASE buffer_reset
    BY <2>1, NAssumption DEF buffer_reset, IndInv, TypeOK, PointersOrdered, DrainedIsReset
  <2>2. ASSUME NEW s \in Strings, buffer_write_adv(s) \/ buffer_write_struct(s) PROVE IndInv'
    BY <2>2, StoreStep DEF buffer_write_adv, buffer_write_struct
  <2>3. ASSUME NEW c \in Byte, buffer_write(c) PROVE IndInv'
    <3>1. Len(<<c>>) <= N - write
      BY <2>3, OneByte, NAssumption DEF buffer_write, can_write, IndInv, TypeOK
    <3> QED BY <2>3, <3>1, OneByte, StoreStep DEF buffer_write
  <2>4. CASE buffer_compact
    BY <2>4, CompactStep
  <2>5. ASSUME NEW n \in 1..N, buffer_read_adv(n) PROVE IndInv'
    BY <2>5, ReadAdvStep
  <2>6. CASE buffer_read
    BY <2>6, ReadAdvStep, NAssumption DEF buffer_read
  <2>7. CASE UNCHANGED vars
    BY <2>7 DEF vars, IndInv, TypeOK, PointersOrdered, DrainedIsReset
  <2> QED BY <2>1, <2>2, <2>3, <2>4, <2>5, <2>6, <2>7 DEF Next
<1> QED BY <1>1, <1>2, PTL DEF Spec, IndInv

-----------------------------------------------------------------------------
(* The bytes between two offsets of a block. *)
Slice(m, r, w) == [i \in 1..(w - r) |-> m[r + i - 1]]

(* They are a sequence of bytes, and which ones. *)
LEMMA SliceIsSeq ==
  ASSUME NEW m \in [Offset -> Byte], NEW r \in 0..N, NEW w \in 0..N, r <= w
  PROVE  /\ Slice(m, r, w) \in Seq(Byte)
         /\ Len(Slice(m, r, w)) = w - r
         /\ \A i \in 1..(w - r) : Slice(m, r, w)[i] = m[r + i - 1]
<1>1. w - r \in Nat
  BY NAssumption
<1>2. \A i \in 1..(w - r) : r + i - 1 \in Offset
  BY NAssumption DEF Offset
<1>3. Slice(m, r, w) \in [1..(w - r) -> Byte]
  BY <1>2 DEF Slice
<1>4. Slice(m, r, w) \in Seq(Byte)
  BY <1>1, <1>3, SeqDef
<1>5. Len(Slice(m, r, w)) = w - r
  BY <1>1, <1>3, <1>4, LenProperties
<1> QED BY <1>4, <1>5 DEF Slice

(* The unread bytes before and after a step. *)
LEMMA UnreadIsSeq ==
  /\ IndInv => /\ Unread \in Seq(Byte) /\ Len(Unread) = write - read
               /\ \A i \in 1..(write - read) : Unread[i] = mem[read + i - 1]
  /\ IndInv' => /\ Unread' \in Seq(Byte) /\ Len(Unread') = write' - read'
                /\ \A i \in 1..(write' - read') : Unread'[i] = mem'[read' + i - 1]
BY SliceIsSeq DEF IndInv, TypeOK, PointersOrdered, Unread, Slice

(* What a concatenation is, element by element. *)
LEMMA ConcatIs ==
  ASSUME NEW u \in Seq(Byte), NEW s \in Seq(Byte), NEW k \in Nat, Len(u) = k
  PROVE  /\ u \o s \in Seq(Byte) /\ Len(u \o s) = k + Len(s)
         /\ \A i \in 1..(k + Len(s)) :
              (u \o s)[i] = IF i <= k THEN u[i] ELSE s[i - k]
BY ConcatProperties

(* Storing bytes puts them behind the unread ones. *)
LEMMA StorePuts ==
  ASSUME IndInv, NEW s \in Strings, Len(s) <= N - write, Store(s)
  PROVE  Fifo!Put(s)
<1>1. s \in Seq(Byte) /\ Len(s) \in 1..N
  BY StringsType
<1>2. read' = read /\ write' = write + Len(s)
  BY DEF Store
<1>3. read \in Nat /\ write \in Nat /\ read <= write /\ write <= N
  BY NAssumption DEF IndInv, TypeOK, PointersOrdered
<1>4. /\ Unread \in Seq(Byte) /\ Len(Unread) = write - read
      /\ \A i \in 1..(write - read) : Unread[i] = mem[read + i - 1]
  BY UnreadIsSeq
<1>5. /\ Unread' \in Seq(Byte) /\ Len(Unread') = write' - read'
      /\ \A i \in 1..(write' - read') : Unread'[i] = mem'[read' + i - 1]
  BY StoreStep, UnreadIsSeq
<1>6. /\ Unread \o s \in Seq(Byte) /\ Len(Unread \o s) = write - read + Len(s)
      /\ \A i \in 1..(write - read + Len(s)) : (Unread \o s)[i] =
            IF i <= write - read THEN Unread[i] ELSE s[i - (write - read)]
  <2> DEFINE u == Unread
             k == write - read
  <2>1. u \in Seq(Byte) /\ k \in Nat /\ Len(u) = k
    BY <1>3, <1>4
  <2> HIDE DEF u, k
  <2>2. /\ u \o s \in Seq(Byte) /\ Len(u \o s) = k + Len(s)
        /\ \A i \in 1..(k + Len(s)) : (u \o s)[i] = IF i <= k THEN u[i] ELSE s[i - k]
    BY <1>1, <2>1, ConcatIs
  <2> QED BY <2>2, Zenon DEF u, k
<1>7. ASSUME NEW i \in 1..(write - read + Len(s)) PROVE Unread'[i] = (Unread \o s)[i]
  <2> DEFINE j == read + i - 1
  <2>1. j \in Offset /\ (j \in write..(write + Len(s) - 1) <=> i > write - read)
    BY <1>1, <1>3, NAssumption DEF Offset
  <2>2. mem'[j] = IF j \in write..(write + Len(s) - 1) THEN s[j - write + 1] ELSE mem[j]
    BY <2>1 DEF Store
  <2>3. j - write + 1 = i - (write - read)
    BY <1>1, <1>3
  <2>4. Unread'[i] = mem'[j]
    BY <1>1, <1>2, <1>3, <1>5
  <2>5. i <= write - read => Unread[i] = mem[j]
    BY <1>3, <1>4
  <2> HIDE DEF j
  <2> QED BY <1>1, <1>3, <1>6, <2>1, <2>2, <2>3, <2>4, <2>5
<1>8. Unread' = Unread \o s
  BY <1>1, <1>2, <1>3, <1>5, <1>6, <1>7, SeqEqual, SMTT(30)
<1>9. Len(Unread) + Len(s) <= N
  BY <1>1, <1>3, <1>4, NAssumption
<1> QED BY <1>8, <1>9 DEF Fifo!Put

(* Consuming n bytes takes the oldest n out. *)
LEMMA ReadAdvGets ==
  ASSUME IndInv, NEW n \in 1..N, buffer_read_adv(n)
  PROVE  Fifo!Get(n)
<1>1. /\ read \in Nat /\ write \in Nat /\ read <= write /\ write <= N
      /\ n \in Nat /\ n <= write - read /\ mem' = mem
  BY NAssumption DEF IndInv, TypeOK, PointersOrdered, buffer_read_adv
<1>2. /\ Unread \in Seq(Byte) /\ Len(Unread) = write - read
      /\ \A i \in 1..(write - read) : Unread[i] = mem[read + i - 1]
  BY UnreadIsSeq
<1>3. /\ Unread' \in Seq(Byte) /\ Len(Unread') = write' - read'
      /\ \A i \in 1..(write' - read') : Unread'[i] = mem'[read' + i - 1]
  BY ReadAdvStep, UnreadIsSeq
<1> DEFINE rest == SubSeq(Unread, n + 1, Len(Unread))
<1>4. \A i \in (n + 1)..Len(Unread) : Unread[i] \in Byte
  BY <1>1, <1>2, ElementOfSeq
<1>5. /\ rest \in Seq(Byte) /\ Len(rest) = write - read - n
      /\ \A i \in 1..(write - read - n) : rest[i] = Unread[n + i]
  BY <1>1, <1>2, <1>4, SubSeqProperties
<1> HIDE DEF rest
<1>6. write' - read' = write - read - n
  BY <1>1 DEF buffer_read_adv
<1>7. ASSUME NEW i \in 1..(write - read - n) PROVE Unread'[i] = rest[i]
  <2>1. read' = read + n
    BY <1>1 DEF buffer_read_adv
  <2>2. Unread'[i] = mem[read + n + i - 1]
    BY <1>1, <1>3, <1>6, <2>1
  <2>3. n + i \in 1..(write - read)
    BY <1>1
  <2>4. Unread[n + i] = mem[read + (n + i) - 1]
    BY <1>2, <2>3
  <2>5. read + (n + i) - 1 = read + n + i - 1
    BY <1>1
  <2> QED BY <1>5, <2>2, <2>4, <2>5
<1>8. Unread' = rest
  BY <1>1, <1>3, <1>5, <1>6, <1>7, SeqEqual
<1> QED BY <1>1, <1>2, <1>8 DEF Fifo!Get, rest

(* Compaction changes nothing that the users see. *)
LEMMA CompactStutters ==
  ASSUME IndInv, buffer_compact
  PROVE  Unread' = Unread
<1>1. /\ read \in Nat /\ write \in Nat /\ read <= write /\ write <= N
      /\ read' = 0 /\ write' = write - read
  BY NAssumption DEF IndInv, TypeOK, PointersOrdered, buffer_compact
<1>2. /\ Unread \in Seq(Byte) /\ Len(Unread) = write - read
      /\ \A i \in 1..(write - read) : Unread[i] = mem[read + i - 1]
  BY UnreadIsSeq
<1>3. /\ Unread' \in Seq(Byte) /\ Len(Unread') = write' - read'
      /\ \A i \in 1..(write' - read') : Unread'[i] = mem'[read' + i - 1]
  BY CompactStep, UnreadIsSeq
<1>4. ASSUME NEW i \in 1..(write - read) PROVE Unread'[i] = Unread[i]
  <2>1. i - 1 \in Offset /\ i - 1 < write - read
    BY <1>1, NAssumption DEF Offset
  <2>2. mem'[i - 1] = mem[(i - 1) + read]
    BY <2>1 DEF buffer_compact
  <2>3. read' + i - 1 = i - 1 /\ (i - 1) + read = read + i - 1
    BY <1>1
  <2>4. Unread'[i] = mem'[read' + i - 1]
    BY <1>1, <1>3
  <2> QED BY <1>2, <2>2, <2>3, <2>4
<1> QED BY <1>1, <1>2, <1>3, <1>4, SeqEqual

(* The pointers and the block implement a FIFO of bytes: nothing is lost,   *)
(* repeated or reordered between buffer_write_adv and buffer_read_adv,      *)
(* however the buffer is compacted in between.                              *)
THEOREM BufferIsFifo == Spec => FifoSpec
<1>1. Init => Fifo!Init
  <2> SUFFICES ASSUME Init PROVE Unread = << >>
    BY DEF Fifo!Init
  <2>1. IndInv
    BY NAssumption DEF Init, IndInv, TypeOK, PointersOrdered, DrainedIsReset
  <2>2. Unread \in Seq(Byte) /\ Len(Unread) = 0
    BY <2>1, UnreadIsSeq DEF Init
  <2> QED BY <2>2, EmptySeq
<1>2. IndInv /\ [Next]_vars => [Fifo!Next]_Unread
  <2> SUFFICES ASSUME IndInv, [Next]_vars PROVE [Fifo!Next]_Unread
    OBVIOUS
  <2>1. CASE buffer_reset
    <3>1. IndInv'
      BY <2>1, NAssumption DEF buffer_reset, IndInv, TypeOK, PointersOrdered, DrainedIsReset
    <3>2. Unread' \in Seq(Byte) /\ Len(Unread') = 0
      BY <2>1, <3>1, UnreadIsSeq DEF buffer_reset
    <3>3. Unread' = << >>
      BY <3>2, EmptySeq
    <3> QED BY <3>3 DEF Fifo!Next, Fifo!Clear
  <2>2. ASSUME NEW s \in Strings, buffer_write_adv(s) \/ buffer_write_struct(s)
        PROVE  Fifo!Next
    <3>1. Fifo!Put(s)
      BY <2>2, StorePuts DEF buffer_write_adv, buffer_write_struct
    <3> QED BY <3>1 DEF Fifo!Next, Fifo!Strings, Strings
  <2>3. ASSUME NEW c \in Byte, buffer_write(c) PROVE Fifo!Next
    <3>1. Len(<<c>>) <= N - write
      BY <2>3, OneByte, NAssumption DEF buffer_write, can_write, IndInv, TypeOK
    <3>2. <<c>> \in Strings /\ Fifo!Put(<<c>>)
      BY <2>3, <3>1, OneByte, StorePuts DEF buffer_write
    <3> QED BY <3>2 DEF Fifo!Next, Fifo!Strings, Strings
  <2>4. CASE buffer_compact
    BY <2>4, CompactStutters
  <2>5. ASSUME NEW n \in 1..N, buffer_read_adv(n) PROVE Fifo!Next
    BY <2>5, ReadAdvGets DEF Fifo!Next
  <2>6. CASE buffer_read
    BY <2>6, ReadAdvGets, NAssumption DEF buffer_read, Fifo!Next
  <2>7. CASE UNCHANGED vars
    BY <2>7 DEF vars, Unread
  <2> QED BY <2>1, <2>2, <2>3, <2>4, <2>5, <2>6, <2>7 DEF Next
<1>3. IndInv <=> TypeOK /\ PointersOrdered /\ DrainedIsReset
  BY DEF IndInv
<1> QED BY <1>1, <1>2, <1>3, BufferSafe, PTL DEF Spec, FifoSpec, Fifo!Spec
=============================================================================
