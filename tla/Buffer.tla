------------------------------- MODULE Buffer -------------------------------
(* The I/O buffer of src/shared/buffer.c: a block of N bytes and two       *)
(* pointers into it.  The pointers are modelled as offsets from b->data,   *)
(* so that b->data is 0 and b->limit is N.                                 *)
(*                                                                         *)
(*      0 <= read <= write <= N                                            *)
(*                                                                         *)
(* The bytes in [read, write) wait to be consumed, the ones in [write, N)  *)
(* may be filled.  The room in front of read is lost until the buffer is   *)
(* compacted.                                                              *)
EXTENDS Naturals, Sequences

CONSTANTS Byte, \* the values a byte may have
          N     \* the size passed to buffer_init

ASSUME ByteAssumption == Byte # {}
ASSUME NAssumption == N \in Nat \ {0}

VARIABLES mem,    \* the block at b->data
          read,   \* b->read - b->data
          write   \* b->write - b->data

vars == <<mem, read, write>>

Offset == 0..(N - 1)

(* What one recv() or one buffer_write_struct() may put into the buffer.   *)
Strings == UNION {[1..k -> Byte] : k \in 1..N}

-----------------------------------------------------------------------------
can_read == write > read

can_write == N > write

(* buffer_init: the contents of a fresh malloc() are not defined. *)
Init == /\ mem \in [Offset -> Byte]
        /\ read = 0
        /\ write = 0

buffer_reset == /\ read' = 0
                /\ write' = 0
                /\ UNCHANGED mem

(* The bytes of s stored from b->write on, and the pointer advanced. *)
Store(s) ==
  /\ mem' = [i \in Offset |-> IF i \in write..(write + Len(s) - 1)
                                THEN s[i - write + 1] ELSE mem[i]]
  /\ write' = write + Len(s)
  /\ UNCHANGED read

(* buffer_write_ptr hands out the free region, recv() fills a part of it   *)
(* and buffer_write_adv accounts for what recv() returned.                 *)
buffer_write_adv(s) == /\ Len(s) <= N - write
                       /\ Store(s)

(* A struct goes in whole or not at all; a failure is not reported. *)
buffer_write_struct(s) == /\ can_write
                          /\ Len(s) <= N - write
                          /\ Store(s)

buffer_write(c) == /\ can_write
                   /\ Store(<<c>>)

\* mutant of buffer_compact: the pointers move and the bytes do not
CompactPointersOnly ==
  /\ read' = 0
  /\ write' = write - read
  /\ UNCHANGED mem

(* buffer_compact moves the unread bytes to the front of the block. *)
buffer_compact ==
  /\ read' = 0
  /\ write' = write - read
  /\ mem' = [i \in Offset |-> IF i < write - read THEN mem[i + read] ELSE mem[i]]

\* mutant of buffer_read_adv: more than there is may be consumed
ReadAdvUnchecked(n) ==
  /\ read + n <= N
  /\ IF read + n = write
       THEN read' = 0 /\ write' = 0
       ELSE read' = read + n /\ UNCHANGED write
  /\ UNCHANGED mem

(* buffer_read_ptr hands out the unread bytes, send() takes n of them and  *)
(* buffer_read_adv accounts for them.  A drained buffer is compacted.      *)
buffer_read_adv(n) ==
  /\ n <= write - read
  /\ IF read + n = write
       THEN /\ read' = 0
            /\ write' = 0
       ELSE /\ read' = read + n
            /\ UNCHANGED write
  /\ UNCHANGED mem

buffer_read == /\ can_read
               /\ buffer_read_adv(1)

Next == \/ buffer_reset
        \/ \E s \in Strings : buffer_write_adv(s)
        \/ \E s \in Strings : buffer_write_struct(s)
        \/ \E c \in Byte : buffer_write(c)
        \/ buffer_compact
        \/ \E n \in 1..N : buffer_read_adv(n)
        \/ buffer_read

Spec == Init /\ [][Next]_vars

-----------------------------------------------------------------------------
TypeOK == /\ mem \in [Offset -> Byte]
          /\ read \in 0..N
          /\ write \in 0..N

(* buffer.h, "Invariantes: R <= W <= limit".  Every memory access of       *)
(* recv(), send() and memmove() on the buffer stays inside the block.      *)
PointersOrdered == read <= write /\ write <= N

(* A drained buffer offers its whole capacity again: the callers test       *)
(* buffer_can_write alone before they stop reading from a socket, so a      *)
(* buffer that was drained but kept its offsets would block the peer.       *)
DrainedIsReset == read = write => write = 0

(* The bytes that wait to be read, as a sequence. *)
Unread == [i \in 1..(write - read) |-> mem[read + i - 1]]

(* The pointer manipulation implements a FIFO of bytes. *)
Fifo == INSTANCE BoundedFifo WITH q <- Unread
FifoSpec == Fifo!Spec

=============================================================================
