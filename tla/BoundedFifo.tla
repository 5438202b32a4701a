---------------------------- MODULE BoundedFifo ----------------------------
(* What the I/O buffer of src/shared/buffer.c promises its users: a FIFO of *)
(* at most N bytes.  Bytes leave in the order in which they came in, none  *)
(* is duplicated or altered, and none is lost unless the user clears the   *)
(* buffer (buffer_reset).                                                  *)
EXTENDS Naturals, Sequences

CONSTANTS Byte, \* the values a byte may have
          N     \* the capacity of the buffer

VARIABLE q      \* the bytes written and not yet read, the oldest first

Strings == UNION {[1..k -> Byte] : k \in 1..N}

TypeOK == q \in Seq(Byte) /\ Len(q) <= N

Init == q = << >>

Put(s) == /\ Len(q) + Len(s) <= N
          /\ q' = q \o s

Get(n) == /\ n <= Len(q)
          /\ q' = SubSeq(q, n + 1, Len(q))

Clear == q' = << >>

Next == \/ \E s \in Strings : Put(s)
        \/ \E n \in 1..N : Get(n)
        \/ Clear

Spec == Init /\ [][Next]_q
=============================================================================
