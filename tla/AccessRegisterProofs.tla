------------------------ MODULE AccessRegisterProofs ------------------------
(* Proofs about AccessRegister, for a register of any size and any entries. *)
EXTENDS AccessRegister, TLAPS, SequenceTheorems

-----------------------------------------------------------------------------
(* An index that is at most one round too large is brought back by          *)
(* subtracting the size: the only use that access_register.c makes of %.    *)
LEMMA Wrap ==
  ASSUME NEW x \in Nat, x < 2 * Max
  PROVE  x % Max = IF x < Max THEN x ELSE x - Max
BY MaxAssumption, Z3

(* Adding an entry keeps the indices in the array and head, tail and count  *)
(* in step.                                                                 *)
LEMMA AddStep ==
  ASSUME TypeOK, RingOrdered, NEW e \in Entry, access_register_add_entry(e)
  PROVE  TypeOK' /\ RingOrdered'
<1>1. /\ head \in Nat /\ head < Max /\ tail \in Nat /\ tail < Max
      /\ count \in Nat /\ count <= Max
  BY MaxAssumption DEF TypeOK, Index
<1>2. /\ (head + 1) % Max = IF head + 1 < Max THEN head + 1 ELSE 0
      /\ (tail + 1) % Max = IF tail + 1 < Max THEN tail + 1 ELSE 0
  BY <1>1, Wrap, MaxAssumption
<1>3. tail = IF head + count < Max THEN head + count ELSE head + count - Max
  BY <1>1, Wrap, MaxAssumption DEF RingOrdered
<1>4. entries' \in [Index -> Entry] /\ tail' = (tail + 1) % Max
  BY DEF access_register_add_entry, TypeOK
<1>5. CASE count < Max
  <2>1. count' = count + 1 /\ head' = head
    BY <1>5 DEF access_register_add_entry
  <2>2. (head' + count') % Max = IF head + count + 1 < Max THEN head + count + 1
                                                           ELSE head + count + 1 - Max
    BY <1>1, <1>5, <2>1, Wrap, MaxAssumption
  <2> QED BY <1>1, <1>2, <1>3, <1>4, <1>5, <2>1, <2>2, MaxAssumption
          DEF TypeOK, RingOrdered, Index
<1>6. CASE ~(count < Max)
  <2>1. count' = Max /\ count = Max /\ head' = (head + 1) % Max
    BY <1>1, <1>6, MaxAssumption DEF access_register_add_entry
  <2>2. head' \in Nat /\ head' < Max
    BY <1>1, <1>2, <2>1, MaxAssumption
  <2>3. (head' + count') % Max = head'
    BY <2>1, <2>2, Wrap, MaxAssumption
  <2>4. tail = head
    BY <1>1, <1>3, <2>1, MaxAssumption
  <2> QED BY <1>1, <1>2, <1>4, <2>1, <2>2, <2>3, <2>4, MaxAssumption
          DEF TypeOK, RingOrdered, Index
<1> QED BY <1>5, <1>6

(* head, tail and count agree after any number of connections, so that      *)
(* access_register_add_entry writes over the oldest entry or a free one.    *)
THEOREM Ring == Spec => [](TypeOK /\ RingOrdered)
<1>1. Init => TypeOK /\ RingOrdered
  <2> SUFFICES ASSUME Init PROVE TypeOK /\ RingOrdered
    OBVIOUS
  <2>1. (head + count) % Max = 0
    BY Wrap, MaxAssumption DEF Init
  <2> QED BY <2>1, MaxAssumption DEF Init, TypeOK, RingOrdered, Index
<1>2. TypeOK /\ RingOrdered /\ [Next]_vars => (TypeOK /\ RingOrdered)'
  <2> SUFFICES ASSUME TypeOK, RingOrdered, [Next]_vars PROVE TypeOK' /\ RingOrdered'
    OBVIOUS
  <2>1. CASE Next
    BY <2>1, AddStep DEF Next
  <2>2. CASE UNCHANGED vars
    BY <2>2 DEF vars, TypeOK, RingOrdered
  <2> QED BY <2>1, <2>2
<1> QED BY <1>1, <1>2, PTL DEF Spec

-----------------------------------------------------------------------------
(* What access_register_print lists, for the array en, the oldest entry at  *)
(* h and c entries.                                                         *)
Listing(en, h, c) == [i \in 1..c |-> en[(h + i - 1) % Max]]

(* The listing is a sequence of c entries, and which ones.                  *)
LEMMA ListingIsSeq ==
  ASSUME NEW en \in [Index -> Entry], NEW h \in Index, NEW c \in 0..Max
  PROVE  /\ Listing(en, h, c) \in Seq(Entry)
         /\ Len(Listing(en, h, c)) = c
         /\ \A i \in 1..c : Listing(en, h, c)[i] =
                              en[IF h + i - 1 < Max THEN h + i - 1 ELSE h + i - 1 - Max]
<1>1. \A i \in 1..c : (h + i - 1) % Max = IF h + i - 1 < Max THEN h + i - 1 ELSE h + i - 1 - Max
  <2> TAKE i \in 1..c
  <2> DEFINE x == h + i - 1
  <2>1. x \in Nat /\ x < 2 * Max
    BY MaxAssumption DEF Index
  <2> HIDE DEF x
  <2>2. x % Max = IF x < Max THEN x ELSE x - Max
    BY <2>1, Wrap
  <2> QED BY <2>1, <2>2, MaxAssumption DEF x, Index
<1>2. \A i \in 1..c : (h + i - 1) % Max \in Index
  BY <1>1, MaxAssumption DEF Index
<1>3. c \in Nat /\ Listing(en, h, c) \in [1..c -> Entry]
  BY <1>2, MaxAssumption DEF Listing
<1>4. Listing(en, h, c) \in Seq(Entry)
  BY <1>3, SeqDef
<1>5. Len(Listing(en, h, c)) = c
  BY <1>3, <1>4, LenProperties
<1>6. \A i \in 1..c : Listing(en, h, c)[i] = en[(h + i - 1) % Max]
  BY DEF Listing
<1> QED BY <1>1, <1>4, <1>5, <1>6

(* What appending gives, element by element. *)
LEMMA AppendIs ==
  ASSUME NEW q \in Seq(Entry), NEW k \in Nat, Len(q) = k, NEW e \in Entry
  PROVE  /\ Append(q, e) \in Seq(Entry)
         /\ Len(Append(q, e)) = k + 1
         /\ \A i \in 1..(k + 1) : Append(q, e)[i] = IF i <= k THEN q[i] ELSE e
BY AppendProperties

(* An entry that is added comes last in the listing; the oldest one leaves  *)
(* it when the register is full.                                            *)
LEMMA AddIsListed ==
  ASSUME TypeOK, RingOrdered, NEW e \in Entry, access_register_add_entry(e)
  PROVE  Recent!Add(e)
<1> DEFINE p == access_register_print
<1>1. /\ head \in Nat /\ head < Max /\ tail \in Nat /\ tail < Max
      /\ count \in Nat /\ count <= Max /\ entries \in [Index -> Entry]
  BY MaxAssumption DEF TypeOK, Index
<1>2. tail = IF head + count < Max THEN head + count ELSE head + count - Max
  BY <1>1, Wrap, MaxAssumption DEF RingOrdered
<1>3. /\ p \in Seq(Entry) /\ Len(p) = count
      /\ \A i \in 1..count : p[i] =
            entries[IF head + i - 1 < Max THEN head + i - 1 ELSE head + i - 1 - Max]
  <2>1. p = Listing(entries, head, count)
    BY DEF Listing, access_register_print
  <2> HIDE DEF p
  <2> QED BY <2>1, ListingIsSeq DEF TypeOK
<1>4. TypeOK'
  BY AddStep
<1>5. /\ p' \in Seq(Entry) /\ Len(p') = count'
      /\ \A i \in 1..count' : p'[i] =
            entries'[IF head' + i - 1 < Max THEN head' + i - 1 ELSE head' + i - 1 - Max]
  <2>1. p' = Listing(entries', head', count')
    BY DEF Listing, access_register_print
  <2> HIDE DEF p
  <2>2. /\ entries' \in [Index -> Entry] /\ head' \in Index /\ count' \in 0..Max
    BY <1>4 DEF TypeOK
  <2> QED BY <2>1, <2>2, ListingIsSeq
<1>6. \A j \in Index : entries'[j] = IF j = tail THEN e ELSE entries[j]
  BY <1>1 DEF access_register_add_entry
<1> HIDE DEF p
<1>7. CASE count < Max
  <2>1. count' = count + 1 /\ head' = head
    BY <1>7 DEF access_register_add_entry
  <2>2. /\ Append(p, e) \in Seq(Entry) /\ Len(Append(p, e)) = count + 1
        /\ \A i \in 1..(count + 1) : Append(p, e)[i] = IF i <= count THEN p[i] ELSE e
    <3>1. p \in Seq(Entry) /\ count \in Nat /\ Len(p) = count
      BY <1>1, <1>3
    <3> QED BY <3>1, AppendIs
  <2>3. ASSUME NEW i \in 1..(count + 1) PROVE p'[i] = Append(p, e)[i]
    <3> DEFINE j == IF head + i - 1 < Max THEN head + i - 1 ELSE head + i - 1 - Max
    <3>1. j \in Index /\ p'[i] = entries'[j]
      BY <1>1, <1>5, <1>7, <2>1, MaxAssumption DEF Index
    <3>2. j = tail <=> i = count + 1
      BY <1>1, <1>2, <1>7, MaxAssumption
    <3>3. i <= count => p[i] = entries[j]
      BY <1>1, <1>3
    <3> HIDE DEF j
    <3> QED BY <1>1, <1>6, <2>2, <3>1, <3>2, <3>3
  <2>4. p' = Append(p, e)
    BY <1>1, <1>5, <2>1, <2>2, <2>3, SeqEqual
  <2> QED BY <1>3, <1>7, <2>4 DEF Recent!Add, p
<1>8. CASE ~(count < Max)
  <2>1. count = Max /\ count' = Max /\ head' = (head + 1) % Max
    BY <1>1, <1>8, MaxAssumption DEF access_register_add_entry
  <2>2. tail = head /\ head' = IF head + 1 < Max THEN head + 1 ELSE 0
    BY <1>1, <1>2, <2>1, Wrap, MaxAssumption
  <2>3. p # << >>
    BY <1>3, <2>1, EmptySeq, MaxAssumption
  <2>4. /\ Tail(p) \in Seq(Entry) /\ Len(Tail(p)) = Max - 1
        /\ \A i \in 1..(Max - 1) : Tail(p)[i] = p[i + 1]
    BY <1>3, <2>1, <2>3, HeadTailProperties
  <2>5. /\ Append(Tail(p), e) \in Seq(Entry) /\ Len(Append(Tail(p), e)) = Max
        /\ \A i \in 1..Max : Append(Tail(p), e)[i] = IF i <= Max - 1 THEN Tail(p)[i] ELSE e
    <3>1. Tail(p) \in Seq(Entry) /\ Max - 1 \in Nat /\ Len(Tail(p)) = Max - 1
      BY <2>4, MaxAssumption
    <3>2. Max - 1 + 1 = Max
      BY MaxAssumption
    <3> QED BY <3>1, <3>2, AppendIs
  <2>6. ASSUME NEW i \in 1..Max PROVE p'[i] = Append(Tail(p), e)[i]
    <3> DEFINE j == IF head' + i - 1 < Max THEN head' + i - 1 ELSE head' + i - 1 - Max
    <3>1. p'[i] = entries'[j]
      BY <1>5, <2>1
    <3>2. j \in Index /\ (j = tail <=> i = Max)
      BY <1>1, <2>2, MaxAssumption DEF Index
    <3>3. i <= Max - 1 => p[i + 1] = entries[j]
      <4> SUFFICES ASSUME i <= Max - 1 PROVE p[i + 1] = entries[j]
        OBVIOUS
      <4>1. i + 1 \in 1..count
        BY <2>1, MaxAssumption
      <4>2. j = IF head + (i + 1) - 1 < Max THEN head + (i + 1) - 1
                                            ELSE head + (i + 1) - 1 - Max
        BY <1>1, <2>2, MaxAssumption
      <4> QED BY <1>3, <4>1, <4>2
    <3> HIDE DEF j
    <3> QED BY <1>6, <2>4, <2>5, <3>1, <3>2, <3>3, MaxAssumption
  <2>7. p' = Append(Tail(p), e)
    BY <1>5, <2>1, <2>5, <2>6, SeqEqual
  <2> QED BY <1>3, <1>8, <2>7 DEF Recent!Add, p
<1> QED BY <1>7, <1>8

(* The array and its indices implement a list of the latest entries: what   *)
(* GET_ACCESS_REGISTER prints never has a gap, a repetition or an entry     *)
(* that was not added.                                                      *)
THEOREM ListsRecent == Spec => RecentSpec
<1>1. Init => Recent!Init
  <2> SUFFICES ASSUME Init PROVE access_register_print = << >>
    BY DEF Recent!Init
  <2>1. access_register_print \in Seq(Entry) /\ Len(access_register_print) = 0
    BY ListingIsSeq, MaxAssumption DEF Init, Index, Listing, access_register_print
  <2> QED BY <2>1, EmptySeq
<1>2. TypeOK /\ RingOrdered /\ [Next]_vars => [Recent!Next]_access_register_print
  <2> SUFFICES ASSUME TypeOK, RingOrdered, [Next]_vars
               PROVE  [Recent!Next]_access_register_print
    OBVIOUS
  <2>1. CASE Next
    BY <2>1, AddIsListed DEF Next, Recent!Next
  <2>2. CASE UNCHANGED vars
    BY <2>2 DEF vars, access_register_print
  <2> QED BY <2>1, <2>2
<1> QED BY <1>1, <1>2, Ring, PTL DEF Spec, RecentSpec, Recent!Spec
=============================================================================
