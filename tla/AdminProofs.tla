---------------------------- MODULE AdminProofs -----------------------------
(* The answers of the administration protocol, for every size of its        *)
(* buffers and of the socket, whatever lines arrive in whatever pieces.     *)
EXTENDS Admin, SequenceTheorems, FiniteSetTheorems, WellFoundedInduction, TLAPS

(* Cells are strings, and whatever a command answers with. *)
Alphabet(S) == STRING \cup {Nul, Nl} \subseteq S
TextOver(S) == /\ Alphabet(S)
               /\ mem \in Seq(S) /\ c2s \in Seq(S) /\ unsent \in Seq(S)
               /\ s2c \in Seq(S) /\ got \in Seq(S) /\ answers \in Seq(S)
               /\ sent \in Seq(S) /\ consumed \in Seq(S)
Texts == \E S : TextOver(S)

(* in_data and out_data. *)
Whole(m) == Len(m) = InCap + OutCap

(* out_buff is compacted after every send(), and has room whenever a command *)
(* may be read.                                                              *)
Bounds ==
  /\ Whole(mem)
  /\ r_in \in Nat /\ w_in \in 0..InCap /\ r_in <= w_in
  /\ r_out = 0 /\ w_out \in 0..OutCap
  /\ interest = "READ" => w_out < OutCap

(* A NUL at the end of the answers, or behind them, stops strchr(). *)
NulAfter(m, w) == \E p \in 0..(OutCap - 1) : w <= p + 1 /\ m[InCap + p + 1] = Nul
NulBehind == NulAfter(mem, w_out)

(* What the administrator has read, what is on its way and what waits. *)
Waiting(m) == Cells(m, InCap, InCap + w_out)
Delivered == csock = "open" => (got \o s2c) \o Waiting(mem) = answers

(* The inductive invariant. *)
Inv == Texts /\ Bounds /\ NulBehind /\ Delivered

-----------------------------------------------------------------------------
(* Pieces of the memory. *)

(* b is the n elements of s behind the first `from'. *)
IsPart(b, s, from, n) == Len(b) = n /\ \A i \in 1..n : b[i] = s[from + i]

(* The same cells, from one offset to another. *)
Agree(q, m, from, to) == \A i \in 1..Len(m) : from < i /\ i <= to => q[i] = m[i]

(* q is m but for the cells c, at an offset. *)
IsWrite(q, m, at, c) ==
  Len(q) = Len(m) /\ \A i \in 1..Len(m) : q[i] = IF at < i /\ i <= at + Len(c) THEN c[i - at] ELSE m[i]

LEMMA CellsAre ==
  ASSUME NEW S, NEW m \in Seq(S), NEW from \in Nat, NEW to \in Nat, from <= to, to <= Len(m)
  PROVE  Cells(m, from, to) \in Seq(S) /\ IsPart(Cells(m, from, to), m, from, to - from)
<1>1. Len(m) \in Nat
  BY LenProperties
<1>2. \A i \in (from + 1)..to : m[i] \in S
  BY <1>1, ElementOfSeq
<1>3. /\ Cells(m, from, to) \in Seq(S)
      /\ Len(Cells(m, from, to)) = IF from + 1 <= to THEN to - (from + 1) + 1 ELSE 0
      /\ \A i \in 1..(to - (from + 1) + 1) : Cells(m, from, to)[i] = m[from + 1 + i - 1]
  BY <1>2, SubSeqProperties DEF Cells
<1> QED BY <1>3 DEF IsPart

LEMMA TakeIs ==
  ASSUME NEW S, NEW s \in Seq(S), NEW n \in Nat, n <= Len(s)
  PROVE  Take(s, n) \in Seq(S) /\ IsPart(Take(s, n), s, 0, n)
<1>1. Len(s) \in Nat
  BY LenProperties
<1>2. Cells(s, 0, n) \in Seq(S) /\ IsPart(Cells(s, 0, n), s, 0, n - 0)
  BY <1>1, CellsAre
<1>3. Take(s, n) = Cells(s, 0, n) /\ n - 0 = n
  BY DEF Take, Cells
<1> QED BY <1>2, <1>3

LEMMA DropIs ==
  ASSUME NEW S, NEW s \in Seq(S), NEW n \in Nat, n <= Len(s)
  PROVE  Drop(s, n) \in Seq(S) /\ IsPart(Drop(s, n), s, n, Len(s) - n)
<1>1. Len(s) \in Nat
  BY LenProperties
<1>2. Cells(s, n, Len(s)) \in Seq(S) /\ IsPart(Cells(s, n, Len(s)), s, n, Len(s) - n)
  BY <1>1, CellsAre
<1>3. Drop(s, n) = Cells(s, n, Len(s))
  BY DEF Drop, Cells
<1> QED BY <1>2, <1>3

LEMMA WholeIs ==
  ASSUME NEW S, NEW s \in Seq(S)
  PROVE  IsPart(s, s, 0, Len(s))
BY LenProperties DEF IsPart

(* There is one such part. *)
LEMMA PartsSame ==
  ASSUME NEW S, NEW a \in Seq(S), NEW b \in Seq(S), NEW s, NEW from, NEW n,
         IsPart(a, s, from, n), IsPart(b, s, from, n)
  PROVE  a = b
BY SeqEqual DEF IsPart

(* A part and the one behind it. *)
LEMMA PartsJoin ==
  ASSUME NEW S, NEW a \in Seq(S), NEW b \in Seq(S), NEW s,
         NEW from \in Nat, NEW n \in Nat, NEW mid, mid = from + n, NEW k \in Nat,
         IsPart(a, s, from, n), IsPart(b, s, mid, k)
  PROVE  a \o b \in Seq(S) /\ IsPart(a \o b, s, from, n + k)
<1>1. Len(a) = n /\ Len(b) = k
  BY DEF IsPart
<1>2. /\ a \o b \in Seq(S) /\ Len(a \o b) = n + k
      /\ \A i \in 1..(n + k) : (a \o b)[i] = IF i <= n THEN a[i] ELSE b[i - n]
  <2>1. /\ a \o b \in Seq(S) /\ Len(a \o b) = Len(a) + Len(b)
        /\ \A i \in 1..(Len(a) + Len(b)) : (a \o b)[i] = IF i <= Len(a) THEN a[i] ELSE b[i - Len(a)]
    BY ConcatProperties
  <2> QED BY <1>1, <2>1
<1>3. ASSUME NEW i \in 1..(n + k) PROVE (a \o b)[i] = s[from + i]
  <2>1. CASE i <= n
    <3>1. i \in 1..n
      BY <2>1
    <3>2. a[i] = s[from + i]
      BY <3>1 DEF IsPart
    <3> QED BY <1>2, <2>1, <3>2
  <2>2. CASE ~(i <= n)
    <3> DEFINE j == i - n
    <3>1. j \in 1..k /\ mid + j = from + i
      BY <2>2
    <3>2. (a \o b)[i] = b[j]
      BY <1>2, <2>2
    <3> HIDE DEF j
    <3>3. b[j] = s[mid + j]
      BY <3>1 DEF IsPart
    <3> QED BY <3>1, <3>2, <3>3
  <2> QED BY <2>1, <2>2
<1> QED BY <1>2, <1>3 DEF IsPart

(* A part of a part. *)
LEMMA PartOfPart ==
  ASSUME NEW b, NEW c, NEW s, NEW f \in Nat, NEW n \in Nat, NEW g \in Nat, NEW k \in Nat,
         IsPart(b, c, f, n), IsPart(c, s, g, k), f + n <= k, NEW h, h = g + f
  PROVE  IsPart(b, s, h, n)
<1>1. ASSUME NEW i \in 1..n PROVE b[i] = s[h + i]
  <2> DEFINE j == f + i
  <2>1. j \in 1..k /\ g + j = h + i
    OBVIOUS
  <2>2. b[i] = c[j]
    BY DEF IsPart
  <2> HIDE DEF j
  <2>3. c[j] = s[g + j]
    BY <2>1 DEF IsPart
  <2> QED BY <2>1, <2>2, <2>3
<1>2. Len(b) = n
  BY DEF IsPart
<1> QED BY <1>1, <1>2 DEF IsPart

(* A part of another memory that agrees there. *)
LEMMA PartAgrees ==
  ASSUME NEW b, NEW m, NEW q, Len(m) \in Nat, NEW from \in Nat, NEW n \in Nat, NEW to, to = from + n,
         to <= Len(m), IsPart(b, m, from, n), Agree(q, m, from, to)
  PROVE  IsPart(b, q, from, n)
<1>1. ASSUME NEW i \in 1..n PROVE b[i] = q[from + i]
  <2> DEFINE j == from + i
  <2>1. j \in 1..Len(m) /\ from < j /\ j <= to
    OBVIOUS
  <2>2. b[i] = m[j]
    BY DEF IsPart
  <2> HIDE DEF j
  <2>3. q[j] = m[j]
    BY <2>1 DEF Agree
  <2> QED BY <2>2, <2>3 DEF j
<1>2. Len(b) = n
  BY DEF IsPart
<1> QED BY <1>1, <1>2 DEF IsPart

(* The first n elements of a text, and the others, are the text. *)
LEMMA TakeThenDrop ==
  ASSUME NEW S, NEW s \in Seq(S), NEW n \in Nat, n <= Len(s)
  PROVE  Take(s, n) \o Drop(s, n) = s
<1> DEFINE a == Take(s, n)
           b == Drop(s, n)
<1>1. Len(s) \in Nat /\ Len(s) - n \in Nat /\ 0 + n = n /\ n + (Len(s) - n) = Len(s)
  BY LenProperties
<1>2. a \in Seq(S) /\ IsPart(a, s, 0, n)
  BY TakeIs
<1>3. b \in Seq(S) /\ IsPart(b, s, n, Len(s) - n)
  BY DropIs
<1> HIDE DEF a, b
<1>4. a \o b \in Seq(S) /\ IsPart(a \o b, s, 0, n + (Len(s) - n))
  BY <1>1, <1>2, <1>3, PartsJoin
<1>5. IsPart(a \o b, s, 0, Len(s)) /\ IsPart(s, s, 0, Len(s))
  BY <1>1, <1>4, WholeIs
<1> QED BY <1>4, <1>5, PartsSame DEF a, b

(* buffer_write. *)
LEMMA WriteIs ==
  ASSUME NEW S, NEW m \in Seq(S), NEW c \in Seq(S), NEW at \in Nat, at + Len(c) <= Len(m)
  PROVE  Write(m, at, c) \in Seq(S) /\ IsWrite(Write(m, at, c), m, at, c)
<1> DEFINE a == Take(m, at)
           k == at + Len(c)
           b == Drop(m, k)
           d == a \o c
           q == d \o b
<1>1. Len(m) \in Nat /\ Len(c) \in Nat /\ at <= Len(m) /\ k \in Nat /\ k <= Len(m)
  BY LenProperties
<1>2. a \in Seq(S) /\ IsPart(a, m, 0, at)
  BY <1>1, TakeIs
<1>3. b \in Seq(S) /\ IsPart(b, m, k, Len(m) - k)
  <2> HIDE DEF k
  <2> QED BY <1>1, DropIs
<1> HIDE DEF a, b
<1>4. Len(a) = at /\ Len(b) = Len(m) - k
  BY <1>2, <1>3 DEF IsPart
<1>5. /\ d \in Seq(S) /\ Len(d) = k
      /\ \A i \in 1..k : d[i] = IF i <= at THEN a[i] ELSE c[i - at]
  <2>1. /\ a \o c \in Seq(S) /\ Len(a \o c) = Len(a) + Len(c)
        /\ \A i \in 1..(Len(a) + Len(c)) : (a \o c)[i] = IF i <= Len(a) THEN a[i] ELSE c[i - Len(a)]
    BY <1>2, ConcatProperties
  <2> QED BY <1>4, <2>1
<1> HIDE DEF d
<1>6. /\ q \in Seq(S) /\ Len(q) = Len(m)
      /\ \A i \in 1..Len(m) : q[i] = IF i <= k THEN d[i] ELSE b[i - k]
  <2>1. Len(d) + Len(b) = Len(m)
    BY <1>1, <1>4, <1>5
  <2> HIDE DEF k
  <2> QED BY <1>3, <1>5, <2>1, ConcatProperties
<1> HIDE DEF q
<1>7. ASSUME NEW i \in 1..Len(m)
      PROVE  q[i] = IF at < i /\ i <= at + Len(c) THEN c[i - at] ELSE m[i]
  <2>1. CASE i <= at
    <3>1. q[i] = d[i] /\ d[i] = a[i] /\ i \in 1..at
      BY <1>1, <1>5, <1>6, <2>1
    <3>2. a[i] = m[0 + i] /\ 0 + i = i
      BY <1>2, <3>1 DEF IsPart
    <3> QED BY <2>1, <3>1, <3>2
  <2>2. CASE at < i /\ i <= k
    <3>1. q[i] = d[i] /\ d[i] = c[i - at]
      BY <1>1, <1>5, <1>6, <2>2
    <3> QED BY <2>2, <3>1
  <2>3. CASE k < i
    <3> DEFINE j == i - k
    <3>1. j \in 1..(Len(m) - k) /\ k + j = i /\ ~(i <= k)
      BY <1>1, <2>3
    <3>2. q[i] = b[j]
      BY <1>6, <3>1
    <3> HIDE DEF j
    <3>3. b[j] = m[k + j]
      BY <1>3, <3>1 DEF IsPart
    <3> QED BY <2>3, <3>1, <3>2, <3>3
  <2>4. i <= at \/ (at < i /\ i <= k) \/ k < i
    BY <1>1
  <2> QED BY <2>1, <2>2, <2>3, <2>4
<1>8. IsWrite(q, m, at, c)
  BY <1>6, <1>7 DEF IsWrite
<1> QED BY <1>6, <1>8 DEF Write, a, b, d, q

(* The cells before the write, behind it, and the written ones. *)
LEMMA WriteAgrees ==
  ASSUME NEW q, NEW m, NEW at \in Nat, NEW c, Len(m) \in Nat, Len(c) \in Nat, IsWrite(q, m, at, c)
  PROVE  /\ \A from, to \in Nat : to <= at \/ at + Len(c) <= from => Agree(q, m, from, to)
         /\ at + Len(c) <= Len(m) => IsPart(c, q, at, Len(c))
<1>1. ASSUME NEW from \in Nat, NEW to \in Nat, to <= at \/ at + Len(c) <= from PROVE Agree(q, m, from, to)
  BY <1>1 DEF IsWrite, Agree
<1>2. ASSUME NEW i \in 1..Len(c), at + Len(c) <= Len(m) PROVE c[i] = q[at + i]
  <2> DEFINE j == at + i
  <2>1. j \in 1..Len(m) /\ at < j /\ j <= at + Len(c) /\ j - at = i
    BY <1>2
  <2> HIDE DEF j
  <2>2. q[j] = c[j - at]
    BY <2>1 DEF IsWrite
  <2> QED BY <2>1, <2>2 DEF j
<1> QED BY <1>1, <1>2 DEF IsPart

(* Cells before the write and the first of the written ones. *)
LEMMA CellsPut ==
  ASSUME NEW S, NEW m \in Seq(S), NEW c \in Seq(S), NEW at \in Nat, at + Len(c) <= Len(m),
         NEW q \in Seq(S), IsWrite(q, m, at, c), NEW from \in Nat, from <= at,
         NEW k \in Nat, k <= Len(c), NEW to, to = at + k
  PROVE  Cells(q, from, to) = Cells(m, from, at) \o Take(c, k)
<1> DEFINE a == Cells(m, from, at)
           b == Take(c, k)
           d == Cells(q, from, to)
<1>1. /\ Len(m) \in Nat /\ Len(c) \in Nat /\ at <= Len(m) /\ Len(q) = Len(m) /\ to \in Nat
      /\ to <= Len(q) /\ from <= to /\ at - from \in Nat /\ from + (at - from) = at
      /\ at - from + k = to - from /\ 0 + k <= Len(c) /\ at = at + 0
  BY LenProperties DEF IsWrite
<1>2. a \in Seq(S) /\ IsPart(a, m, from, at - from)
  BY <1>1, CellsAre
<1>3. b \in Seq(S) /\ IsPart(b, c, 0, k)
  BY TakeIs
<1>4. d \in Seq(S) /\ IsPart(d, q, from, to - from)
  BY <1>1, CellsAre
<1> HIDE DEF a, b, d
<1>5. Agree(q, m, from, at) /\ IsPart(c, q, at, Len(c))
  BY <1>1, WriteAgrees
<1>6. IsPart(a, q, from, at - from)
  BY <1>1, <1>2, <1>5, PartAgrees
<1>7. IsPart(b, q, at, k)
  BY <1>1, <1>3, <1>5, PartOfPart
<1>8. a \o b \in Seq(S) /\ IsPart(a \o b, q, from, to - from)
  <2>1. a \o b \in Seq(S) /\ IsPart(a \o b, q, from, at - from + k)
    BY <1>1, <1>2, <1>3, <1>6, <1>7, PartsJoin
  <2> QED BY <1>1, <2>1
<1>9. d = a \o b
  BY <1>4, <1>8, PartsSame
<1> QED BY <1>9 DEF a, b, d

LEMMA NulText ==
  ASSUME NEW S, Alphabet(S)
  PROVE  <<Nul>> \in Seq(S) /\ Len(<<Nul>>) = 1 /\ <<Nul>>[1] = Nul
BY DEF Alphabet

-----------------------------------------------------------------------------
(* A piece of text has been put behind the answers: out_data holds it, the   *)
(* NUL that ends it is there or has been answered itself, and in_data is as  *)
(* it was in m.                                                              *)
Put(m, S, piece) ==
  /\ Alphabet(S) /\ mem' \in Seq(S) /\ Whole(mem')
  /\ piece \in Seq(S) /\ answers \in Seq(S) /\ answers' = answers \o piece
  /\ w_out' = w_out + Len(piece) /\ w_out' \in 0..OutCap
  /\ Waiting(mem)' = Waiting(m) \o piece
  /\ Agree(mem', m, 0, InCap)
  /\ NulAfter(mem', w_out')
  /\ interest' = "WRITE"

LEMMA PutText ==
  ASSUME NEW S, Alphabet(S), answers \in Seq(S),
         NEW m \in Seq(S), Whole(m), w_out \in Nat,
         NEW c \in Seq(S), Len(c) >= 1, c[Len(c)] = Nul, w_out + Len(c) <= OutCap,
         NEW k \in Nat, k <= Len(c), Len(c) <= k + 1,
         mem' = Write(m, InCap + w_out, c), w_out' = w_out + k,
         answers' = answers \o Take(c, k), interest' = "WRITE"
  PROVE  Put(m, S, Take(c, k)) /\ Len(Take(c, k)) = k
<1> DEFINE at == InCap + w_out
           q == mem'
           to == at + k
<1>1. /\ InCap \in Nat /\ OutCap \in Nat /\ k \in Nat /\ k <= Len(c) /\ at \in Nat /\ to \in Nat
      /\ at + Len(c) <= Len(m) /\ Len(m) \in Nat /\ Len(c) \in Nat /\ InCap <= at /\ to = at + k
  BY CapAssumption DEF Whole
<1>2. Write(m, at, c) \in Seq(S) /\ IsWrite(Write(m, at, c), m, at, c)
  <2> HIDE DEF at
  <2> QED BY <1>1, WriteIs
<1>3. q \in Seq(S) /\ IsWrite(q, m, at, c)
  BY <1>2
<1>4. Take(c, k) \in Seq(S) /\ Len(Take(c, k)) = k
  BY <1>1, TakeIs DEF IsPart
<1>5. InCap + w_out' = to /\ w_out' = w_out + Len(Take(c, k)) /\ w_out' \in 0..OutCap
  BY <1>1, <1>4
<1> HIDE DEF at, to, q
<1>6. Cells(q, InCap, to) = Cells(m, InCap, at) \o Take(c, k)
  <2>1. /\ InCap \in Nat /\ at \in Nat /\ at + Len(c) <= Len(m) /\ InCap <= at
        /\ k <= Len(c) /\ to = at + k
    BY <1>1
  <2>2. q \in Seq(S) /\ IsWrite(q, m, at, c)
    BY <1>3
  <2> QED BY SMTT(40), <2>1, <2>2, CellsPut
<1>7. Agree(q, m, 0, InCap) /\ IsPart(c, q, at, Len(c))
  BY <1>1, <1>3, WriteAgrees
<1>8. Whole(q)
  BY <1>3 DEF IsWrite, Whole
<1>9. q[at + Len(c)] = Nul
  <2> DEFINE j == Len(c)
  <2>1. j \in 1..Len(c) /\ c[j] = Nul
    BY <1>1
  <2> HIDE DEF j
  <2>2. c[j] = q[at + j]
    BY <1>7, <2>1 DEF IsPart
  <2> QED BY <2>1, <2>2 DEF j
<1>10. NulAfter(q, w_out')
  <2> DEFINE p == w_out + Len(c) - 1
  <2>1. p \in 0..(OutCap - 1) /\ w_out' <= p + 1 /\ InCap + p + 1 = at + Len(c)
    BY <1>1 DEF at
  <2> HIDE DEF p
  <2> QED BY <1>9, <2>1 DEF NulAfter
<1> QED BY <1>3, <1>4, <1>5, <1>6, <1>7, <1>8, <1>10 DEF Put, Waiting, at, q

(* An empty line. *)
LEMMA EmptyLinePut ==
  ASSUME NEW S, Alphabet(S), answers \in Seq(S),
         NEW m \in Seq(S), Whole(m), w_out \in 0..(OutCap - 1),
         mem' = Write(m, InCap + w_out, <<Nul>>), w_out' = w_out + 1,
         answers' = Append(answers, Nul), interest' = "WRITE"
  PROVE  \E piece : Put(m, S, piece) /\ Len(piece) = 1
<1> DEFINE c == <<Nul>>
           k == 1
<1>1. c \in Seq(S) /\ Len(c) = 1 /\ c[1] = Nul
  BY NulText
<1>2. Len(c) >= 1 /\ c[Len(c)] = Nul /\ k \in Nat /\ k <= Len(c) /\ Len(c) <= k + 1
  BY <1>1
<1>3. w_out \in Nat /\ w_out + Len(c) <= OutCap /\ w_out' = w_out + k /\ mem' = Write(m, InCap + w_out, c)
  BY <1>1, CapAssumption
<1>4. answers' = answers \o c
  BY <1>1, AppendIsConcat
<1>5. Take(c, k) = c
  <2>1. Take(c, k) \in Seq(S) /\ IsPart(Take(c, k), c, 0, k)
    <3> HIDE DEF c, k
    <3> QED BY <1>1, <1>2, TakeIs
  <2>2. IsPart(c, c, 0, k)
    BY <1>1, WholeIs
  <2> HIDE DEF c, k
  <2> QED BY <1>1, <2>1, <2>2, PartsSame
<1>6. c \in Seq(S) /\ answers' = answers \o Take(c, k)
  BY <1>1, <1>4, <1>5
<1> HIDE DEF c, k
<1>7. Put(m, S, Take(c, k)) /\ Len(Take(c, k)) = k
  BY <1>2, <1>3, <1>6, PutText
<1> QED BY <1>7 DEF k

(* snprintf: any text, of which what fits is taken. *)
LEMMA ResponsePut ==
  ASSUME NEW S, Alphabet(S), answers \in Seq(S),
         NEW m \in Seq(S), Whole(m), w_out \in 0..(OutCap - 1),
         NEW text, Respond(m, text)
  PROVE  \E T, piece : S \subseteq T /\ Put(m, T, piece) /\ Len(piece) = Least(Len(text), OutCap - w_out - 1)
<1>1. PICK n \in 0..(OutCap - w_out - 1) :
        /\ n = Least(Len(text), OutCap - w_out - 1)
        /\ mem' = Write(m, InCap + w_out, Take(text, n) \o <<Nul>>)
        /\ w_out' = w_out + n
        /\ answers' = answers \o Take(text, n)
        /\ interest' = "WRITE"
  BY DEF Respond
<1> DEFINE T == S \cup {text[i] : i \in 1..n}
           piece == Take(text, n)
           z == <<Nul>>
           c == piece \o z
<1>2. S \subseteq T /\ Alphabet(T) /\ \A i \in 1..n : text[i] \in T
  BY DEF Alphabet
<1>3. OutCap \in Nat /\ w_out \in Nat /\ n \in Nat /\ w_out + n < OutCap
  BY CapAssumption
<1> HIDE DEF T
<1>4. m \in Seq(T) /\ answers \in Seq(T)
  BY <1>2, SeqMonotonic
<1>5. piece \in Seq(T) /\ Len(piece) = n
  <2>1. \A i \in 1..n : text[i] \in T
    BY <1>2
  <2>2. piece \in Seq(T) /\ Len(piece) = IF 1 <= n THEN n - 1 + 1 ELSE 0
    BY <1>3, <2>1, SubSeqProperties DEF Take
  <2> HIDE DEF piece
  <2> QED BY <1>3, <2>2
<1> HIDE DEF piece
<1>6. z \in Seq(T) /\ Len(z) = 1 /\ z[1] = Nul
  BY <1>2, NulText
<1>7. mem' = Write(m, InCap + w_out, c) /\ answers' = answers \o piece
  BY <1>1 DEF piece
<1> HIDE DEF z
<1>8. /\ c \in Seq(T) /\ Len(c) = n + 1
      /\ \A i \in 1..(n + 1) : c[i] = IF i <= n THEN piece[i] ELSE z[i - n]
  <2>1. /\ c \in Seq(T) /\ Len(c) = Len(piece) + Len(z)
        /\ \A i \in 1..(Len(piece) + Len(z)) : c[i] = IF i <= Len(piece) THEN piece[i] ELSE z[i - Len(piece)]
    BY <1>5, <1>6, ConcatProperties
  <2> QED BY <1>5, <1>6, <2>1
<1> HIDE DEF c
<1>9. c[Len(c)] = Nul
  <2> DEFINE j == Len(c)
  <2>1. j \in 1..(n + 1) /\ ~(j <= n) /\ j - n = 1
    BY <1>3, <1>8
  <2> HIDE DEF j
  <2>2. c[j] = z[1]
    BY <1>8, <2>1
  <2> QED BY <1>6, <2>2 DEF j
<1>10. Take(c, n) = piece
  <2>1. Take(c, n) \in Seq(T) /\ IsPart(Take(c, n), c, 0, n)
    BY <1>3, <1>8, TakeIs
  <2>2. IsPart(piece, c, 0, n)
    BY <1>3, <1>5, <1>8 DEF IsPart
  <2> QED BY <1>5, <2>1, <2>2, PartsSame
<1>11. c \in Seq(T) /\ Len(c) >= 1 /\ n <= Len(c) /\ Len(c) <= n + 1 /\ w_out + Len(c) <= OutCap
  BY <1>3, <1>8
<1>12. /\ answers' = answers \o Take(c, n) /\ w_out' = w_out + n /\ interest' = "WRITE"
  BY <1>1, <1>7, <1>10
<1>13. mem' = Write(m, InCap + w_out, c)
  BY <1>7
<1>14. Put(m, T, Take(c, n)) /\ Len(Take(c, n)) = n
  BY <1>2, <1>3, <1>4, <1>9, <1>11, <1>12, <1>13, PutText
<1>15. S \subseteq T /\ n = Least(Len(text), OutCap - w_out - 1)
  BY <1>1, <1>2
<1> QED BY <1>14, <1>15

-----------------------------------------------------------------------------
(* admin_read: what recv() and strchr() do. *)

NoEnd(m, from, to) == \A j \in from..(to - 1) : m[j + 1] \notin {Nl, Nul}

(* n cells have been received, into m, where e is the end of the line.       *)
Fed(n, m, e) ==
  /\ n \in Nat /\ n >= 1 /\ n <= Len(c2s) /\ w_in + n <= InCap
  /\ n = Len(c2s) \/ w_in + n = InCap
  /\ Whole(m) /\ IsWrite(m, mem, w_in, Take(c2s, n))
  /\ e \in Nat /\ r_in <= e /\ e < InCap + OutCap
  /\ m[e + 1] \in {Nl, Nul} /\ NoEnd(m, r_in, e)

LEMMA EndFound ==
  ASSUME NEW m, Whole(m), NEW w, NulAfter(m, w), r_in \in Nat, r_in <= InCap, NEW e, e = strchr(m, r_in)
  PROVE  /\ e \in Nat /\ r_in <= e /\ e < InCap + OutCap
         /\ m[e + 1] \in {Nl, Nul} /\ NoEnd(m, r_in, e)
<1> DEFINE E == {i \in r_in..(Len(m) - 1) : m[i + 1] \in {Nl, Nul}}
<1>1. InCap \in Nat /\ OutCap \in Nat /\ Len(m) = InCap + OutCap
  BY CapAssumption DEF Whole
<1>2. PICK p \in 0..(OutCap - 1) : m[InCap + p + 1] = Nul
  BY DEF NulAfter
<1>3. InCap + p \in E
  BY <1>1, <1>2
<1>4. E \subseteq Nat /\ E # {}
  <2>1. \A i \in r_in..(Len(m) - 1) : i \in Nat
    BY <1>1
  <2> QED BY <1>3, <2>1
<1>5. PICK i \in E : \A j \in E : ~(<<j, i>> \in OpToRel(<, Nat))
  BY <1>4, NatLessThanWellFounded, WFMin
<1>6. \A j \in r_in..(i - 1) : m[j + 1] \notin {Nl, Nul}
  <2> SUFFICES ASSUME NEW j \in r_in..(i - 1), m[j + 1] \in {Nl, Nul} PROVE FALSE
    OBVIOUS
  <2>1. j \in E /\ j < i /\ i \in Nat /\ j \in Nat
    BY <1>1
  <2> QED BY <1>5, <2>1 DEF OpToRel
<1>7. \E x \in r_in..(Len(m) - 1) :
        /\ m[x + 1] \in {Nl, Nul}
        /\ \A j \in r_in..(x - 1) : m[j + 1] \notin {Nl, Nul}
  BY <1>6
<1>8. /\ e \in r_in..(Len(m) - 1) /\ m[e + 1] \in {Nl, Nul}
      /\ \A j \in r_in..(e - 1) : m[j + 1] \notin {Nl, Nul}
  BY <1>7 DEF strchr
<1> QED BY <1>1, <1>8 DEF NoEnd

LEMMA RecvIs ==
  ASSUME NEW S, TextOver(S), Bounds, NulBehind, w_in < InCap, c2s # << >>,
         NEW n, n = Least(Len(c2s), InCap - w_in),
         NEW m, m = Write(mem, w_in, Take(c2s, n)), NEW e, e = strchr(m, r_in)
  PROVE  /\ Fed(n, m, e) /\ m \in Seq(S) /\ Drop(c2s, n) \in Seq(S)
         /\ Waiting(m) = Waiting(mem)
         /\ NulAfter(m, w_out)
<1> DEFINE c == Take(c2s, n)
           o == InCap + w_out
           end == InCap + OutCap
<1>1. /\ InCap \in Nat /\ OutCap \in Nat /\ r_in \in Nat /\ w_in \in Nat /\ w_out \in Nat
      /\ r_in <= InCap /\ w_in < InCap /\ w_out <= OutCap /\ Whole(mem)
  BY CapAssumption DEF Bounds
<1>2. mem \in Seq(S) /\ c2s \in Seq(S) /\ Len(c2s) \in Nat /\ Len(c2s) >= 1
  BY LenProperties, EmptySeq DEF TextOver
<1>3. /\ n \in Nat /\ n >= 1 /\ n <= Len(c2s) /\ w_in + n <= InCap
      /\ n = Len(c2s) \/ w_in + n = InCap
  BY <1>1, <1>2 DEF Least
<1>4. c \in Seq(S) /\ IsPart(c, c2s, 0, n)
  BY <1>2, <1>3, TakeIs
<1>5. Drop(c2s, n) \in Seq(S)
  BY <1>2, <1>3, DropIs
<1>6. Len(c) = n /\ Len(mem) = InCap + OutCap /\ o \in Nat /\ InCap <= o /\ o <= end /\ end \in Nat
  BY <1>1, <1>4 DEF IsPart, Whole
<1>7. w_in + Len(c) <= InCap /\ w_in + Len(c) <= Len(mem) /\ m = Write(mem, w_in, c)
  BY <1>1, <1>3, <1>6
<1> HIDE DEF c
<1>8. m \in Seq(S) /\ IsWrite(m, mem, w_in, c)
  BY <1>1, <1>2, <1>4, <1>7, WriteIs
<1>9. Whole(m) /\ Len(m) = Len(mem)
  BY <1>1, <1>8 DEF IsWrite, Whole
<1>10. \A x, y \in Nat : InCap <= x => Agree(m, mem, x, y)
  <2>1. \A x, y \in Nat : y <= w_in \/ w_in + Len(c) <= x => Agree(m, mem, x, y)
    BY <1>1, <1>3, <1>6, <1>8, WriteAgrees
  <2> QED BY <1>1, <1>3, <1>6, <2>1
<1>11. Cells(m, InCap, o) = Cells(mem, InCap, o)
  <2>1. Agree(m, mem, InCap, o)
    BY <1>1, <1>6, <1>10
  <2>2. o - InCap \in Nat /\ InCap + (o - InCap) = o /\ o <= Len(mem) /\ o <= Len(m) /\ Len(mem) \in Nat
    BY <1>1, <1>6, <1>9
  <2> HIDE DEF o
  <2>3. Cells(mem, InCap, o) \in Seq(S) /\ IsPart(Cells(mem, InCap, o), mem, InCap, o - InCap)
    BY <1>1, <1>2, <1>6, <2>2, CellsAre
  <2>4. Cells(m, InCap, o) \in Seq(S) /\ IsPart(Cells(m, InCap, o), m, InCap, o - InCap)
    BY <1>1, <1>6, <1>8, <2>2, CellsAre
  <2>5. IsPart(Cells(mem, InCap, o), m, InCap, o - InCap)
    BY <1>1, <1>6, <2>1, <2>2, <2>3, PartAgrees
  <2> QED BY <2>3, <2>4, <2>5, PartsSame
<1>12. NulAfter(m, w_out)
  <2>1. PICK p \in 0..(OutCap - 1) : w_out <= p + 1 /\ mem[InCap + p + 1] = Nul
    BY DEF NulBehind, NulAfter
  <2> DEFINE x == InCap + p + 1
  <2>2. x \in 1..Len(mem) /\ InCap < x /\ x <= end /\ InCap <= InCap
    BY <1>1, <1>6
  <2>3. Agree(m, mem, InCap, end)
    BY <1>1, <1>6, <1>10
  <2> HIDE DEF x
  <2>4. m[x] = mem[x]
    BY <2>2, <2>3 DEF Agree
  <2> QED BY <2>1, <2>4 DEF NulAfter, x
<1>13. /\ e \in Nat /\ r_in <= e /\ e < InCap + OutCap
       /\ m[e + 1] \in {Nl, Nul} /\ NoEnd(m, r_in, e)
  BY <1>1, <1>9, <1>12, EndFound
<1>14. Fed(n, m, e)
  BY <1>3, <1>8, <1>9, <1>13 DEF Fed, c
<1> QED BY <1>5, <1>8, <1>11, <1>12, <1>14 DEF Waiting

(* What the administrator has, or is on its way, and what waits. *)
Makes(g, w, all) == g \o w = all

LEMMA Moved ==
  ASSUME NEW S, NEW g \in Seq(S), NEW s \in Seq(S), NEW a \in Seq(S), NEW b \in Seq(S)
  PROVE  (g \o s) \o (a \o b) = (g \o (s \o a)) \o b
<1>1. g \o (s \o a) = (g \o s) \o a
  BY SMTT(40), ConcatAssociative
<1> DEFINE h == g \o s
<1>2. h \in Seq(S)
  BY ConcatProperties
<1> HIDE DEF h
<1>3. (h \o a) \o b = h \o (a \o b)
  BY SMTT(40), <1>2, ConcatAssociative
<1> QED BY <1>1, <1>3 DEF h

LEMMA MakesMore ==
  ASSUME NEW S, NEW g \in Seq(S), NEW w \in Seq(S), NEW piece \in Seq(S), NEW all, Makes(g, w, all)
  PROVE  Makes(g, w \o piece, all \o piece)
<1>1. (g \o w) \o piece = g \o (w \o piece)
  BY ConcatAssociative
<1> QED BY <1>1 DEF Makes

(* What a command leaves in in_data: the NUL at the end of its line. *)
LineEnded(m, e) == \A i \in 1..InCap : mem'[i] = IF i = e + 1 THEN Nul ELSE m[i]

(* The outcomes of reading: a command is carried out; nothing is a command;  *)
(* the process is gone.                                                      *)
Commanded(n, m, e) ==
  /\ m[e + 1] = Nl /\ e < w_in + n
  /\ CommandRead(e - r_in + 1, w_in + n) /\ LineEnded(m, e)
  /\ consumed' = consumed \o Cells(m, r_in, e) \o <<Nl>>
  /\ srv' = srv
Discarded(n, m, e) ==
  /\ m[e + 1] = Nul /\ r_in' = 0 /\ w_in' = 0
  /\ Agree(mem', m, 0, InCap)
  /\ consumed' = consumed /\ srv' = srv
Aborted(n, m, e) ==
  /\ m[e + 1] = Nl
  /\ e >= w_in + n \/ (e > r_in /\ \A i \in r_in..(e - 1) : m[i + 1] = Blank)
  /\ srv' = "aborted"

ReadOutcome ==
  \E S, n, m, e :
    /\ TextOver(S) /\ m \in Seq(S)
    /\ Fed(n, m, e) /\ c2s' = Drop(c2s, n)
    /\ UNCHANGED <<conn, r_out, s2c, unsent, client>>
    /\ \/ Commanded(n, m, e)
       \/ Discarded(n, m, e) /\ interest' = "WRITE"
       \/ Aborted(n, m, e) /\ UNCHANGED interest

(* What Put leaves of the invariant, with the rest unchanged. *)
LEMMA PutStep ==
  ASSUME NEW S, NEW T, TextOver(S), Bounds, Delivered, w_out < OutCap, S \subseteq T,
         NEW piece, NEW m, Put(m, T, piece), Waiting(m) = Waiting(mem),
         c2s' \in Seq(T), consumed' \in Seq(T), 
         UNCHANGED <<conn, r_out, s2c, unsent, client>>,
         r_in' \in Nat, w_in' \in 0..InCap, r_in' <= w_in'
  PROVE  Inv'
<1>1. /\ got \in Seq(T) /\ s2c \in Seq(T) /\ unsent \in Seq(T) /\ sent \in Seq(T)
  BY SeqMonotonic DEF TextOver
<1>2. Waiting(mem) \in Seq(T)
  <2>1. /\ mem \in Seq(T) /\ InCap \in Nat /\ w_out \in Nat /\ w_out <= OutCap /\ OutCap \in Nat
        /\ Len(mem) = InCap + OutCap
    BY SeqMonotonic, CapAssumption DEF TextOver, Bounds, Whole
  <2> DEFINE o == InCap + w_out
  <2>2. o \in Nat /\ InCap <= o /\ o <= Len(mem)
    BY <2>1
  <2> HIDE DEF o
  <2>3. Cells(mem, InCap, o) \in Seq(T)
    BY <2>1, <2>2, CellsAre
  <2> QED BY <2>3 DEF Waiting, o
<1>3. /\ Alphabet(T) /\ mem' \in Seq(T) /\ Whole(mem') /\ piece \in Seq(T) /\ answers \in Seq(T)
      /\ answers' = answers \o piece /\ w_out' \in 0..OutCap /\ NulAfter(mem', w_out') /\ interest' = "WRITE"
  BY DEF Put
<1>4. answers' \in Seq(T)
  BY <1>3, ConcatProperties
<1>5. s2c' = s2c /\ got' = got /\ csock' = csock /\ unsent' = unsent /\ sent' = sent /\ r_out' = r_out
  BY DEF client
<1>6. TextOver(T)'
  BY <1>1, <1>3, <1>4, <1>5 DEF TextOver
<1>7. Bounds'
  BY <1>3, <1>5 DEF Bounds
<1>8. Delivered'
  <2> SUFFICES ASSUME csock = "open" PROVE (got \o s2c) \o Waiting(mem)' = answers'
    BY <1>5 DEF Delivered
  <2> DEFINE g == got \o s2c
             v == Waiting(mem)
  <2>1. Makes(g, v, answers)
    BY DEF Delivered, Makes
  <2>2. g \in Seq(T)
    BY <1>1, ConcatProperties
  <2>3. v \in Seq(T) /\ v = Waiting(m)
    BY <1>2
  <2> HIDE DEF g, v
  <2>4. Makes(g, v \o piece, answers \o piece)
    BY <1>3, <2>1, <2>2, <2>3, MakesMore
  <2>5. Waiting(mem)' = v \o piece
    BY <2>3 DEF Put
  <2> QED BY <1>3, <2>4, <2>5 DEF g, Makes
<1> QED BY <1>3, <1>6, <1>7, <1>8 DEF Inv, Texts, NulBehind

(* A line is taken: it is empty, or a command. *)
LEMMA CommandStep ==
  ASSUME NEW S, TextOver(S), Bounds, NulBehind, Delivered, interest = "READ",
         NEW n, NEW m \in Seq(S), NEW e, Fed(n, m, e), m[e + 1] = Nl,
         Waiting(m) = Waiting(mem), NulAfter(m, w_out),
         c2s' \in Seq(S), UNCHANGED <<conn, r_out, s2c, unsent, client>>,
         Command(m, w_in + n, e)
  PROVE  Inv' /\ Commanded(n, m, e)
<1> DEFINE w == w_in + n
           line == Cells(m, r_in, e)
           words == SelectSeq(line, IsWord)
           m0 == Write(m, e, <<Nul>>)
           k == e - r_in + 1
<1>1. /\ w_out < OutCap /\ e < w /\ CommandRead(k, w) /\ srv' = srv
      /\ consumed' = consumed \o line \o <<Nl>>
      /\ \/ /\ mem' = Write(m0, InCap + w_out, <<Nul>>)
            /\ w_out' = w_out + 1
            /\ answers' = Append(answers, Nul)
            /\ interest' = "WRITE"
         \/ Respond(m0, ResponseTo(words))
  BY DEF Command
<1> HIDE DEF words
<1>2. /\ InCap \in Nat /\ OutCap \in Nat /\ w \in Nat /\ w <= InCap /\ e \in Nat /\ r_in \in Nat /\ r_in <= e
      /\ w_in \in Nat /\ w_out \in 0..(OutCap - 1) /\ Len(m) = InCap + OutCap
  BY <1>1, CapAssumption DEF Fed, Bounds, Whole
<1>3. Alphabet(S) /\ answers \in Seq(S) /\ consumed \in Seq(S)
  BY DEF TextOver
<1>4. m0 \in Seq(S) /\ IsWrite(m0, m, e, <<Nul>>)
  <2> DEFINE z == <<Nul>>
  <2>1. z \in Seq(S) /\ Len(z) = 1
    BY <1>3, NulText
  <2>2. e + Len(z) <= Len(m) /\ e \in Nat
    BY <1>1, <1>2, <2>1
  <2> HIDE DEF z
  <2>3. Write(m, e, z) \in Seq(S) /\ IsWrite(Write(m, e, z), m, e, z)
    BY <2>1, <2>2, WriteIs
  <2> QED BY <2>3 DEF z
<1>5. /\ Len(m0) = Len(m)
      /\ \A i \in 1..Len(m) : m0[i] = IF i = e + 1 THEN Nul ELSE m[i]
  <2> DEFINE z == <<Nul>>
  <2>1. Len(z) = 1 /\ z[1] = Nul
    BY <1>3, NulText
  <2> HIDE DEF z, m0
  <2>2. /\ Len(m0) = Len(m)
        /\ \A i \in 1..Len(m) : m0[i] = IF e < i /\ i <= e + Len(z) THEN z[i - e] ELSE m[i]
    BY <1>4 DEF IsWrite, z
  <2>3. ASSUME NEW i \in 1..Len(m) PROVE m0[i] = IF i = e + 1 THEN Nul ELSE m[i]
    <3>1. (e < i /\ i <= e + Len(z)) <=> i = e + 1
      BY <1>2, <2>1
    <3>2. i = e + 1 => i - e = 1
      BY <1>2
    <3> QED BY <2>1, <2>2, <3>1, <3>2
  <2> QED BY <2>2, <2>3
<1> HIDE DEF m0
<1>6. Whole(m0)
  BY <1>2, <1>5 DEF Whole
<1>7. Waiting(m0) = Waiting(m)
  <2> DEFINE o == InCap + w_out
  <2>1. /\ o \in Nat /\ InCap <= o /\ o <= Len(m) /\ o <= Len(m0) /\ o - InCap \in Nat
        /\ o = InCap + (o - InCap) /\ Len(m) \in Nat
    BY <1>2, <1>5
  <2>2. Agree(m0, m, InCap, o)
    BY <1>1, <1>2, <1>5 DEF Agree
  <2> HIDE DEF o
  <2>3. Cells(m, InCap, o) \in Seq(S) /\ IsPart(Cells(m, InCap, o), m, InCap, o - InCap)
    BY <1>2, <2>1, CellsAre
  <2>4. Cells(m0, InCap, o) \in Seq(S) /\ IsPart(Cells(m0, InCap, o), m0, InCap, o - InCap)
    BY <1>2, <1>4, <2>1, CellsAre
  <2>5. IsPart(Cells(m, InCap, o), m0, InCap, o - InCap)
    BY <1>2, <2>1, <2>2, <2>3, PartAgrees
  <2>6. Cells(m0, InCap, o) = Cells(m, InCap, o)
    BY <2>3, <2>4, <2>5, PartsSame
  <2> QED BY <2>6 DEF Waiting, o
<1>8. PICK T, piece : S \subseteq T /\ Put(m0, T, piece)
  <2>1. CASE Respond(m0, ResponseTo(words))
    BY <1>2, <1>3, <1>4, <1>6, <2>1, ResponsePut
  <2>2. CASE /\ mem' = Write(m0, InCap + w_out, <<Nul>>)
             /\ w_out' = w_out + 1
             /\ answers' = Append(answers, Nul)
             /\ interest' = "WRITE"
    BY <1>2, <1>3, <1>4, <1>6, <2>2, EmptyLinePut
  <2> QED BY <1>1, <2>1, <2>2
<1>9. LineEnded(m, e)
  <2>1. Agree(mem', m0, 0, InCap)
    BY <1>8 DEF Put
  <2>2. ASSUME NEW i \in 1..InCap PROVE mem'[i] = IF i = e + 1 THEN Nul ELSE m[i]
    <3>1. i \in 1..Len(m0) /\ i \in 1..Len(m) /\ 0 < i /\ i <= InCap
      BY <1>2, <1>5
    <3>2. mem'[i] = m0[i]
      BY <2>1, <3>1 DEF Agree
    <3> QED BY <1>5, <3>1, <3>2
  <2> QED BY <2>2 DEF LineEnded
<1>10. consumed' \in Seq(T)
  <2> DEFINE z == <<Nl>>
  <2>1. line \in Seq(S)
    <3>1. e <= Len(m)
      BY <1>1, <1>2
    <3> QED BY <1>2, <3>1, CellsAre
  <2>2. z \in Seq(S)
    BY <1>3 DEF Alphabet
  <2> HIDE DEF z, line
  <2>3. consumed \o line \o z \in Seq(S)
    BY <1>3, <2>1, <2>2, ConcatProperties
  <2>4. consumed' \in Seq(S)
    BY <1>1, <2>3 DEF z
  <2> QED BY <1>8, <2>4, SeqMonotonic
<1>11. r_in' \in Nat /\ w_in' \in 0..InCap /\ r_in' <= w_in'
  BY <1>1, <1>2 DEF CommandRead
<1>12. c2s' \in Seq(T)
  BY <1>8, SeqMonotonic
<1>13. w_out < OutCap /\ Waiting(m0) = Waiting(mem)
  BY <1>1, <1>7
<1>14. Inv'
  BY <1>8, <1>10, <1>11, <1>12, <1>13, PutStep
<1> QED BY <1>1, <1>9, <1>14 DEF Commanded

(* No end of a line among the bytes that have arrived. *)
LEMMA NoCommandStep ==
  ASSUME NEW S, TextOver(S), Bounds, NulBehind, Delivered, interest = "READ",
         NEW n, NEW m \in Seq(S), NEW e, Fed(n, m, e), m[e + 1] # Nl,
         Waiting(m) = Waiting(mem),
         c2s' \in Seq(S), UNCHANGED <<conn, r_out, s2c, unsent, client>>,
         NoCommand(m, w_in + n)
  PROVE  Inv' /\ Discarded(n, m, e) /\ interest' = "WRITE"
<1>1. w_out < OutCap /\ w_out \in 0..(OutCap - 1) /\ InCap \in Nat
  BY CapAssumption DEF Bounds
<1>2. /\ Respond(m, <<"LONG", Nl>>) /\ r_in' = 0 /\ w_in' = 0
      /\ srv' = srv /\ consumed' = consumed
  BY <1>1 DEF NoCommand
<1>3. Alphabet(S) /\ answers \in Seq(S) /\ consumed \in Seq(S) /\ Whole(m)
  BY DEF TextOver, Fed
<1>4. PICK T, piece : S \subseteq T /\ Put(m, T, piece)
  BY <1>1, <1>2, <1>3, ResponsePut
<1>5. c2s' \in Seq(T) /\ consumed' \in Seq(T)
  BY <1>2, <1>3, <1>4, SeqMonotonic
<1>6. r_in' \in Nat /\ w_in' \in 0..InCap /\ r_in' <= w_in'
  BY <1>1, <1>2
<1>7. Inv'
  BY <1>1, <1>4, <1>5, <1>6, PutStep
<1>8. Agree(mem', m, 0, InCap) /\ interest' = "WRITE"
  BY <1>4 DEF Put
<1>9. m[e + 1] = Nul
  BY DEF Fed
<1> QED BY <1>2, <1>7, <1>8, <1>9 DEF Discarded

(* The process is gone. *)
LEMMA AbortStep ==
  ASSUME NEW S, TextOver(S), Bounds, NulBehind, Delivered,
         NEW n, NEW m, NEW e, m[e + 1] = Nl,
         c2s' \in Seq(S), UNCHANGED <<conn, r_out, s2c, unsent, client>>,
         CommandAborts(m, w_in + n, e)
  PROVE  Inv' /\ Aborted(n, m, e) /\ UNCHANGED interest
<1>1. /\ UNCHANGED <<interest, mem, r_in, w_in, w_out, config, table, history>>
      /\ UNCHANGED <<conn, r_out, s2c, unsent, client>>
  BY DEF CommandAborts
<1>2. TextOver(S)' /\ Bounds' /\ NulBehind' /\ Delivered'
  BY <1>1 DEF TextOver, Bounds, NulBehind, Delivered, Waiting, history, client
<1>3. Aborted(n, m, e)
  BY DEF CommandAborts, Aborted
<1> QED BY <1>1, <1>2, <1>3 DEF Inv, Texts

(* Whatever arrives. *)
LEMMA ReadStep ==
  ASSUME Inv, interest = "READ", Received
  PROVE  Inv' /\ ReadOutcome
<1>1. PICK S : TextOver(S)
  BY DEF Inv, Texts
<1>2. Bounds /\ NulBehind /\ Delivered
  BY DEF Inv
<1>3. /\ w_in < InCap /\ c2s # << >>
      /\ UNCHANGED <<conn, r_out, s2c, unsent, client>>
  BY DEF Received
<1>4. PICK n, m, e :
        /\ n = Least(Len(c2s), InCap - w_in)
        /\ m = Write(mem, w_in, Take(c2s, n))
        /\ e = strchr(m, r_in)
        /\ c2s' = Drop(c2s, n)
        /\ IF m[e + 1] = Nl
             THEN \/ Command(m, w_in + n, e)
                  \/ CommandPostponed(m, w_in + n, e)
                  \/ CommandAborts(m, w_in + n, e)
             ELSE NoCommand(m, w_in + n)
  BY DEF Received
<1>5. /\ Fed(n, m, e) /\ m \in Seq(S) /\ c2s' \in Seq(S)
      /\ Waiting(m) = Waiting(mem) /\ NulAfter(m, w_out)
  <2>1. n = Least(Len(c2s), InCap - w_in) /\ m = Write(mem, w_in, Take(c2s, n)) /\ e = strchr(m, r_in)
    BY <1>4
  <2>2. /\ Fed(n, m, e) /\ m \in Seq(S) /\ Drop(c2s, n) \in Seq(S)
        /\ Waiting(m) = Waiting(mem) /\ NulAfter(m, w_out)
    BY <1>1, <1>2, <1>3, <2>1, RecvIs
  <2> QED BY <1>4, <2>2
<1>6. CASE m[e + 1] = Nl /\ Command(m, w_in + n, e)
  <2>1. Inv' /\ Commanded(n, m, e)
    BY <1>1, <1>2, <1>3, <1>5, <1>6, CommandStep
  <2>2. /\ TextOver(S) /\ m \in Seq(S) /\ Fed(n, m, e) /\ c2s' = Drop(c2s, n)
        /\ UNCHANGED <<conn, r_out, s2c, unsent, client>>
    BY <1>1, <1>3, <1>4, <1>5
  <2>3. \/ Commanded(n, m, e)
        \/ Discarded(n, m, e) /\ interest' = "WRITE"
        \/ Aborted(n, m, e) /\ UNCHANGED interest
    BY <2>1
  <2>4. ReadOutcome
    BY <2>2, <2>3 DEF ReadOutcome
  <2> QED BY <2>1, <2>4
<1>7. ~CommandPostponed(m, w_in + n, e)
  BY <1>2, CapAssumption DEF CommandPostponed, Bounds
<1>8. CASE m[e + 1] = Nl /\ CommandAborts(m, w_in + n, e)
  <2>1. Inv' /\ Aborted(n, m, e) /\ UNCHANGED interest
    BY <1>1, <1>2, <1>3, <1>5, <1>8, AbortStep
  <2>2. /\ TextOver(S) /\ m \in Seq(S) /\ Fed(n, m, e) /\ c2s' = Drop(c2s, n)
        /\ UNCHANGED <<conn, r_out, s2c, unsent, client>>
    BY <1>1, <1>3, <1>4, <1>5
  <2>3. \/ Commanded(n, m, e)
        \/ Discarded(n, m, e) /\ interest' = "WRITE"
        \/ Aborted(n, m, e) /\ UNCHANGED interest
    BY <2>1
  <2>4. ReadOutcome
    BY <2>2, <2>3 DEF ReadOutcome
  <2> QED BY <2>1, <2>4
<1>9. CASE m[e + 1] # Nl /\ NoCommand(m, w_in + n)
  <2>1. Inv' /\ Discarded(n, m, e) /\ interest' = "WRITE"
    BY <1>1, <1>2, <1>3, <1>5, <1>9, NoCommandStep
  <2>2. /\ TextOver(S) /\ m \in Seq(S) /\ Fed(n, m, e) /\ c2s' = Drop(c2s, n)
        /\ UNCHANGED <<conn, r_out, s2c, unsent, client>>
    BY <1>1, <1>3, <1>4, <1>5
  <2>3. \/ Commanded(n, m, e)
        \/ Discarded(n, m, e) /\ interest' = "WRITE"
        \/ Aborted(n, m, e) /\ UNCHANGED interest
    BY <2>1
  <2>4. ReadOutcome
    BY <2>2, <2>3 DEF ReadOutcome
  <2> QED BY <2>1, <2>4
<1> QED BY <1>4, <1>6, <1>7, <1>8, <1>9

-----------------------------------------------------------------------------
(* admin_write: send() and buffer_compact. *)
LEMMA SendStep ==
  ASSUME Inv, NEW n, n = Least(Len(Pending), SockCap - Len(s2c)), Sent(n),
         UNCHANGED <<conn, inbuf, config, c2s, unsent, prog, asked, got, sent, history, table>>
  PROVE  /\ Inv' /\ Pending = Waiting(mem) /\ s2c' = s2c \o Take(Waiting(mem), n)
         /\ Len(Waiting(mem)) = w_out /\ Waiting(mem)' = Drop(Waiting(mem), n)
         /\ n \in 1..w_out /\ w_out' = w_out - n /\ Agree(mem', mem, 0, InCap)
<1>1. PICK S : TextOver(S)
  BY DEF Inv, Texts
<1>2. Bounds /\ NulBehind /\ Delivered
  BY DEF Inv
<1> DEFINE p == Waiting(mem)
           g == got \o s2c
           a == Take(p, n)
           b == Drop(p, n)
           o == InCap + w_out
<1>3. /\ InCap \in Nat /\ OutCap \in Nat /\ SockCap \in Nat /\ w_out \in Nat /\ w_out <= OutCap
      /\ r_out = 0 /\ Len(mem) = InCap + OutCap /\ o \in Nat /\ InCap <= o /\ o <= Len(mem) /\ o - InCap = w_out
  BY <1>2, CapAssumption DEF Bounds, Whole
<1>4. mem \in Seq(S) /\ s2c \in Seq(S) /\ got \in Seq(S) /\ Len(s2c) \in Nat
  BY <1>1, LenProperties DEF TextOver
<1>5. Pending = p
  BY <1>3 DEF Pending, Waiting
<1>6. p \in Seq(S) /\ IsPart(p, mem, InCap, w_out)
  <2> HIDE DEF o
  <2>1. Cells(mem, InCap, o) \in Seq(S) /\ IsPart(Cells(mem, InCap, o), mem, InCap, o - InCap)
    BY <1>3, <1>4, CellsAre
  <2> QED BY <1>3, <2>1 DEF Waiting, o
<1> HIDE DEF p
<1>7. Len(p) = w_out
  BY <1>6 DEF IsPart
<1>8. n \in Nat /\ n >= 1 /\ n <= w_out /\ n <= Len(p)
  BY <1>3, <1>4, <1>5, <1>7 DEF Sent, Least
<1>9. /\ s2c' = s2c \o a /\ r_out' = 0 /\ w_out' = w_out - n /\ mem' = Write(mem, InCap, b)
      /\ interest' = "READ" /\ srv' = srv /\ csock' = csock
  BY <1>3, <1>5 DEF Sent, SendSome
<1>10. /\ a \in Seq(S) /\ b \in Seq(S) /\ Len(b) = w_out - n
  <2>1. IsPart(b, p, n, Len(p) - n) /\ a \in Seq(S) /\ b \in Seq(S)
    BY <1>6, <1>8, TakeIs, DropIs
  <2> QED BY <1>7, <2>1 DEF IsPart
<1>11. a \o b = p
  BY <1>6, <1>8, TakeThenDrop
<1> HIDE DEF a, b
<1> DEFINE k == Len(b)
           to == InCap + k
<1>12. /\ k \in Nat /\ k = w_out - n /\ to \in Nat /\ to <= Len(mem) /\ InCap <= to /\ InCap + w_out' = to
       /\ to - InCap = k
  BY SMTT(40), <1>3, <1>8, <1>9, <1>10
<1>13. mem' \in Seq(S) /\ IsWrite(mem', mem, InCap, b)
  <2>1. InCap + Len(b) <= Len(mem) /\ InCap \in Nat
    BY <1>3, <1>12
  <2>2. Write(mem, InCap, b) \in Seq(S) /\ IsWrite(Write(mem, InCap, b), mem, InCap, b)
    BY <1>4, <1>10, <2>1, WriteIs
  <2> QED BY <1>9, <2>2
<1>14. Len(mem') = Len(mem) /\ Len(mem) \in Nat
  BY <1>3, <1>13 DEF IsWrite
<1>15. Waiting(mem)' = b
  <2> DEFINE q == mem'
  <2>1. q \in Seq(S) /\ to <= Len(q) /\ IsWrite(q, mem, InCap, b)
    BY <1>12, <1>13, <1>14
  <2> HIDE DEF q, k, to
  <2>2. Cells(q, InCap, to) \in Seq(S) /\ IsPart(Cells(q, InCap, to), q, InCap, k)
    BY <1>3, <1>12, <2>1, CellsAre
  <2>3. IsPart(b, q, InCap, k)
    BY <1>3, <1>12, <1>14, <2>1, WriteAgrees DEF k, to
  <2>4. Cells(q, InCap, to) = b
    BY <1>10, <2>2, <2>3, PartsSame
  <2> QED BY <1>12, <2>4 DEF Waiting, q
<1>16. Agree(mem', mem, 0, InCap)
  BY <1>3, <1>12, <1>13, <1>14, WriteAgrees
<1>17. NulAfter(mem', w_out')
  <2>1. PICK x \in 0..(OutCap - 1) : w_out <= x + 1 /\ mem[InCap + x + 1] = Nul
    BY <1>2 DEF NulBehind, NulAfter
  <2> DEFINE y == InCap + x + 1
  <2>2. y \in 1..Len(mem) /\ ~(InCap < y /\ y <= InCap + Len(b)) /\ w_out' <= x + 1
    BY SMTT(40), <1>3, <1>8, <1>9, <1>10, <2>1
  <2> HIDE DEF y
  <2>3. mem'[y] = mem[y]
    BY <1>13, <2>2 DEF IsWrite
  <2> QED BY <2>1, <2>2, <2>3 DEF NulAfter, y
<1>18. s2c' \in Seq(S)
  BY <1>4, <1>9, <1>10, ConcatProperties
<1>19. TextOver(S)'
  BY <1>1, <1>13, <1>18 DEF TextOver, history
<1>20. Bounds'
  BY <1>2, <1>3, <1>8, <1>9, <1>14 DEF Bounds, Whole, inbuf
<1>21. Delivered'
  <2>1. (got \o s2c) \o p = answers
    BY <1>2 DEF Delivered, Sent, p
  <2>2. (got \o s2c) \o (a \o b) = (got \o (s2c \o a)) \o b
    <3>1. got \in Seq(S) /\ s2c \in Seq(S) /\ a \in Seq(S) /\ b \in Seq(S)
      BY <1>4, <1>10
    <3> QED BY <3>1, Moved, SMTT(40)
  <2> QED BY <1>9, <1>11, <1>15, <2>1, <2>2 DEF Delivered, history
<1>22. Inv'
  BY <1>17, <1>19, <1>20, <1>21 DEF Inv, Texts, NulBehind
<1>23. n \in 1..w_out
  BY <1>3, <1>8
<1> QED BY <1>5, <1>7, <1>9, <1>15, <1>16, <1>22, <1>23 DEF p, a, b

LEMMA WriteStep ==
  ASSUME Inv, admin_write
  PROVE  Inv'
<1>1. PICK S : TextOver(S)
  BY DEF Inv, Texts
<1>2. Bounds /\ NulBehind /\ Delivered
  BY DEF Inv
<1>3. UNCHANGED <<conn, inbuf, config, c2s, unsent, prog, asked, got, sent, history, table>>
  BY DEF admin_write
<1>4. CASE Sent(Least(Len(Pending), SockCap - Len(s2c)))
  BY <1>3, <1>4, SendStep
<1>5. CASE SentInVain
  <2>1. /\ r_out' = 0 /\ w_out' = 0 /\ interest' = "READ" /\ csock' = "broken" /\ mem' = mem /\ s2c' = s2c
    BY <1>5 DEF SentInVain
  <2>2. TextOver(S)'
    BY <1>1, <1>3, <2>1 DEF TextOver, history
  <2>3. Bounds'
    BY <1>2, <1>3, <2>1, CapAssumption DEF Bounds, inbuf
  <2>4. NulBehind'
    <3>1. PICK p \in 0..(OutCap - 1) : mem[InCap + p + 1] = Nul
      BY <1>2 DEF NulBehind, NulAfter
    <3>2. w_out' <= p + 1
      BY <2>1
    <3> QED BY <2>1, <3>1, <3>2 DEF NulBehind, NulAfter
  <2>5. Delivered'
    BY <2>1 DEF Delivered
  <2> QED BY <2>2, <2>3, <2>4, <2>5 DEF Inv, Texts
<1>6. CASE SendError
  <2>1. UNCHANGED <<interest, mem, outbuf, s2c, csock, rough>>
    BY <1>6 DEF SendError
  <2>2. TextOver(S)'
    BY <1>1, <1>3, <2>1 DEF TextOver, history
  <2>3. Bounds' /\ NulBehind' /\ Delivered'
    BY <1>2, <1>3, <2>1 DEF Bounds, NulBehind, Delivered, Waiting, inbuf, outbuf, history
  <2> QED BY <2>2, <2>3 DEF Inv, Texts
<1> QED BY <1>4, <1>5, <1>6 DEF admin_write

-----------------------------------------------------------------------------
(* The administrator. *)

(* A step of the administrator and the network changes nothing at the        *)
(* server, and moves what it reads.                                          *)
LEMMA ClientStep ==
  ASSUME NEW S, TextOver(S), Bounds, NulBehind, Delivered, UNCHANGED server,
         c2s' \in Seq(S), unsent' \in Seq(S), s2c' \in Seq(S), got' \in Seq(S), sent' \in Seq(S),
         csock' = "open" => csock = "open" /\ got' \o s2c' = got \o s2c
  PROVE  Inv'
<1>1. UNCHANGED <<interest, mem, r_in, w_in, r_out, w_out, consumed, answers>>
  BY DEF server, inbuf, outbuf, history
<1>2. TextOver(S)'
  BY <1>1 DEF TextOver
<1>3. Bounds' /\ NulBehind'
  BY <1>1 DEF Bounds, NulBehind
<1>4. Delivered'
  BY <1>1 DEF Delivered, Waiting
<1> QED BY <1>2, <1>3, <1>4 DEF Inv, Texts

LEMMA StringText ==
  ASSUME NEW S, Alphabet(S), NEW l \in Lines
  PROVE  l \in Seq(S)
<1>1. l \in Seq(STRING)
  BY LinesAssumption
<1>2. STRING \subseteq S
  BY DEF Alphabet
<1> QED BY <1>1, <1>2, SeqMonotonic

(* Three sequences that make an empty one. *)
LEMMA NothingThere ==
  ASSUME NEW S, NEW a \in Seq(S), NEW b \in Seq(S), NEW c \in Seq(S), a \o b \o c = << >>
  PROVE  a = << >> /\ b = << >> /\ c = << >>
<1> DEFINE t == a \o b
<1>1. t \in Seq(S) /\ Len(t) = Len(a) + Len(b)
  BY ConcatProperties
<1> HIDE DEF t
<1>2. Len(t \o c) = Len(t) + Len(c)
  BY <1>1, ConcatProperties
<1>3. Len(t \o c) = 0
  <2>1. t \o c = << >>
    BY DEF t
  <2> QED BY <2>1
<1>4. Len(a) \in Nat /\ Len(b) \in Nat /\ Len(c) \in Nat
  BY LenProperties
<1>5. Len(a) = 0 /\ Len(b) = 0 /\ Len(c) = 0
  BY <1>1, <1>2, <1>3, <1>4
<1> QED BY <1>5, EmptySeq

(* What admin_client reads was on its way. *)
LEMMA ProgramMoves ==
  ASSUME NEW S, TextOver(S), ProgramReads
  PROVE  got' \in Seq(S) /\ s2c' \in Seq(S) /\ got' \o s2c' = got \o s2c
<1>1. PICK k \in 1..Len(s2c) :
        got' = got \o ReadOf(Take(s2c, k)) /\ s2c' = Drop(s2c, Len(ReadOf(Take(s2c, k))))
  BY DEF ProgramReads
<1> DEFINE a == Take(s2c, k)
           b == Drop(s2c, k)
<1>2. s2c \in Seq(S) /\ got \in Seq(S) /\ Len(s2c) \in Nat /\ k \in Nat /\ k <= Len(s2c)
  BY LenProperties DEF TextOver
<1>3. a \in Seq(S) /\ Len(a) = k /\ b \in Seq(S) /\ a \o b = s2c
  BY <1>2, TakeIs, DropIs, TakeThenDrop DEF IsPart
<1>4. got' = got \o a /\ s2c' = b
  BY <1>1, <1>3 DEF ReadOf
<1> HIDE DEF a, b
<1>5. got' \in Seq(S) /\ s2c' \in Seq(S)
  BY <1>2, <1>3, <1>4, ConcatProperties
<1>6. (got \o a) \o b = got \o (a \o b)
  <2>1. got \in Seq(S) /\ a \in Seq(S) /\ b \in Seq(S)
    BY <1>2, <1>3
  <2> QED BY SMTT(40), <2>1, ConcatAssociative
<1> QED BY <1>3, <1>4, <1>5, <1>6

LEMMA NextStep ==
  ASSUME Inv, Next
  PROVE  Inv'
<1>1. PICK S : TextOver(S)
  BY DEF Inv, Texts
<1>2. Bounds /\ NulBehind /\ Delivered
  BY DEF Inv
<1>3. /\ Alphabet(S) /\ c2s \in Seq(S) /\ unsent \in Seq(S) /\ s2c \in Seq(S) /\ got \in Seq(S)
      /\ sent \in Seq(S) /\ << >> \in Seq(S) /\ Len(s2c) \in Nat
  BY <1>1, EmptySeq, LenProperties DEF TextOver
<1>4. CASE admin_read
  <2>1. CASE Received
    BY <1>4, <2>1, ReadStep DEF admin_read
  <2>2. CASE admin_close
    <3>1. UNCHANGED <<srv, interest, mem, inbuf, outbuf, config, wire, client, history, table>>
      BY <2>2 DEF admin_close
    <3>2. TextOver(S)' /\ Bounds' /\ NulBehind' /\ Delivered'
      BY <1>1, <1>2, <3>1 DEF TextOver, Bounds, NulBehind, Delivered, Waiting, inbuf, outbuf, wire, client, history
    <3> QED BY <3>2 DEF Inv, Texts
  <2> QED BY <1>4, <2>1, <2>2 DEF admin_read
<1>5. CASE admin_write
  BY <1>5, WriteStep
<1>6. CASE ClientSends
  <2>1. PICK l \in Lines : \E k \in 1..Len(l) :
          c2s' = c2s \o Take(l, k) /\ unsent' = Drop(l, k) /\ sent' = sent \o l
    BY <1>6 DEF ClientSends
  <2>2. PICK k \in 1..Len(l) : c2s' = c2s \o Take(l, k) /\ unsent' = Drop(l, k) /\ sent' = sent \o l
    BY <2>1
  <2>3. l \in Seq(S) /\ Len(l) \in Nat
    BY <1>3, StringText, LenProperties
  <2>4. k \in Nat /\ k <= Len(l)
    BY <2>3
  <2>5. Take(l, k) \in Seq(S) /\ Drop(l, k) \in Seq(S)
    BY <2>3, <2>4, TakeIs, DropIs
  <2>6. c2s' \in Seq(S) /\ unsent' \in Seq(S) /\ sent' \in Seq(S)
    BY <1>3, <2>2, <2>3, <2>5, ConcatProperties
  <2>7. UNCHANGED <<server, csock, s2c, got>>
    BY <1>6 DEF ClientSends
  <2> QED BY <1>1, <1>2, <1>3, <2>6, <2>7, ClientStep
<1>7. CASE RestArrives
  <2>1. c2s' = c2s \o unsent /\ unsent' = << >> /\ UNCHANGED <<server, s2c, client>>
    BY <1>7 DEF RestArrives
  <2>2. c2s' \in Seq(S)
    BY <1>3, <2>1, ConcatProperties
  <2>3. csock' = csock /\ got' = got /\ s2c' = s2c /\ sent' = sent /\ UNCHANGED server
    BY <2>1 DEF client
  <2> QED BY <1>1, <1>2, <1>3, <2>1, <2>2, <2>3, ClientStep
<1>8. CASE ClientReads
  <2>1. /\ got' = got \o s2c /\ s2c' = << >> /\ csock = "open"
        /\ UNCHANGED <<server, c2s, unsent, csock, sent>>
    BY <1>8 DEF ClientReads
  <2>2. got' \in Seq(S) /\ s2c' \in Seq(S)
    BY <1>3, <2>1, ConcatProperties
  <2>3. got' \o s2c' = got \o s2c
    <3> DEFINE g == got \o s2c
    <3>1. g \in Seq(S)
      BY <1>3, ConcatProperties
    <3> HIDE DEF g
    <3>2. g \o << >> = g
      BY <3>1, ConcatEmptySeq
    <3> QED BY <2>1, <3>2 DEF g
  <2> QED BY <1>1, <1>2, <1>3, <2>1, <2>2, <2>3, ClientStep
<1>9. CASE ProgramReads
  <2>1. csock = "open" /\ UNCHANGED <<server, c2s, unsent, sent>> /\ csock' \in {"open", "closed"}
    BY <1>9 DEF ProgramReads
  <2>2. got' \in Seq(S) /\ s2c' \in Seq(S) /\ got' \o s2c' = got \o s2c
    BY <1>1, <1>9, ProgramMoves
  <2> QED BY <1>1, <1>2, <1>3, <2>1, <2>2, ClientStep
<1>10. CASE ProgramEnds
  <2>1. /\ csock' = "closed" /\ UNCHANGED <<server, c2s, s2c, unsent, got, sent>>
    BY <1>10 DEF ProgramEnds, wire
  <2> QED BY <1>1, <1>2, <1>3, <2>1, ClientStep
<1>11. CASE ClientLeaves
  <2>1. /\ csock' # "open" /\ UNCHANGED <<server, c2s, s2c, unsent, got, sent>>
    BY <1>11 DEF ClientLeaves, wire
  <2> QED BY <1>1, <1>2, <1>3, <2>1, ClientStep
<1>12. CASE ServerStops \/ Others
  <2>1. UNCHANGED <<interest, mem, inbuf, outbuf, wire, client, history>>
    BY <1>12 DEF ServerStops, Others
  <2>2. TextOver(S)' /\ Bounds' /\ NulBehind' /\ Delivered'
    BY <1>1, <1>2, <2>1 DEF TextOver, Bounds, NulBehind, Delivered, Waiting, inbuf, outbuf, wire, client, history
  <2> QED BY <2>2 DEF Inv, Texts
<1> QED BY <1>4, <1>5, <1>6, <1>7, <1>8, <1>9, <1>10, <1>11, <1>12 DEF Next

LEMMA InitInv ==
  ASSUME Init
  PROVE  Inv
<1> DEFINE S == STRING \cup {Nul, Nl}
<1>1. Alphabet(S) /\ Nul \in S
  BY DEF Alphabet
<1> HIDE DEF S
<1>2. InCap \in Nat \ {0} /\ OutCap \in Nat \ {0}
  BY CapAssumption
<1>3. << >> \in Seq(S)
  BY EmptySeq
<1> DEFINE N == InCap + OutCap
           m == [i \in 1..N |-> Nul]
<1>4. m \in Seq(S) /\ Len(m) = N
  BY <1>1, <1>2
<1>5. mem = m
  BY DEF Init
<1>6. TextOver(S)
  BY <1>1, <1>3, <1>4, <1>5 DEF TextOver, Init
<1>7. Bounds
  BY <1>2, <1>4, <1>5 DEF Bounds, Whole, Init
<1>8. NulBehind
  <2>1. 0 \in 0..(OutCap - 1) /\ InCap + 0 + 1 \in 1..N /\ w_out = 0
    BY <1>2 DEF Init
  <2>2. mem[InCap + 0 + 1] = Nul
    BY <1>5, <2>1
  <2> QED BY <2>1, <2>2 DEF NulBehind, NulAfter
<1>9. Delivered
  <2>1. Waiting(mem) = << >>
    BY <1>2, SubSeqEmpty DEF Waiting, Cells, Init
  <2>2. got = << >> /\ s2c = << >> /\ answers = << >>
    BY DEF Init
  <2>3. << >> \o << >> = << >>
    BY <1>3, ConcatEmptySeq
  <2> QED BY <2>1, <2>2, <2>3 DEF Delivered
<1> QED BY <1>6, <1>7, <1>8, <1>9 DEF Inv, Texts

LEMMA StutterStep ==
  ASSUME Inv, UNCHANGED vars
  PROVE  Inv'
BY DEF Inv, Texts, TextOver, Bounds, NulBehind, Delivered, Waiting, vars, inbuf, outbuf, wire, client, history

(* The invariant, in every state. *)
THEOREM InvAlways == Spec => []Inv
<1>1. Init => Inv
  BY InitInv
<1>2. Inv /\ [Next]_vars => Inv'
  BY NextStep, StutterStep
<1> QED BY <1>1, <1>2, PTL DEF Spec

(* Answers appended behind others that wait, sent in parts and moved in      *)
(* out_data arrive as they were given, in their order.                       *)
THEOREM AnswersArriveInOrder == Spec => []AnswersInOrder
<1>1. Inv => AnswersInOrder
  <2> SUFFICES ASSUME Inv, csock = "open" PROVE got \o s2c \o Pending = answers
    BY DEF AnswersInOrder
  <2>1. r_out = 0 /\ InCap \in Nat
    BY CapAssumption DEF Inv, Bounds
  <2>2. Pending = Waiting(mem)
    BY <2>1 DEF Pending, Waiting
  <2> QED BY <2>2 DEF Inv, Delivered
<1> QED BY <1>1, InvAlways, PTL

-----------------------------------------------------------------------------
(* Where a line begins. *)
Begins(t, i) == i = 1 \/ t[i - 1] = Nl

(* Whole lines, none longer than in_buff; nb: and none that begins with a    *)
(* blank.                                                                    *)
Ends(t, i) == \E j \in 1..Len(t) : i <= j /\ j < i + InCap /\ t[j] = Nl
Rows(t, nb) ==
  /\ \A i \in 1..Len(t) : t[i] # Nul
  /\ Len(t) >= 1 => t[Len(t)] = Nl
  /\ \A i \in 1..Len(t) : Begins(t, i) => Ends(t, i) /\ (nb => t[i] # Blank)

(* One such line, or a part of it that has no newline but at its end. *)
IsRow(l, nb) ==
  /\ Len(l) \in 1..InCap /\ l[Len(l)] = Nl
  /\ \A i \in 1..(Len(l) - 1) : l[i] \notin {Nl, Nul}
  /\ nb => l[1] # Blank

LEMMA NoRows ==
  ASSUME NEW nb
  PROVE  Rows(<< >>, nb)
BY DEF Rows

(* The first line ends somewhere. *)
LEMMA FirstRow ==
  ASSUME NEW t, Len(t) \in Nat, Len(t) >= 1, NEW nb, Rows(t, nb)
  PROVE  /\ \E j \in 1..Len(t) : j <= InCap /\ t[j] = Nl
         /\ nb => t[1] # Blank
<1>1. 1 \in 1..Len(t) /\ Begins(t, 1) /\ InCap \in Nat
  BY CapAssumption DEF Begins
<1>2. Ends(t, 1) /\ (nb => t[1] # Blank)
  BY <1>1 DEF Rows
<1>3. PICK j \in 1..Len(t) : 1 <= j /\ j < 1 + InCap /\ t[j] = Nl
  BY <1>2 DEF Ends
<1>4. j <= InCap
  BY <1>1, <1>3
<1> QED BY <1>2, <1>3, <1>4

(* What follows a line is lines. *)
LEMMA RowsBehind ==
  ASSUME NEW t, Len(t) \in Nat, NEW nb, Rows(t, nb),
         NEW d \in 1..Len(t), t[d] = Nl, NEW b, IsPart(b, t, d, Len(t) - d)
  PROVE  Rows(b, nb)
<1> DEFINE n == Len(t) - d
<1>1. n \in Nat /\ Len(b) = n /\ d \in Nat /\ d >= 1 /\ d + n = Len(t) /\ InCap \in Nat
  BY CapAssumption DEF IsPart
<1>2. \A i \in 1..n : b[i] = t[d + i]
  BY DEF IsPart
<1> HIDE DEF n
<1>3. ASSUME NEW i \in 1..n PROVE b[i] # Nul
  <2>1. d + i \in 1..Len(t)
    BY <1>1
  <2> QED BY <1>2, <2>1 DEF Rows
<1>4. ASSUME n >= 1 PROVE b[n] = Nl
  <2>1. n \in 1..n /\ Len(t) >= 1
    BY <1>1, <1>4
  <2> QED BY <1>1, <1>2, <2>1 DEF Rows
<1>5. ASSUME NEW i \in 1..n, Begins(b, i) PROVE Ends(b, i) /\ (nb => b[i] # Blank)
  <2> DEFINE k == d + i
  <2>1. k \in 1..Len(t) /\ k # 1
    BY <1>1
  <2>2. t[k - 1] = Nl
    <3>1. CASE i = 1
      <4>1. k - 1 = d
        BY <1>1, <3>1
      <4> HIDE DEF k
      <4> QED BY <4>1
    <3>2. CASE i # 1
      <4>1. i - 1 \in 1..n /\ d + (i - 1) = k - 1
        BY <1>1, <3>2
      <4>2. b[i - 1] = Nl
        BY <1>5, <3>2 DEF Begins
      <4> HIDE DEF k
      <4>3. b[i - 1] = t[d + (i - 1)]
        BY <1>2, <4>1
      <4> QED BY <4>1, <4>2, <4>3
    <3> QED BY <3>1, <3>2
  <2>3. b[i] = t[k]
    BY <1>2
  <2> HIDE DEF k
  <2>4. Ends(t, k) /\ (nb => t[k] # Blank)
    BY <2>1, <2>2 DEF Rows, Begins
  <2>5. PICK j \in 1..Len(t) : k <= j /\ j < k + InCap /\ t[j] = Nl
    BY <2>4 DEF Ends
  <2> DEFINE h == j - d
  <2>6. h \in 1..n /\ i <= h /\ h < i + InCap /\ d + h = j
    BY <1>1, <2>5 DEF k
  <2> HIDE DEF h
  <2>7. b[h] = Nl
    BY <1>2, <2>5, <2>6
  <2>8. Ends(b, i)
    BY <1>1, <2>6, <2>7 DEF Ends
  <2> QED BY <2>3, <2>4, <2>8
<1> QED BY <1>1, <1>3, <1>4, <1>5 DEF Rows

(* Another line behind them. *)
LEMMA RowsMore ==
  ASSUME NEW S, NEW t \in Seq(S), NEW l \in Seq(S), NEW nb, Rows(t, nb), IsRow(l, nb)
  PROVE  Rows(t \o l, nb)
<1> DEFINE u == t \o l
           n == Len(t)
           k == Len(l)
           N == n + k
<1>1. /\ InCap \in Nat /\ n \in Nat /\ k \in Nat /\ k >= 1 /\ k <= InCap /\ N \in Nat /\ N = n + k
  BY CapAssumption, LenProperties DEF IsRow
<1>2. /\ Len(u) = N
      /\ \A i \in 1..N : u[i] = IF i <= n THEN t[i] ELSE l[i - n]
  BY ConcatProperties
<1> HIDE DEF u
<1>3. ASSUME NEW i \in 1..n PROVE i \in 1..N /\ u[i] = t[i]
  <2>1. i \in 1..N /\ i <= n
    BY <1>1
  <2> HIDE DEF n, N
  <2> QED BY <1>2, <2>1
<1>4. ASSUME NEW i \in 1..k PROVE n + i \in 1..N /\ u[n + i] = l[i]
  <2> DEFINE j == n + i
  <2>1. j \in 1..N /\ ~(j <= n) /\ j - n = i
    BY <1>1
  <2> HIDE DEF j, n, k, N
  <2>2. u[j] = l[j - n]
    BY <1>2, <2>1
  <2> QED BY <2>1, <2>2 DEF j
<1>5. /\ \A i \in 1..n : t[i] # Nul
      /\ n >= 1 => t[n] = Nl
      /\ \A i \in 1..n : Begins(t, i) => Ends(t, i) /\ (nb => t[i] # Blank)
      /\ l[k] = Nl /\ (nb => l[1] # Blank)
      /\ \A i \in 1..(k - 1) : l[i] \notin {Nl, Nul}
  BY DEF Rows, IsRow
<1>6. \A i \in 1..N : i \in 1..n \/ (i - n \in 1..k /\ n + (i - n) = i)
  BY <1>1
<1> HIDE DEF n, k, N
<1>7. ASSUME NEW i \in 1..N PROVE u[i] # Nul
  <2>1. CASE i \in 1..n
    BY <1>3, <1>5, <2>1
  <2>2. CASE i - n \in 1..k /\ n + (i - n) = i
    <3>1. u[i] = l[i - n]
      BY <1>4, <2>2
    <3>2. i - n \in 1..(k - 1) \/ i - n = k
      BY <1>1, <2>2
    <3> QED BY <1>5, <3>1, <3>2 DEF Nl, Nul
  <2> QED BY <1>6, <2>1, <2>2
<1>8. u[N] = Nl
  <2>1. k \in 1..k
    BY <1>1
  <2> QED BY <1>1, <1>4, <1>5, <2>1
<1>9. ASSUME NEW i \in 1..N, Begins(u, i) PROVE Ends(u, i) /\ (nb => u[i] # Blank)
  <2>1. CASE i \in 1..n
    <3>1. Begins(t, i)
      <4>1. CASE i # 1
        <5>1. i - 1 \in 1..n
          BY <1>1, <2>1, <4>1
        <5>2. u[i - 1] = t[i - 1]
          BY <1>3, <5>1
        <5> QED BY <1>9, <4>1, <5>2 DEF Begins
      <4> QED BY <4>1 DEF Begins
    <3>2. Ends(t, i) /\ (nb => t[i] # Blank)
      BY <1>5, <2>1, <3>1
    <3>3. PICK j \in 1..n : i <= j /\ j < i + InCap /\ t[j] = Nl
      BY <3>2 DEF Ends, n
    <3>4. j \in 1..N /\ u[j] = Nl
      BY <1>3, <3>3
    <3>5. Ends(u, i)
      BY <1>2, <3>3, <3>4 DEF Ends
    <3> QED BY <1>3, <2>1, <3>2, <3>5
  <2>2. CASE i - n \in 1..k /\ n + (i - n) = i
    <3>1. i - n = 1
      <4> SUFFICES ASSUME i - n # 1 PROVE FALSE
        OBVIOUS
      <4>1. i # 1 /\ i - n - 1 \in 1..(k - 1) /\ i - n - 1 \in 1..k /\ n + (i - n - 1) = i - 1
        BY <1>1, <2>2
      <4>2. u[i - 1] = l[i - n - 1]
        BY <1>4, <4>1
      <4>3. u[i - 1] = Nl
        BY <1>9, <4>1 DEF Begins
      <4> QED BY <1>5, <4>1, <4>2, <4>3
    <3>2. u[i] = l[1]
      BY <1>4, <2>2, <3>1
    <3>3. N \in 1..N /\ i <= N /\ N < i + InCap
      BY <1>1, <2>2, <3>1
    <3>4. Ends(u, i)
      BY <1>2, <1>8, <3>3 DEF Ends
    <3> QED BY <1>5, <3>2, <3>4
  <2> QED BY <1>6, <2>1, <2>2
<1> QED BY <1>1, <1>2, <1>7, <1>8, <1>9 DEF Rows, u

(* The same cells of the same text, whatever alphabets they are taken over. *)
LEMMA PartsEqual ==
  ASSUME NEW S, NEW R, NEW a \in Seq(S), NEW b \in Seq(R), NEW s, NEW from, NEW n,
         IsPart(a, s, from, n), IsPart(b, s, from, n)
  PROVE  a = b
<1> DEFINE T == S \cup R
<1>1. S \subseteq T /\ R \subseteq T
  OBVIOUS
<1> HIDE DEF T
<1>2. a \in Seq(T) /\ b \in Seq(T)
  BY <1>1, SeqMonotonic
<1> QED BY <1>2, PartsSame

-----------------------------------------------------------------------------
(* The commands that have been received and not taken. *)
Untaken(m, r, w) == Cells(m, r, w)

(* What recv() adds to them. *)
LEMMA RecvText ==
  ASSUME NEW S, TextOver(S), Bounds, NEW n, NEW m \in Seq(S), NEW e, Fed(n, m, e),
         NEW w, w = w_in + n, NEW x, x = Untaken(m, r_in, w), NEW y, y = Untaken(mem, r_in, w_in),
         NEW b, b = Drop(c2s, n)
  PROVE  /\ x \in Seq(S) /\ y \in Seq(S) /\ b \in Seq(S) /\ c2s \in Seq(S)
         /\ x \o b = y \o c2s
         /\ IsPart(x, m, r_in, w - r_in) /\ IsPart(y, x, 0, w_in - r_in) /\ Len(y) = w_in - r_in
         /\ Len(b) = Len(c2s) - n
<1> DEFINE a == Take(c2s, n)
<1>1. /\ InCap \in Nat /\ r_in \in Nat /\ w_in \in Nat /\ r_in <= w_in /\ n \in Nat /\ n >= 1 /\ n <= Len(c2s)
      /\ w \in Nat /\ w <= InCap /\ r_in <= w /\ w_in <= w /\ mem \in Seq(S) /\ c2s \in Seq(S)
  BY CapAssumption DEF Bounds, Fed, TextOver
<1>2. /\ Len(m) = InCap + OutCap /\ Len(mem) = InCap + OutCap /\ OutCap \in Nat /\ Len(c2s) \in Nat
      /\ w <= Len(m) /\ w_in <= Len(mem) /\ w_in <= w
  BY <1>1, CapAssumption, LenProperties DEF Bounds, Fed, Whole
<1>3. x \in Seq(S) /\ IsPart(x, m, r_in, w - r_in)
  BY <1>1, <1>2, CellsAre DEF Untaken
<1>4. y \in Seq(S) /\ IsPart(y, mem, r_in, w_in - r_in)
  BY <1>1, <1>2, CellsAre DEF Untaken
<1>5. a \in Seq(S) /\ IsPart(a, c2s, 0, n) /\ b \in Seq(S) /\ IsPart(b, c2s, n, Len(c2s) - n)
  BY <1>1, TakeIs, DropIs
<1>6. Len(a) = n /\ Len(b) = Len(c2s) - n /\ Len(y) = w_in - r_in
  BY <1>4, <1>5 DEF IsPart
<1>7. a \o b = c2s
  BY <1>1, TakeThenDrop
<1>8. IsWrite(m, mem, w_in, a)
  BY DEF Fed
<1> HIDE DEF a
<1>9. Agree(m, mem, r_in, w_in) /\ IsPart(a, m, w_in, n)
  <2>1. w_in + Len(a) <= Len(mem) /\ Len(mem) \in Nat /\ Len(a) \in Nat
    BY <1>1, <1>2, <1>6
  <2>2. w_in <= w_in
    BY <1>1
  <2> QED BY <1>1, <1>6, <1>8, <2>1, <2>2, WriteAgrees
<1>10. IsPart(y, m, r_in, w_in - r_in)
  <2>1. w_in - r_in \in Nat /\ w_in = r_in + (w_in - r_in) /\ Len(mem) \in Nat
    BY <1>1, <1>2
  <2> QED BY <1>1, <1>2, <1>4, <1>9, <2>1, PartAgrees
<1>11. x = y \o a
  <2>1. w_in - r_in \in Nat /\ w_in = r_in + (w_in - r_in) /\ w_in - r_in + n = w - r_in
    BY <1>1
  <2>2. y \o a \in Seq(S) /\ IsPart(y \o a, m, r_in, w_in - r_in + n)
    BY <1>1, <1>4, <1>5, <1>9, <1>10, <2>1, PartsJoin
  <2>3. IsPart(y \o a, m, r_in, w - r_in)
    BY <2>1, <2>2
  <2> QED BY <1>3, <2>2, <2>3, PartsSame
<1>12. x \o b = y \o c2s
  <2>1. (y \o a) \o b = y \o (a \o b)
    BY SMTT(40), <1>4, <1>5, ConcatAssociative
  <2> QED BY <1>7, <1>11, <2>1
<1>13. IsPart(y, x, 0, w_in - r_in)
  <2>1. /\ w_in - r_in \in Nat /\ w - r_in \in Nat /\ w_in - r_in <= w - r_in
        /\ \A i \in 1..(w_in - r_in) : i \in 1..(w - r_in) /\ 0 + i = i
    BY <1>1
  <2>2. \A i \in 1..(w_in - r_in) : y[i] = m[r_in + i]
    BY <1>10 DEF IsPart
  <2>3. \A i \in 1..(w - r_in) : x[i] = m[r_in + i]
    BY <1>3 DEF IsPart
  <2> QED BY <1>6, <2>1, <2>2, <2>3 DEF IsPart
<1> QED BY <1>1, <1>3, <1>4, <1>5, <1>6, <1>12, <1>13

(* What a command leaves of them. *)
LEMMA LineTaken ==
  ASSUME NEW S, TextOver(S), Bounds, Inv', NEW n, NEW m \in Seq(S), NEW e, Fed(n, m, e), Commanded(n, m, e),
         NEW w, w = w_in + n, NEW x \in Seq(S), IsPart(x, m, r_in, w - r_in), NEW d, d = e - r_in + 1
  PROVE  /\ d \in 1..Len(x) /\ x[d] = Nl
         /\ Untaken(mem', r_in', w_in') = Drop(x, d)
         /\ consumed' = consumed \o Take(x, d)
         /\ w_in' \in {0, w} /\ (r_in' = w_in' => w_in' = 0)
<1>1. /\ InCap \in Nat /\ OutCap \in Nat /\ r_in \in Nat /\ e \in Nat /\ w \in Nat /\ w <= InCap
      /\ r_in <= e /\ e < w /\ d \in Nat /\ d >= 1 /\ r_in + d = e + 1 /\ r_in + d <= w
      /\ Len(m) = InCap + OutCap
  BY CapAssumption DEF Bounds, Fed, Commanded, Whole
<1> DEFINE k == w - r_in
<1>2. k \in Nat /\ d <= k /\ Len(x) = k /\ w = r_in + k
  BY <1>1 DEF IsPart
<1>3. \A i \in 1..k : x[i] = m[r_in + i]
  BY DEF IsPart
<1>4. m[e + 1] = Nl /\ CommandRead(d, w) /\ LineEnded(m, e) /\ consumed' = consumed \o Cells(m, r_in, e) \o <<Nl>>
  BY DEF Commanded
<1> HIDE DEF k
<1>5. d \in 1..k /\ x[d] = Nl
  <2>1. d \in 1..k
    BY <1>1, <1>2
  <2> QED BY <1>1, <1>3, <1>4, <2>1
<1>6. consumed' = consumed \o Take(x, d)
  <2> DEFINE l == Cells(m, r_in, e)
             z == <<Nl>>
             y == Take(x, d)
             c == d - 1
  <2>1. /\ c \in Nat /\ e = r_in + c /\ e - r_in = c /\ e <= Len(m) /\ c + 1 = d
    BY <1>1
  <2>2. l \in Seq(S) /\ IsPart(l, m, r_in, c)
    BY <1>1, <2>1, CellsAre
  <2>3. z \in Seq(S) /\ Len(z) = 1 /\ z[1] = Nl
    BY DEF TextOver, Alphabet
  <2>4. y \in Seq(S) /\ IsPart(y, x, 0, d)
    BY <1>1, <1>2, TakeIs
  <2> HIDE DEF l, z, y, c
  <2>5. IsPart(z, m, e, 1)
    <3>1. \A i \in 1..1 : i = 1
      OBVIOUS
    <3> QED BY <1>4, <2>3, <3>1 DEF IsPart
  <2>6. l \o z \in Seq(S) /\ IsPart(l \o z, m, r_in, d)
    <3>1. l \o z \in Seq(S) /\ IsPart(l \o z, m, r_in, c + 1)
      BY <1>1, <2>1, <2>2, <2>3, <2>5, PartsJoin
    <3> QED BY <2>1, <3>1
  <2>7. IsPart(y, m, r_in, d)
    <3>1. \A i \in 1..d : i \in 1..k /\ 0 + i = i
      BY <1>1, <1>2
    <3>2. \A i \in 1..d : y[i] = x[0 + i]
      BY <2>4 DEF IsPart
    <3>3. Len(y) = d
      BY <2>4 DEF IsPart
    <3> QED BY <1>3, <3>1, <3>2, <3>3 DEF IsPart
  <2>8. y = l \o z
    <3> DEFINE v == l \o z
    <3>1. y \in Seq(S) /\ v \in Seq(S) /\ IsPart(y, m, r_in, d) /\ IsPart(v, m, r_in, d)
      BY <2>4, <2>6, <2>7
    <3> HIDE DEF v
    <3>2. y = v
      BY <3>1, PartsSame
    <3> QED BY <3>2 DEF v
  <2>9. consumed \in Seq(S)
    BY DEF TextOver
  <2>10. (consumed \o l) \o z = consumed \o (l \o z)
    BY SMTT(40), <2>2, <2>3, <2>9, ConcatAssociative
  <2> QED BY <1>4, <2>8, <2>10 DEF l, z, y
<1>7. PICK R : TextOver(R)'
  BY DEF Inv, Texts
<1>8. mem' \in Seq(R) /\ Len(mem') = InCap + OutCap /\ r_in' \in Nat /\ w_in' \in Nat /\ r_in' <= w_in'
  BY <1>1, <1>7 DEF TextOver, Inv, Bounds, Whole
<1>9. Drop(x, d) \in Seq(S) /\ IsPart(Drop(x, d), x, d, k - d)
  BY <1>1, <1>2, DropIs
<1>10. CASE r_in + d = w
  <2>1. r_in' = 0 /\ w_in' = 0 /\ k - d = 0 /\ 0 - 0 = 0
    BY <1>1, <1>2, <1>4, <1>10 DEF CommandRead
  <2>2. Untaken(mem', r_in', w_in') \in Seq(R) /\ IsPart(Untaken(mem', r_in', w_in'), mem', 0, 0)
    <3>1. Cells(mem', 0, 0) \in Seq(R) /\ IsPart(Cells(mem', 0, 0), mem', 0, 0 - 0)
      BY <1>1, <1>8, CellsAre
    <3> QED BY <2>1, <3>1 DEF Untaken
  <2>3. IsPart(Drop(x, d), x, d, 0)
    BY <1>9, <2>1
  <2>4. IsPart(Untaken(mem', r_in', w_in'), x, d, 0)
    BY <2>2 DEF IsPart
  <2>5. Untaken(mem', r_in', w_in') = Drop(x, d)
    BY <1>9, <2>2, <2>3, <2>4, PartsEqual
  <2> QED BY <1>2, <1>5, <1>6, <2>1, <2>5
<1>11. CASE r_in + d # w
  <2> DEFINE q == mem'
             f == e + 1
             h == k - d
             u == Cells(q, f, w)
  <2>1. r_in' = f /\ w_in' = w /\ f # w /\ f = r_in + d
    BY <1>1, <1>4, <1>11 DEF CommandRead
  <2>2. w <= Len(q)
    BY <1>1, <1>8
  <2>12. h \in Nat /\ f \in Nat /\ w - f = h /\ f + h = w /\ f <= w /\ d + h = k
    BY <1>1, <1>2
  <2>3. q \in Seq(R)
    BY <1>8
  <2>4. \A i \in 1..InCap : q[i] = IF i = f THEN Nul ELSE m[i]
    BY <1>4 DEF LineEnded
  <2> HIDE DEF q, f, h
  <2>5. u \in Seq(R) /\ IsPart(u, q, f, h)
    BY <1>1, <2>2, <2>3, <2>12, CellsAre
  <2>6. ASSUME NEW i \in 1..h PROVE u[i] = x[d + i]
    <3>1. /\ d + i \in 1..k /\ f + i \in 1..InCap /\ f + i # f /\ f + i = r_in + (d + i)
      BY SMTT(40), <1>1, <1>2, <2>1, <2>12
    <3>2. u[i] = q[f + i]
      BY <2>5 DEF IsPart
    <3>3. q[f + i] = m[f + i]
      BY <2>4, <3>1
    <3>4. x[d + i] = m[r_in + (d + i)]
      BY <1>3, <3>1
    <3> QED BY <3>1, <3>2, <3>3, <3>4
  <2>7. IsPart(u, x, d, h)
    BY <2>5, <2>6 DEF IsPart
  <2>8. u = Drop(x, d)
    BY <1>9, <2>5, <2>7, PartsEqual DEF h
  <2>9. Untaken(mem', r_in', w_in') = Drop(x, d)
    BY <2>1, <2>8 DEF Untaken, q
  <2> QED BY <1>2, <1>5, <1>6, <2>1, <2>9
<1> QED BY <1>10, <1>11

(* As long as lines arrive in one piece: what has been taken, what waits and *)
(* what is on its way are all that was sent, in whole lines; and in_buff     *)
(* holds whole lines until it is full.                                       *)
InOrder ==
  srv = "up" /\ "split" \notin rough /\ "long" \notin rough =>
    /\ unsent = << >>
    /\ Makes(consumed, Untaken(mem, r_in, w_in) \o c2s, sent)
    /\ Rows(Untaken(mem, r_in, w_in) \o c2s, "blank" \notin rough)
    /\ w_in < InCap => Rows(Untaken(mem, r_in, w_in), "blank" \notin rough)
    /\ r_in = w_in => w_in = 0

(* A first newline has been received, and it is where strchr() finds one. *)
LEMMA LineFound ==
  ASSUME NEW m, NEW w, NEW e, w \in Nat, r_in \in Nat, e \in Nat, r_in <= e, r_in <= w,
         m[e + 1] \in {Nl, Nul}, NoEnd(m, r_in, e),
         NEW x, IsPart(x, m, r_in, w - r_in),
         \A i \in 1..Len(x) : x[i] # Nul, \E j \in 1..Len(x) : x[j] = Nl
  PROVE  e < w /\ m[e + 1] = Nl /\ x[1] = m[r_in + 1] /\ 1 \in 1..Len(x)
<1> DEFINE k == w - r_in
<1>1. k \in Nat /\ Len(x) = k /\ w = r_in + k
  BY DEF IsPart
<1>2. \A i \in 1..k : x[i] = m[r_in + i]
  BY DEF IsPart
<1> HIDE DEF k
<1>3. PICK j \in 1..k : x[j] = Nl
  BY <1>1
<1>4. m[r_in + j] = Nl
  BY <1>2, <1>3
<1>5. e <= r_in + j - 1
  <2> SUFFICES ASSUME r_in + j - 1 < e PROVE FALSE
    BY <1>1
  <2> DEFINE i == r_in + j - 1
  <2>1. i \in r_in..(e - 1) /\ i + 1 = r_in + j
    BY <1>1
  <2> HIDE DEF i
  <2>2. m[i + 1] \notin {Nl, Nul}
    BY <2>1 DEF NoEnd
  <2> QED BY <1>4, <2>1, <2>2
<1>6. e < w
  BY <1>1, <1>5
<1> DEFINE d == e + 1 - r_in
<1>7. d \in 1..k /\ r_in + d = e + 1 /\ 1 \in 1..k
  BY <1>1, <1>6
<1> HIDE DEF d
<1>8. x[d] = m[e + 1] /\ x[1] = m[r_in + 1] /\ x[d] # Nul
  BY <1>1, <1>2, <1>7
<1> QED BY <1>1, <1>6, <1>7, <1>8

LEMMA ReadInOrder ==
  ASSUME Inv, Inv', InOrder, ReadOutcome, srv = "up", "split" \notin rough, "long" \notin rough
  PROVE  InOrder' /\ ("blank" \notin rough => srv' = "up")
<1>1. PICK S, n, m, e :
        /\ TextOver(S) /\ m \in Seq(S)
        /\ Fed(n, m, e) /\ c2s' = Drop(c2s, n)
        /\ UNCHANGED <<conn, r_out, s2c, unsent, client>>
        /\ \/ Commanded(n, m, e)
           \/ Discarded(n, m, e) /\ interest' = "WRITE"
           \/ Aborted(n, m, e) /\ UNCHANGED interest
  BY DEF ReadOutcome
<1>2. Bounds /\ rough' = rough /\ sent' = sent /\ unsent' = unsent
  BY <1>1 DEF Inv, client
<1> DEFINE w == w_in + n
           x == Untaken(m, r_in, w)
           y == Untaken(mem, r_in, w_in)
           b == Drop(c2s, n)
           t == x \o b
           nb == "blank" \notin rough
<1>3. /\ InCap \in Nat /\ r_in \in Nat /\ w_in \in Nat /\ r_in <= w_in /\ n \in Nat /\ n >= 1 /\ n <= Len(c2s)
      /\ w \in Nat /\ w <= InCap /\ r_in <= w /\ r_in < w /\ w_in < InCap /\ e \in Nat /\ r_in <= e
      /\ n = Len(c2s) \/ w = InCap
      /\ m[e + 1] \in {Nl, Nul} /\ NoEnd(m, r_in, e)
  BY <1>1, <1>2, CapAssumption DEF Bounds, Fed
<1>4. /\ x \in Seq(S) /\ y \in Seq(S) /\ b \in Seq(S) /\ c2s \in Seq(S)
      /\ t = y \o c2s
      /\ IsPart(x, m, r_in, w - r_in) /\ IsPart(y, x, 0, w_in - r_in) /\ Len(y) = w_in - r_in
      /\ Len(b) = Len(c2s) - n
  BY ZenonT(40), <1>1, <1>2, RecvText
<1>5. /\ unsent = << >> /\ Makes(consumed, t, sent) /\ Rows(t, nb)
      /\ Rows(y, nb) /\ (r_in = w_in => w_in = 0)
  BY <1>3, <1>4 DEF InOrder
<1>6. c2s' = b /\ consumed \in Seq(S)
  BY <1>1 DEF TextOver
<1>7. Len(x) = w - r_in /\ Len(x) \in Nat /\ Len(x) >= 1 /\ Len(c2s) \in Nat /\ Len(b) \in Nat
  BY SMTT(40), <1>3, <1>4, LenProperties DEF IsPart
<1> HIDE DEF w, x, y, b
<1>8. /\ t \in Seq(S) /\ Len(t) \in Nat /\ Len(t) = Len(x) + Len(b)
      /\ \A i \in 1..Len(t) : t[i] = IF i <= Len(x) THEN x[i] ELSE b[i - Len(x)]
  <2>1. /\ x \o b \in Seq(S) /\ Len(x \o b) = Len(x) + Len(b)
        /\ \A i \in 1..(Len(x) + Len(b)) : (x \o b)[i] = IF i <= Len(x) THEN x[i] ELSE b[i - Len(x)]
    BY <1>4, ConcatProperties
  <2> QED BY <1>7, <2>1
<1> HIDE DEF t
<1>9. \A i \in 1..Len(x) : i \in 1..Len(t) /\ t[i] = x[i]
  BY <1>7, <1>8
<1>10. \A i \in 1..Len(x) : x[i] # Nul
  BY <1>5, <1>9 DEF Rows
<1>11. Len(t) >= 1 /\ (nb => x[1] # Blank)
  <2>1. Len(t) >= 1 /\ 1 \in 1..Len(x)
    BY <1>7, <1>8
  <2>2. nb => t[1] # Blank
    BY <1>5, <1>8, <2>1, FirstRow
  <2> QED BY <1>9, <2>1, <2>2
<1>12. \E j \in 1..Len(x) : x[j] = Nl
  <2>1. PICK j \in 1..Len(t) : j <= InCap /\ t[j] = Nl
    BY <1>5, <1>8, <1>11, FirstRow
  <2>2. CASE j <= Len(x)
    <3>1. j \in 1..Len(x)
      BY <1>7, <2>2
    <3> QED BY <1>9, <2>1, <3>1
  <2>3. CASE Len(x) < j
    <3>1. n # Len(c2s)
      BY <1>4, <1>7, <1>8, <2>3
    <3>2. w = InCap /\ r_in # 0
      BY <1>3, <1>7, <2>1, <2>3, <3>1
    <3>3. r_in < w_in
      BY <1>3, <1>5, <3>2
    <3>4. Len(y) \in Nat /\ Len(y) >= 1
      BY <1>3, <1>4, <3>3
    <3>5. PICK i \in 1..Len(y) : y[i] = Nl
      BY <1>5, <3>4, FirstRow
    <3>6. i \in 1..(w_in - r_in) /\ 0 + i = i
      BY <1>3, <1>4
    <3>7. y[i] = x[0 + i]
      BY <1>4, <3>6 DEF IsPart
    <3>8. i \in 1..Len(x)
      BY <1>3, <1>7, <3>6 DEF w
    <3> QED BY <3>5, <3>6, <3>7, <3>8
  <2> QED BY <1>7, <2>2, <2>3
<1>13. e < w /\ m[e + 1] = Nl /\ x[1] = m[r_in + 1]
  BY <1>3, <1>4, <1>10, <1>12, LineFound
<1>14. CASE Commanded(n, m, e)
  <2> DEFINE d == e - r_in + 1
             u == Drop(x, d)
             v == Take(x, d)
             y2 == Untaken(mem', r_in', w_in')
  <2>1. /\ d \in 1..Len(x) /\ x[d] = Nl /\ y2 = u
        /\ consumed' = consumed \o v
        /\ w_in' \in {0, w} /\ (r_in' = w_in' => w_in' = 0)
    BY <1>1, <1>2, <1>4, <1>14, LineTaken DEF w
  <2>2. d \in Nat /\ d <= Len(x)
    BY <2>1
  <2> HIDE DEF d
  <2>3. v \in Seq(S) /\ u \in Seq(S) /\ IsPart(u, x, d, Len(x) - d) /\ v \o u = x
    BY <1>4, <2>2, TakeIs, DropIs, TakeThenDrop
  <2> HIDE DEF v, u, y2
  <2>4. u \o b \in Seq(S) /\ IsPart(u \o b, t, d, Len(t) - d)
    <3>1. d \in Nat /\ Len(x) - d \in Nat /\ Len(x) = d + (Len(x) - d) /\ Len(x) - d + Len(b) = Len(t) - d
      BY <1>7, <1>8, <2>2
    <3>2. IsPart(u, t, d, Len(x) - d)
      <4>1. \A i \in 1..(Len(x) - d) : d + i \in 1..Len(x)
        BY <1>7, <2>2
      <4> QED BY <1>9, <2>3, <4>1 DEF IsPart
    <3>3. IsPart(b, t, Len(x), Len(b))
      <4>1. \A i \in 1..Len(b) : Len(x) + i \in 1..Len(t) /\ ~(Len(x) + i <= Len(x)) /\ Len(x) + i - Len(x) = i
        BY <1>7, <1>8
      <4>2. \A i \in 1..Len(b) : t[Len(x) + i] = b[Len(x) + i - Len(x)]
        BY <1>8, <4>1
      <4> QED BY <4>1, <4>2 DEF IsPart
    <3>4. u \o b \in Seq(S) /\ IsPart(u \o b, t, d, Len(x) - d + Len(b))
      BY <1>4, <1>7, <2>3, <3>1, <3>2, <3>3, PartsJoin
    <3> QED BY <3>1, <3>4
  <2>5. Rows(u \o b, nb)
    <3>1. d \in 1..Len(t) /\ t[d] = Nl
      BY <1>9, <2>1
    <3> HIDE DEF nb
    <3> QED BY <1>5, <1>8, <2>4, <3>1, RowsBehind
  <2>6. Makes(consumed', u \o b, sent)
    <3>1. v \o (u \o b) = t
      <4>1. (v \o u) \o b = v \o (u \o b)
        <5>1. v \in Seq(S) /\ u \in Seq(S) /\ b \in Seq(S)
          BY <1>4, <2>3
        <5> QED BY SMTT(40), <5>1, ConcatAssociative
      <4> QED BY <2>3, <4>1 DEF t
    <3> DEFINE z == u \o b
    <3>2. z \in Seq(S)
      BY <2>4
    <3> HIDE DEF z
    <3>3. (consumed \o v) \o z = consumed \o (v \o z)
      BY SMTT(40), <1>6, <2>3, <3>2, ConcatAssociative
    <3>4. consumed \o t = sent
      BY <1>5 DEF Makes
    <3> QED BY <2>1, <3>1, <3>3, <3>4 DEF Makes, z
  <2>7. w_in' < InCap => Rows(u, nb)
    <3>1. CASE w_in' = w /\ w < InCap
      <4>1. Len(b) = 0 /\ Len(t) = Len(x)
        <5>1. n = Len(c2s)
          BY <1>3, <3>1
        <5>2. Len(b) = 0
          BY <1>4, <1>7, <5>1
        <5> QED BY <1>7, <1>8, <5>2
      <4>2. IsPart(u, t, d, Len(t) - d) /\ d \in 1..Len(t) /\ t[d] = Nl
        <5>1. \A i \in 1..(Len(x) - d) : d + i \in 1..Len(x)
          BY <1>7, <2>2
        <5>2. IsPart(u, t, d, Len(x) - d)
          BY <1>9, <2>3, <5>1 DEF IsPart
        <5> QED BY <1>9, <2>1, <4>1, <5>2
      <4> HIDE DEF nb
      <4> QED BY <1>5, <1>8, <4>2, RowsBehind
    <3>2. CASE w_in' = 0
      <4>1. u = << >>
        <5>1. y2 = << >>
          <6>1. r_in' = 0
            BY <3>2 DEF Inv, Bounds
          <6>2. Cells(mem', 0, 0) = << >>
            BY SubSeqEmpty DEF Cells
          <6> QED BY <3>2, <6>1, <6>2 DEF y2, Untaken
        <5> QED BY <2>1, <5>1
      <4> QED BY <4>1, NoRows
    <3> QED BY <2>1, <3>1, <3>2
  <2>8. srv' = "up"
    BY <1>14 DEF Commanded
  <2>9. y2 \o c2s' = u \o b
    BY <1>6, <2>1
  <2> QED BY <1>2, <1>5, <2>1, <2>5, <2>6, <2>7, <2>8, <2>9 DEF InOrder, y2
<1>15. CASE Aborted(n, m, e)
  <2>1. srv' = "aborted"
    BY <1>15 DEF Aborted
  <2>2. ~(e >= w)
    BY <1>3, <1>13
  <2>3. e > r_in /\ \A i \in r_in..(e - 1) : m[i + 1] = Blank
    BY <1>15, <2>2 DEF Aborted, w
  <2>4. r_in \in r_in..(e - 1)
    BY <1>3, <2>3
  <2>5. x[1] = Blank
    BY <1>13, <2>3, <2>4
  <2> QED BY <1>11, <2>1, <2>5 DEF InOrder
<1>16. ~Discarded(n, m, e)
  BY <1>13 DEF Discarded, Nl, Nul
<1> QED BY <1>1, <1>14, <1>15, <1>16

(* Whole lines, without the care for blanks. *)
LEMMA RowsAllow ==
  ASSUME NEW t, NEW nb, NEW nb2, Rows(t, nb), nb2 => nb
  PROVE  Rows(t, nb2)
BY DEF Rows

(* in_data is as it was, up to the write pointer. *)
LEMMA UntakenSame ==
  ASSUME Inv, Inv', Agree(mem', mem, 0, InCap), r_in' = r_in, w_in' = w_in
  PROVE  Untaken(mem', r_in', w_in') = Untaken(mem, r_in, w_in)
<1>1. PICK S, R : TextOver(S) /\ TextOver(R)'
  BY DEF Inv, Texts
<1> DEFINE q == mem'
           n == w_in - r_in
<1>2. /\ mem \in Seq(S) /\ q \in Seq(R) /\ InCap \in Nat /\ OutCap \in Nat
      /\ r_in \in Nat /\ w_in \in Nat /\ r_in <= w_in /\ w_in <= InCap
      /\ Len(mem) = InCap + OutCap /\ Len(q) = InCap + OutCap
  BY <1>1, CapAssumption DEF TextOver, Inv, Bounds, Whole
<1>3. /\ n \in Nat /\ w_in = r_in + n /\ w_in <= Len(mem) /\ w_in <= Len(q) /\ Len(mem) \in Nat
      /\ \A i \in 1..Len(mem) : r_in < i /\ i <= w_in => 0 < i /\ i <= InCap
  BY <1>2
<1> HIDE DEF q, n
<1>4. Agree(q, mem, r_in, w_in)
  BY <1>3 DEF Agree, q
<1>5. Cells(mem, r_in, w_in) \in Seq(S) /\ IsPart(Cells(mem, r_in, w_in), mem, r_in, n)
  BY <1>2, <1>3, CellsAre DEF n
<1>6. Cells(q, r_in, w_in) \in Seq(R) /\ IsPart(Cells(q, r_in, w_in), q, r_in, n)
  BY <1>2, <1>3, CellsAre DEF n
<1>7. IsPart(Cells(mem, r_in, w_in), q, r_in, n)
  BY <1>2, <1>3, <1>4, <1>5, PartAgrees
<1>8. Cells(q, r_in, w_in) = Cells(mem, r_in, w_in)
  BY <1>5, <1>6, <1>7, PartsEqual
<1> QED BY <1>8 DEF Untaken, q

(* A step that moves no line. *)
LEMMA KeepsOrder ==
  ASSUME InOrder, srv' = "up" => srv = "up", UNCHANGED <<unsent, consumed, c2s, sent, r_in, w_in>>,
         Untaken(mem', r_in', w_in') = Untaken(mem, r_in, w_in),
         \A f \in {"split", "long", "blank"} : f \in rough => f \in rough'
  PROVE  InOrder'
<1> SUFFICES ASSUME srv' = "up", "split" \notin rough', "long" \notin rough' PROVE InOrder'
  BY DEF InOrder
<1>1. srv = "up" /\ "split" \notin rough /\ "long" \notin rough /\ ("blank" \notin rough' => "blank" \notin rough)
  OBVIOUS
<1> DEFINE y == Untaken(mem, r_in, w_in)
<1>2. /\ unsent = << >> /\ Makes(consumed, y \o c2s, sent)
      /\ Rows(y \o c2s, "blank" \notin rough)
      /\ w_in < InCap => Rows(y, "blank" \notin rough)
      /\ r_in = w_in => w_in = 0
  BY <1>1 DEF InOrder
<1> HIDE DEF y
<1>3. Rows(y \o c2s, "blank" \notin rough') /\ (w_in < InCap => Rows(y, "blank" \notin rough'))
  BY <1>1, <1>2, RowsAllow
<1>4. /\ unsent' = unsent /\ consumed' = consumed /\ c2s' = c2s /\ sent' = sent /\ r_in' = r_in /\ w_in' = w_in
      /\ Untaken(mem', r_in', w_in') = y
  BY DEF y
<1> QED BY <1>2, <1>3, <1>4 DEF InOrder

(* A line is sent. *)
LEMMA SendsInOrder ==
  ASSUME Inv, InOrder, ClientSends
  PROVE  InOrder'
<1> SUFFICES ASSUME srv' = "up", "split" \notin rough', "long" \notin rough' PROVE InOrder'
  BY DEF InOrder
<1>1. PICK S : TextOver(S)
  BY DEF Inv, Texts
<1> DEFINE Sends(l, k) == /\ c2s' = c2s \o Take(l, k) /\ unsent' = Drop(l, k)
                          /\ sent' = sent \o l
                          /\ rough' = Notes(l, k)
<1>2. PICK l \in Lines : \E k \in 1..Len(l) : Sends(l, k)
  BY DEF ClientSends
<1>3. PICK k \in 1..Len(l) : Sends(l, k)
  BY <1>2
<1>4. l \in Seq(S) /\ Len(l) \in Nat /\ l[Len(l)] = Nl /\ \A i \in 1..(Len(l) - 1) : l[i] \notin {Nl, Nul}
  <2>1. Alphabet(S)
    BY <1>1 DEF TextOver
  <2> QED BY <2>1, LinesAssumption, StringText, LenProperties
<1>5. /\ "split" \notin rough /\ "long" \notin rough /\ ("blank" \notin rough' => "blank" \notin rough)
      /\ ~(k < Len(l)) /\ ~(Len(l) > InCap) /\ ("blank" \notin rough' => l[1] # Blank)
  BY <1>3 DEF Notes
<1>6. k = Len(l) /\ Len(l) \in 1..InCap /\ InCap \in Nat /\ k \in Nat
  BY <1>4, <1>5, CapAssumption
<1>7. IsRow(l, "blank" \notin rough')
  BY <1>4, <1>5, <1>6 DEF IsRow
<1>8. Take(l, k) = l /\ Drop(l, k) = << >>
  <2>1. Take(l, k) \in Seq(S) /\ IsPart(Take(l, k), l, 0, k)
    BY <1>4, <1>6, TakeIs
  <2>2. Drop(l, k) \in Seq(S) /\ Len(Drop(l, k)) = Len(l) - k
    BY <1>4, <1>6, DropIs DEF IsPart
  <2>3. Take(l, k) = l
    BY <1>4, <1>6, <2>1, WholeIs, PartsSame
  <2>4. Len(Drop(l, k)) = 0
    BY <1>4, <1>6, <2>2
  <2> QED BY <2>2, <2>3, <2>4, EmptySeq
<1>9. UNCHANGED <<srv, mem, r_in, w_in, consumed>>
  BY DEF ClientSends, server, inbuf, history
<1> DEFINE y == Untaken(mem, r_in, w_in)
           t == y \o c2s
<1>10. y \in Seq(S) /\ c2s \in Seq(S) /\ consumed \in Seq(S) /\ l \in Seq(S)
  <2>1. /\ mem \in Seq(S) /\ r_in \in Nat /\ w_in \in Nat /\ r_in <= w_in /\ w_in <= Len(mem)
    BY <1>1, CapAssumption DEF TextOver, Inv, Bounds, Whole
  <2> QED BY <1>1, <1>4, <2>1, CellsAre DEF TextOver, Untaken
<1>11. /\ Makes(consumed, t, sent) /\ Rows(t, "blank" \notin rough)
       /\ w_in < InCap => Rows(y, "blank" \notin rough)
       /\ r_in = w_in => w_in = 0
  BY <1>5, <1>9 DEF InOrder
<1> HIDE DEF y
<1>12. t \in Seq(S)
  BY <1>10, ConcatProperties
<1>13. y \o (c2s \o l) = t \o l
  BY SMTT(40), <1>10, ConcatAssociative
<1> HIDE DEF t
<1>14. Rows(t, "blank" \notin rough') /\ (w_in < InCap => Rows(y, "blank" \notin rough'))
  BY <1>5, <1>11, RowsAllow
<1>15. Rows(t \o l, "blank" \notin rough')
  BY <1>7, <1>10, <1>12, <1>14, RowsMore
<1>16. Makes(consumed, t \o l, sent \o l)
  BY <1>10, <1>11, <1>12, MakesMore
<1>17. /\ c2s' = c2s \o l /\ unsent' = << >> /\ sent' = sent \o l /\ consumed' = consumed
       /\ r_in' = r_in /\ w_in' = w_in /\ Untaken(mem', r_in', w_in') = y
  BY <1>3, <1>8, <1>9 DEF y
<1>18. Untaken(mem', r_in', w_in') \o c2s' = t \o l
  BY <1>13, <1>17
<1> QED BY <1>11, <1>14, <1>15, <1>16, <1>17, <1>18 DEF InOrder

LEMMA NextInOrder ==
  ASSUME Inv, InOrder, Next
  PROVE  InOrder'
<1>1. Inv'
  BY NextStep
<1>2. ASSUME UNCHANGED <<unsent, consumed, c2s, sent, r_in, w_in>>, UNCHANGED mem, srv' = "up" => srv = "up",
             rough \subseteq rough'
      PROVE  InOrder'
  <2>1. Untaken(mem', r_in', w_in') = Untaken(mem, r_in, w_in)
    BY <1>2
  <2>2. \A f \in {"split", "long", "blank"} : f \in rough => f \in rough'
    BY <1>2
  <2> QED BY <1>2, <2>1, <2>2, KeepsOrder
<1>3. CASE admin_read
  <2>1. interest = "READ" /\ srv = "up"
    BY <1>3 DEF admin_read, Running
  <2>2. CASE Received
    <3>1. ReadOutcome /\ rough' = rough
      BY <2>1, <2>2, ReadStep DEF Received, client
    <3>2. CASE "split" \notin rough /\ "long" \notin rough
      BY <1>1, <2>1, <3>1, <3>2, ReadInOrder
    <3>3. CASE ~("split" \notin rough /\ "long" \notin rough)
      BY <3>1, <3>3 DEF InOrder
    <3> QED BY <3>2, <3>3
  <2>3. CASE admin_close
    BY <1>2, <2>3 DEF admin_close, inbuf, wire, client, history
  <2> QED BY <1>3, <2>2, <2>3 DEF admin_read
<1>4. CASE admin_write
  <2>1. UNCHANGED <<conn, inbuf, config, c2s, unsent, prog, asked, got, sent, history, table>>
    BY <1>4 DEF admin_write
  <2>2. UNCHANGED <<unsent, consumed, c2s, sent, r_in, w_in>> /\ srv = "up"
    BY <1>4, <2>1 DEF inbuf, history, admin_write, Running
  <2>3. CASE Sent(Least(Len(Pending), SockCap - Len(s2c)))
    <3>1. Agree(mem', mem, 0, InCap)
      BY <2>1, <2>3, SendStep
    <3>2. Untaken(mem', r_in', w_in') = Untaken(mem, r_in, w_in)
      BY <1>1, <2>2, <3>1, UntakenSame
    <3>3. \A f \in {"split", "long", "blank"} : f \in rough => f \in rough'
      BY <2>3 DEF Sent
    <3> QED BY <2>2, <3>2, <3>3, KeepsOrder
  <2>4. CASE SentInVain
    BY <1>2, <2>2, <2>4 DEF SentInVain
  <2>5. CASE SendError
    BY <1>2, <2>2, <2>5 DEF SendError
  <2> QED BY <1>4, <2>3, <2>4, <2>5 DEF admin_write
<1>5. CASE ClientSends
  BY <1>5, SendsInOrder
<1>6. CASE RestArrives
  <2>1. unsent # << >> /\ srv' = srv /\ rough' = rough
    BY <1>6 DEF RestArrives, server, client
  <2> QED BY <2>1 DEF InOrder
<1>7. CASE ClientReads
  BY <1>2, <1>7 DEF ClientReads, server, inbuf, history
<1>8. CASE ProgramReads
  <2>1. UNCHANGED <<server, c2s, unsent, asked, sent>>
    BY <1>8 DEF ProgramReads
  <2>2. rough \subseteq rough'
    BY <1>8 DEF ProgramReads
  <2> QED BY <1>2, <2>1, <2>2 DEF server, inbuf, history
<1>9. CASE ProgramEnds
  BY <1>2, <1>9 DEF ProgramEnds, server, wire, inbuf, history
<1>10. CASE ClientLeaves
  <2>1. UNCHANGED <<server, wire, sent>> /\ rough \subseteq rough'
    BY <1>10 DEF ClientLeaves
  <2> QED BY <1>2, <2>1 DEF server, wire, inbuf, history
<1>11. CASE ServerStops
  BY <1>11 DEF ServerStops, InOrder
<1>12. CASE Others
  BY <1>2, <1>12 DEF Others, inbuf, wire, client, history
<1> QED BY <1>3, <1>4, <1>5, <1>6, <1>7, <1>8, <1>9, <1>10, <1>11, <1>12 DEF Next

LEMMA InitInOrder ==
  ASSUME Init
  PROVE  InOrder
<1>1. Untaken(mem, r_in, w_in) = << >>
  BY SubSeqEmpty DEF Untaken, Cells, Init
<1>2. << >> \o << >> = << >>
  BY EmptySeq, ConcatEmptySeq
<1>3. unsent = << >> /\ c2s = << >> /\ consumed = << >> /\ sent = << >> /\ r_in = 0 /\ w_in = 0
  BY DEF Init
<1>4. Untaken(mem, r_in, w_in) \o c2s = << >>
  BY <1>1, <1>2, <1>3
<1>5. Makes(consumed, << >>, sent)
  BY <1>2, <1>3 DEF Makes
<1> QED BY <1>1, <1>3, <1>4, <1>5, NoRows DEF InOrder

LEMMA StutterInOrder ==
  ASSUME InOrder, UNCHANGED vars
  PROVE  InOrder'
<1>1. Untaken(mem', r_in', w_in') = Untaken(mem, r_in, w_in)
  BY DEF vars, inbuf
<1>2. UNCHANGED <<unsent, consumed, c2s, sent, r_in, w_in, srv, rough>>
  BY DEF vars, inbuf, wire, client, history
<1> QED BY <1>1, <1>2, KeepsOrder

(* The second invariant, in every state. *)
THEOREM OrderAlways == Spec => []InOrder
<1>1. Init => InOrder
  BY InitInOrder
<1>2. Inv /\ InOrder /\ [Next]_vars => InOrder'
  BY NextInOrder, StutterInOrder
<1> QED BY <1>1, <1>2, InvAlways, PTL DEF Spec

(* Lines that arrive whole, however many at a time and wherever recv() cuts  *)
(* them, are executed once and in order: in_buff, which is never compacted,  *)
(* loses none of them.                                                       *)
THEOREM CommandsAreInOrder == Spec => []CommandsInOrder
<1>1. Inv /\ InOrder => CommandsInOrder
  <2> SUFFICES ASSUME Inv, InOrder, Running, rough \cap {"split", "long"} = {}
               PROVE  consumed \o Cells(mem, r_in, w_in) \o c2s \o unsent = sent
    BY DEF CommandsInOrder
  <2>1. PICK S : TextOver(S)
    BY DEF Inv, Texts
  <2> DEFINE y == Untaken(mem, r_in, w_in)
  <2>2. unsent = << >> /\ Makes(consumed, y \o c2s, sent)
    BY DEF InOrder, Running
  <2>3. y \in Seq(S) /\ c2s \in Seq(S) /\ consumed \in Seq(S)
    <3>1. /\ mem \in Seq(S) /\ r_in \in Nat /\ w_in \in Nat /\ r_in <= w_in /\ w_in <= Len(mem)
      BY <2>1, CapAssumption DEF TextOver, Inv, Bounds, Whole
    <3> QED BY <2>1, <3>1, CellsAre DEF TextOver, Untaken
  <2>4. y = Cells(mem, r_in, w_in)
    BY DEF Untaken
  <2> HIDE DEF y
  <2> DEFINE z == (consumed \o y) \o c2s
  <2>5. z = consumed \o (y \o c2s)
    BY SMTT(40), <2>3, ConcatAssociative
  <2>6. z \in Seq(S)
    BY <2>3, ConcatProperties
  <2>7. z = sent
    BY <2>2, <2>5 DEF Makes
  <2> HIDE DEF z
  <2>8. z \o << >> = z
    BY <2>6, ConcatEmptySeq
  <2> QED BY <2>2, <2>4, <2>7, <2>8 DEF z
<1> QED BY <1>1, InvAlways, OrderAlways, PTL

-----------------------------------------------------------------------------
(* auth_list_users: the lines of one chain, and of the first n chains. *)
ChainLines(k) ==
  [i \in 1..(2 * Len(hashmap[k - 1])) |->
     IF i % 2 = 1 THEN hashmap[k - 1][(i + 1) \div 2].name ELSE Nl]
Listed(f, n) == f = [k \in 0..n |-> IF k = 0 THEN << >> ELSE f[k - 1] \o ChainLines(k)]

(* Some function lists the first n chains. *)
LEMMA ListExists ==
  ASSUME NEW N \in Nat
  PROVE  \E f : Listed(f, N)
<1> DEFINE Bad == {n \in Nat : ~ \E f : Listed(f, n)}
<1> SUFFICES ASSUME Bad # {} PROVE FALSE
  BY DEF Bad
<1>1. Bad \subseteq Nat
  OBVIOUS
<1> HIDE DEF Bad
<1>2. PICK i \in Bad : \A j \in Bad : ~(<<j, i>> \in OpToRel(<, Nat))
  BY <1>1, NatLessThanWellFounded, WFMin
<1>3. i \in Nat /\ ~ \E f : Listed(f, i)
  BY DEF Bad
<1>4. i # 0
  <2> SUFFICES ASSUME i = 0 PROVE FALSE
    OBVIOUS
  <2> DEFINE f == [k \in 0..0 |-> << >>]
  <2>1. f = [k \in 0..0 |-> IF k = 0 THEN << >> ELSE f[k - 1] \o ChainLines(k)]
    OBVIOUS
  <2>2. Listed(f, 0)
    BY <2>1 DEF Listed
  <2> QED BY <1>3, <2>2
<1> DEFINE h == i - 1
<1>5. h \in Nat /\ h < i /\ h + 1 = i
  BY <1>3, <1>4
<1>6. h \notin Bad
  BY <1>2, <1>3, <1>5 DEF OpToRel
<1>7. PICK f : Listed(f, h)
  BY <1>5, <1>6 DEF Bad
<1>8. \A k \in 0..h : f[k] = IF k = 0 THEN << >> ELSE f[k - 1] \o ChainLines(k)
  BY <1>7 DEF Listed
<1> DEFINE g == [k \in 0..i |-> IF k = i THEN f[h] \o ChainLines(i) ELSE f[k]]
<1>9. ASSUME NEW k \in 0..i PROVE g[k] = IF k = 0 THEN << >> ELSE g[k - 1] \o ChainLines(k)
  <2>1. CASE k = i
    <3>1. h \in 0..i /\ h # i /\ k - 1 = h /\ k # 0
      BY <1>3, <1>4, <1>5, <2>1
    <3>2. g[h] = f[h]
      BY <3>1
    <3>3. g[k] = f[h] \o ChainLines(i)
      BY <2>1
    <3> HIDE DEF g, h
    <3> QED BY <2>1, <3>1, <3>2, <3>3
  <2>2. CASE k # i
    <3>1. k \in 0..h /\ (k # 0 => k - 1 \in 0..i /\ k - 1 # i)
      BY <1>3, <1>5, <2>2
    <3>2. g[k] = f[k] /\ (k # 0 => g[k - 1] = f[k - 1])
      BY <2>2, <3>1
    <3> HIDE DEF g
    <3> QED BY <1>8, <3>1, <3>2
  <2> QED BY <2>1, <2>2
<1>10. g = [k \in 0..i |-> g[k]]
  OBVIOUS
<1> HIDE DEF g
<1>11. Listed(g, i)
  BY <1>9, <1>10 DEF Listed
<1> QED BY <1>3, <1>11

(* It is a text, that ends with END. *)
LEMMA ListIsText ==
  ASSUME NEW T, hashmap \in [Buckets -> Seq(T)]
  PROVE  Len(auth_list_users) \in Nat /\ Len(auth_list_users) >= 1
<1> DEFINE N == Cardinality(Buckets)
<1>1. N \in Nat /\ Buckets = 0..(N - 1)
  BY BucketsAssumption, FS_CardinalityType
<1> DEFINE lines == CHOOSE f : Listed(f, N)
           U == UNION {{ChainLines(k)[i] : i \in 1..(2 * Len(hashmap[k - 1]))} : k \in 1..N}
           z == <<"END", Nl>>
           V == U \cup {"END", Nl}
<1>3. Listed(lines, N)
  BY <1>1, ListExists
<1>4. auth_list_users = lines[N] \o z
  BY DEF auth_list_users, Listed, ChainLines
<1>5. ASSUME NEW k \in 1..N PROVE ChainLines(k) \in Seq(U)
  <2> DEFINE n == 2 * Len(hashmap[k - 1])
  <2>1. k - 1 \in Buckets
    BY <1>1
  <2>2. Len(hashmap[k - 1]) \in Nat
    BY <2>1, LenProperties
  <2>3. n \in Nat /\ ChainLines(k) = [i \in 1..n |-> ChainLines(k)[i]]
    BY <2>2 DEF ChainLines
  <2>4. \A i \in 1..n : ChainLines(k)[i] \in U
    OBVIOUS
  <2> HIDE DEF U, n
  <2> QED BY <2>3, <2>4
<1> HIDE DEF lines, U, N
<1>6. \A k \in 0..N : lines[k] = IF k = 0 THEN << >> ELSE lines[k - 1] \o ChainLines(k)
  BY <1>3 DEF Listed
<1> DEFINE Bad == {k \in 0..N : lines[k] \notin Seq(U)}
<1>7. Bad = {}
  <2> SUFFICES ASSUME Bad # {} PROVE FALSE
    OBVIOUS
  <2>1. Bad \subseteq Nat
    OBVIOUS
  <2> HIDE DEF Bad
  <2>2. PICK i \in Bad : \A j \in Bad : ~(<<j, i>> \in OpToRel(<, Nat))
    BY <2>1, NatLessThanWellFounded, WFMin
  <2>3. i \in 0..N /\ lines[i] \notin Seq(U)
    BY DEF Bad
  <2>4. i # 0
    BY <1>6, <2>3, EmptySeq
  <2>5. i - 1 \in 0..N /\ i - 1 < i /\ i \in 1..N /\ i \in Nat /\ i - 1 \in Nat
    BY <1>1, <2>3, <2>4
  <2>6. i - 1 \notin Bad
    BY <2>2, <2>5 DEF OpToRel
  <2>7. lines[i - 1] \in Seq(U)
    BY <2>5, <2>6 DEF Bad
  <2>8. lines[i - 1] \o ChainLines(i) \in Seq(U)
    BY <1>5, <2>5, <2>7, ConcatProperties
  <2> QED BY <1>6, <2>3, <2>4, <2>8
<1>8. lines[N] \in Seq(U)
  <2>1. N \in 0..N
    BY <1>1
  <2> QED BY <1>7, <2>1
<1>9. lines[N] \in Seq(V) /\ z \in Seq(V) /\ Len(z) = 2
  <2>1. z \in Seq({"END", Nl}) /\ Len(z) = 2
    OBVIOUS
  <2>2. U \subseteq V /\ {"END", Nl} \subseteq V
    OBVIOUS
  <2> HIDE DEF V, z
  <2> QED BY <1>8, <2>1, <2>2, SeqMonotonic
<1> HIDE DEF V, z
<1>10. Len(lines[N] \o z) = Len(lines[N]) + Len(z) /\ Len(lines[N]) \in Nat
  BY <1>9, ConcatProperties, LenProperties
<1> QED BY <1>4, <1>9, <1>10

-----------------------------------------------------------------------------
(* The table is an array of chains, whatever names the commands give. *)
Chains == \E T : hashmap \in [Buckets -> Seq(T)]

LEMMA TableStep ==
  ASSUME Chains,
         \/ UNCHANGED table
         \/ \E n, p : auth_add_user(n, p)
         \/ \E n : auth_remove_user(n)
         \/ AuthNext
  PROVE  Chains'
<1>1. PICK T : hashmap \in [Buckets -> Seq(T)]
  BY DEF Chains
<1>2. ASSUME UNCHANGED hashmap PROVE Chains'
  BY <1>1, <1>2 DEF Chains
<1>3. ASSUME NEW n, NEW p, auth_add_user(n, p) PROVE Chains'
  <2> DEFINE e == [name |-> n, pass |-> p]
             R == T \cup {e}
             c == <<e>> \o hashmap[hash(n)]
  <2>1. CASE hashmap' = [hashmap EXCEPT ![hash(n)] = c]
    <3>1. e \in R /\ T \subseteq R
      OBVIOUS
    <3> HIDE DEF e, R
    <3>2. \A b \in Buckets : hashmap[b] \in Seq(R)
      BY <1>1, <3>1, SeqMonotonic
    <3>3. <<e>> \in Seq(R)
      BY <3>1
    <3>4. hash(n) \in Buckets => c \in Seq(R)
      BY <3>2, <3>3, ConcatProperties
    <3> HIDE DEF c
    <3>5. hashmap' \in [Buckets -> Seq(R)]
      BY <1>1, <2>1, <3>2, <3>4
    <3> QED BY <3>5 DEF Chains
  <2> QED BY <1>2, <1>3, <2>1 DEF auth_add_user
<1>4. ASSUME NEW n, auth_remove_user(n) PROVE Chains'
  <2> DEFINE b == hash(n)
             s == Find(hashmap[b], n)
             i == First(s)
             c == Unlinked(hashmap[b], i)
  <2>1. CASE Has(n) /\ hashmap' = [hashmap EXCEPT ![b] = c]
    <3>1. ASSUME b \in Buckets PROVE c \in Seq(T)
      <4>1. hashmap[b] \in Seq(T) /\ Len(hashmap[b]) \in Nat
        BY <1>1, <3>1, LenProperties
      <4>2. s \subseteq Nat /\ s \subseteq 1..Len(hashmap[b]) /\ s # {}
        BY <2>1, <4>1 DEF Find, Has
      <4> HIDE DEF s
      <4>3. PICK k \in s : \A j \in s : ~(<<j, k>> \in OpToRel(<, Nat))
        BY <4>2, NatLessThanWellFounded, WFMin
      <4>4. ASSUME NEW j \in s PROVE k <= j
        <5>1. j \in Nat /\ k \in Nat /\ ~(<<j, k>> \in OpToRel(<, Nat))
          BY <4>2, <4>3
        <5> QED BY <5>1 DEF OpToRel
      <4>5. i \in s
        BY <4>4 DEF First
      <4> HIDE DEF i, b
      <4>6. i \in Nat /\ i >= 1 /\ i <= Len(hashmap[b])
        BY <4>1, <4>2, <4>5
      <4> DEFINE d == Take(hashmap[b], i - 1)
                 f == Drop(hashmap[b], i)
      <4>7. d \in Seq(T) /\ f \in Seq(T)
        BY <4>1, <4>6, TakeIs, DropIs
      <4>8. c = d \o f
        BY DEF Unlinked, Take, Drop
      <4> HIDE DEF c, d, f
      <4> QED BY <4>7, <4>8, ConcatProperties
    <3> HIDE DEF c, b
    <3>2. hashmap' \in [Buckets -> Seq(T)]
      BY <1>1, <2>1, <3>1
    <3> QED BY <3>2 DEF Chains
  <2> QED BY <1>2, <1>4, <2>1 DEF auth_remove_user
<1>5. ASSUME AuthNext PROVE Chains'
  <2>1. UNCHANGED hashmap \/ (\E n, p : auth_add_user(n, p)) \/ (\E n : auth_remove_user(n))
    BY <1>5 DEF AuthNext, auth_check_credentials
  <2> QED BY <1>2, <1>3, <1>4, <2>1
<1> QED BY <1>2, <1>3, <1>4, <1>5 DEF table

(* No answer is empty. *)
LEMMA SomeAnswer ==
  ASSUME Chains, NEW words
  PROVE  Len(ResponseTo(words)) \in Nat /\ Len(ResponseTo(words)) >= 1
<1>1. Len(auth_list_users) \in Nat /\ Len(auth_list_users) >= 1
  BY ListIsText DEF Chains
<1> DEFINE invalid == OkOr(FALSE)
           changed == OkOr(answer'[2])
           set == OkOr(Accepted(words))
<1>2. Len(invalid) = 2 /\ Len(changed) = 2 /\ Len(set) = 2
  BY DEF OkOr
<1>3. \A a, b, c : Len(<<a, Nl, b, Nl, c, Nl, "END", Nl>>) = 8
  OBVIOUS
<1>4. Len(<<"PONG", Nl>>) = 2 /\ Len(<<"BYE", Nl>>) = 2 /\ Len(<<"TEXT", Nl, "END", Nl>>) = 4
  OBVIOUS
<1> DEFINE r == ResponseTo(words)
           settings == <<config.loglevel, Nl, ToString(config.buffer_size), Nl, ToString(config.max_conn), Nl, "END", Nl>>
           pong == <<"PONG", Nl>>
           bye == <<"BYE", Nl>>
           other == <<"TEXT", Nl, "END", Nl>>
<1>5. r \in {invalid, changed, set, auth_list_users, settings, pong, bye, other}
  BY ZenonT(60) DEF ResponseTo
<1>6. Len(settings) = 8 /\ Len(pong) = 2 /\ Len(bye) = 2 /\ Len(other) = 4
  BY <1>3, <1>4
<1> DEFINE Some(s) == Len(s) \in Nat /\ Len(s) >= 1
<1> HIDE DEF r, invalid, changed, set, settings, pong, bye, other
<1>7. Some(invalid) /\ Some(changed) /\ Some(set)
  BY <1>2
<1>8. Some(settings) /\ Some(pong) /\ Some(bye) /\ Some(other) /\ Some(auth_list_users)
  BY <1>1, <1>6
<1> HIDE DEF Some
<1>9. Some(r)
  BY <1>5, <1>7, <1>8
<1> QED BY <1>9 DEF r, Some

LEMMA RespondWrites ==
  ASSUME w_out \in 0..(OutCap - 1), NEW m, NEW text, Len(text) \in Nat, Len(text) >= 1, Respond(m, text)
  PROVE  w_out' >= 1 /\ interest' = "WRITE"
<1>1. PICK n \in 0..(OutCap - w_out - 1) :
        n = Least(Len(text), OutCap - w_out - 1) /\ w_out' = w_out + n /\ interest' = "WRITE"
  BY DEF Respond
<1>2. OutCap \in Nat /\ OutCap >= 2 /\ w_out \in Nat /\ n \in Nat
  BY <1>1, CapAssumption
<1>3. w_out = 0 => n >= 1
  BY <1>1, <1>2 DEF Least
<1> QED BY <1>1, <1>2, <1>3

(* The interest is WRITE only with something to write. *)
Loaded ==
  /\ Chains
  /\ interest \in {"READ", "WRITE"}
  /\ interest = "WRITE" => w_out >= 1

LEMMA ReadLoads ==
  ASSUME Inv, Loaded, interest = "READ", Received
  PROVE  Loaded'
<1>1. PICK n, m, e :
        IF m[e + 1] = Nl
          THEN \/ Command(m, w_in + n, e)
               \/ CommandPostponed(m, w_in + n, e)
               \/ CommandAborts(m, w_in + n, e)
          ELSE NoCommand(m, w_in + n)
  BY DEF Received
<1>2. w_out \in 0..(OutCap - 1) /\ w_out < OutCap /\ OutCap \in Nat /\ w_out \in Nat /\ Chains
  BY CapAssumption DEF Inv, Bounds, Loaded
<1>3. CASE Command(m, w_in + n, e)
  <2> DEFINE words == SelectSeq(Cells(m, r_in, e), IsWord)
             m0 == Write(m, e, <<Nul>>)
  <2>1. CASE w_out' = w_out + 1 /\ interest' = "WRITE" /\ UNCHANGED table
    <3>1. Chains'
      BY <1>2, <2>1, TableStep
    <3> QED BY <1>2, <2>1, <3>1 DEF Loaded
  <2>2. CASE config_handler(words) /\ Respond(m0, ResponseTo(words))
    <3> HIDE DEF words, m0
    <3>1. w_out' >= 1 /\ interest' = "WRITE"
      BY <1>2, <2>2, SomeAnswer, RespondWrites
    <3>2. Chains'
      <4>1. \/ UNCHANGED table
            \/ \E k, p : auth_add_user(k, p)
            \/ \E k : auth_remove_user(k)
        BY <2>2 DEF config_handler
      <4> QED BY <1>2, <4>1, TableStep
    <3> QED BY <3>1, <3>2 DEF Loaded
  <2> QED BY <1>3, <2>1, <2>2 DEF Command
<1>4. CASE CommandAborts(m, w_in + n, e)
  <2>1. UNCHANGED <<interest, w_out, table>>
    BY <1>4 DEF CommandAborts
  <2>2. Chains'
    BY <1>2, <2>1, TableStep
  <2> QED BY <2>1, <2>2 DEF Loaded
<1>5. CASE NoCommand(m, w_in + n)
  <2>1. Respond(m, <<"LONG", Nl>>) /\ UNCHANGED table
    BY <1>2, <1>5 DEF NoCommand
  <2>2. Len(<<"LONG", Nl>>) = 2
    OBVIOUS
  <2>3. w_out' >= 1 /\ interest' = "WRITE"
    BY <1>2, <2>1, <2>2, RespondWrites
  <2>4. Chains'
    BY <1>2, <2>1, TableStep
  <2> QED BY <2>3, <2>4 DEF Loaded
<1> QED BY <1>1, <1>2, <1>3, <1>4, <1>5 DEF CommandPostponed

LEMMA NextLoaded ==
  ASSUME Inv, Loaded, Next
  PROVE  Loaded'
<1>1. ASSUME UNCHANGED <<interest, w_out, table>> PROVE Loaded'
  BY <1>1, TableStep DEF Loaded
<1>2. CASE admin_read
  <2>1. CASE Received
    BY <1>2, <2>1, ReadLoads DEF admin_read
  <2>2. CASE admin_close
    BY <1>1, <2>2 DEF admin_close, outbuf
  <2> QED BY <1>2, <2>1, <2>2 DEF admin_read
<1>3. CASE admin_write
  <2>1. UNCHANGED table
    BY <1>3 DEF admin_write
  <2>2. Chains'
    BY <2>1, TableStep DEF Loaded
  <2>3. interest' = "READ" \/ UNCHANGED <<interest, w_out>>
    BY <1>3 DEF admin_write, Sent, SentInVain, SendError, outbuf
  <2> QED BY <2>2, <2>3 DEF Loaded
<1>4. CASE ClientSends \/ RestArrives \/ ClientReads \/ ClientLeaves \/ ProgramEnds
  BY <1>1, <1>4 DEF ClientSends, RestArrives, ClientReads, ClientLeaves, ProgramEnds, server, outbuf
<1>5. CASE ProgramReads
  BY <1>1, <1>5 DEF ProgramReads, server, outbuf
<1>6. CASE ServerStops
  BY <1>1, <1>6 DEF ServerStops, outbuf
<1>7. CASE Others
  <2>1. AuthNext /\ UNCHANGED <<interest, w_out>>
    BY <1>7 DEF Others, outbuf
  <2> QED BY <2>1, TableStep DEF Loaded
<1> QED BY <1>2, <1>3, <1>4, <1>5, <1>6, <1>7 DEF Next

LEMMA InitLoaded ==
  ASSUME Init
  PROVE  Loaded
<1>1. << >> \in Seq({})
  BY EmptySeq
<1>2. hashmap \in [Buckets -> Seq({})]
  BY <1>1 DEF Init, auth_init
<1> QED BY <1>2 DEF Loaded, Chains, Init

-----------------------------------------------------------------------------
(* A line at a time, perhaps in two pieces: nothing waits in in_buff, no     *)
(* newline is left in in_data for strchr() to find, and its last cell is a   *)
(* NUL.                                                                      *)
LineOnItsWay ==
  /\ Len(c2s) + Len(unsent) <= InCap
  /\ \A i \in 1..Len(unsent) : unsent[i] \notin {Nl, Nul} \/ i = Len(unsent)
  /\ \A i \in 1..Len(c2s) : c2s[i] \notin {Nl, Nul} \/ (i = Len(c2s) /\ unsent = << >>)
  /\ Len(unsent) >= 1 => unsent[Len(unsent)] = Nl
  /\ unsent = << >> /\ Len(c2s) >= 1 => c2s[Len(c2s)] = Nl
NoBlanks ==
  /\ Len(c2s) >= 1 => c2s[1] # Blank
  /\ Len(unsent) >= 1 => unsent[1] # Blank
Clean(m) == m[InCap] = Nul /\ \A i \in 1..InCap : m[i] # Nl

OneLine ==
  srv = "up" /\ "batch" \notin rough /\ "long" \notin rough =>
    /\ w_in = 0 /\ Clean(mem) /\ LineOnItsWay
    /\ "blank" \notin rough => NoBlanks

LEMMA ReadOneLine ==
  ASSUME Inv, OneLine, ReadOutcome, srv = "up", "batch" \notin rough, "long" \notin rough
  PROVE  OneLine' /\ ("blank" \notin rough => srv' = "up")
<1>1. PICK S, n, m, e :
        /\ TextOver(S) /\ m \in Seq(S)
        /\ Fed(n, m, e) /\ c2s' = Drop(c2s, n)
        /\ UNCHANGED <<conn, r_out, s2c, unsent, client>>
        /\ \/ Commanded(n, m, e)
           \/ Discarded(n, m, e) /\ interest' = "WRITE"
           \/ Aborted(n, m, e) /\ UNCHANGED interest
  BY DEF ReadOutcome
<1>2. /\ w_in = 0 /\ Clean(mem) /\ LineOnItsWay /\ ("blank" \notin rough => NoBlanks)
      /\ rough' = rough /\ unsent' = unsent
  BY <1>1 DEF OneLine, client
<1> DEFINE a == Take(c2s, n)
<1>3. /\ InCap \in Nat /\ InCap >= 1 /\ r_in = 0 /\ Len(c2s) \in Nat /\ Len(unsent) \in Nat /\ n \in Nat /\ n >= 1
      /\ n <= Len(c2s) /\ e \in Nat /\ m[e + 1] \in {Nl, Nul} /\ NoEnd(m, 0, e) /\ c2s \in Seq(S) /\ unsent \in Seq(S)
      /\ Len(c2s) + Len(unsent) <= InCap /\ IsWrite(m, mem, 0, a) /\ Len(mem) = InCap + OutCap /\ OutCap \in Nat
      /\ n = Len(c2s) \/ n = InCap
  <2>1. Len(c2s) \in Nat /\ Len(unsent) \in Nat /\ c2s \in Seq(S) /\ unsent \in Seq(S)
    BY <1>1, LenProperties DEF TextOver
  <2>2. r_in \in Nat /\ r_in <= w_in /\ Len(mem) = InCap + OutCap
    BY DEF Inv, Bounds, Whole
  <2>3. Len(c2s) + Len(unsent) <= InCap
    BY <1>2 DEF LineOnItsWay
  <2> QED BY <1>1, <1>2, <2>1, <2>2, <2>3, CapAssumption DEF Fed
<1>4. n = Len(c2s) /\ n <= InCap
  BY <1>3
<1>5. a \in Seq(S) /\ Len(a) = n /\ \A i \in 1..n : a[i] = c2s[i]
  <2>1. a \in Seq(S) /\ IsPart(a, c2s, 0, n)
    BY <1>3, TakeIs
  <2>2. \A i \in 1..n : 0 + i = i
    BY <1>3
  <2> QED BY <2>1, <2>2 DEF IsPart
<1> HIDE DEF a
<1>6. \A i \in 1..InCap : m[i] = IF i <= n THEN c2s[i] ELSE mem[i]
  <2>1. ASSUME NEW i \in 1..InCap PROVE m[i] = IF i <= n THEN c2s[i] ELSE mem[i]
    <3>1. i \in 1..Len(mem) /\ 0 < i /\ i - 0 = i /\ 0 + Len(a) = n /\ (i <= n => i \in 1..n)
      BY <1>3, <1>5
    <3>2. m[i] = IF i <= n THEN a[i] ELSE mem[i]
      BY <1>3, <3>1 DEF IsWrite
    <3> QED BY <1>5, <3>1, <3>2
  <2> QED BY <2>1
<1>7. c2s' = << >>
  <2>1. Drop(c2s, n) \in Seq(S) /\ Len(Drop(c2s, n)) = Len(c2s) - n
    BY <1>3, DropIs DEF IsPart
  <2>2. Len(c2s) - n = 0
    BY <1>3, <1>4
  <2> QED BY <1>1, <2>1, <2>2, EmptySeq
<1>8. Len(c2s') = 0 /\ c2s[1] = m[1] /\ n \in 1..n /\ n \in 1..InCap /\ 1 \in 1..InCap
  BY <1>3, <1>4, <1>6, <1>7
<1>9. CASE unsent = << >>
  <2>1. c2s[n] = Nl /\ \A i \in 1..n : c2s[i] \notin {Nl, Nul} \/ i = n
    BY <1>2, <1>3, <1>4, <1>9 DEF LineOnItsWay
  <2>2. e = n - 1
    <3>1. e <= n - 1
      <4> SUFFICES ASSUME n - 1 < e PROVE FALSE
        BY <1>3
      <4> DEFINE i == n - 1
      <4>1. i \in 0..(e - 1) /\ i + 1 = n
        BY <1>3
      <4> HIDE DEF i
      <4>2. m[i + 1] \notin {Nl, Nul}
        BY <1>3, <4>1 DEF NoEnd
      <4> QED BY <1>6, <1>8, <2>1, <4>1, <4>2
    <3>2. e + 1 \in 1..n /\ e + 1 \in 1..InCap
      BY <1>3, <1>4, <3>1
    <3>3. c2s[e + 1] \in {Nl, Nul}
      BY <1>3, <1>6, <3>2
    <3>4. e + 1 = n
      BY <2>1, <3>2, <3>3
    <3> QED BY <1>3, <3>4
  <2>3. e + 1 = n /\ m[e + 1] = Nl /\ ~(e >= n) /\ ~(e >= w_in + n)
    BY <1>2, <1>3, <1>6, <1>8, <2>1, <2>2
  <2>4. CASE Commanded(n, m, e)
    <3>1. w_in' = 0 /\ LineEnded(m, e) /\ srv' = srv
      <4>1. CommandRead(e - r_in + 1, w_in + n) /\ LineEnded(m, e) /\ srv' = srv
        BY <2>4 DEF Commanded
      <4>2. r_in + (e - r_in + 1) = w_in + n
        BY <1>2, <1>3, <2>3
      <4> QED BY <4>1, <4>2 DEF CommandRead
    <3>2. \A i \in 1..InCap : mem'[i] = IF i = n THEN Nul ELSE m[i]
      BY <2>3, <3>1 DEF LineEnded
    <3>3. ASSUME NEW i \in 1..InCap PROVE mem'[i] # Nl
      <4>1. CASE i = n
        BY <3>2, <4>1 DEF Nl, Nul
      <4>2. CASE i # n /\ i <= n
        <5>1. i \in 1..n
          BY <1>3, <4>2
        <5> QED BY <1>6, <2>1, <3>2, <4>2, <5>1
      <4>3. CASE i # n /\ ~(i <= n)
        BY <1>2, <1>6, <3>2, <4>3 DEF Clean
      <4> QED BY <4>1, <4>2, <4>3
    <3>4. mem'[InCap] = Nul
      <4>1. InCap \in 1..InCap /\ (InCap # n => ~(InCap <= n))
        BY <1>3, <1>4
      <4> QED BY <1>2, <1>6, <3>2, <4>1 DEF Clean
    <3>5. Clean(mem')
      BY <3>3, <3>4 DEF Clean
    <3>6. LineOnItsWay' /\ NoBlanks'
      BY <1>2, <1>3, <1>8, <1>9 DEF LineOnItsWay, NoBlanks
    <3> QED BY <3>1, <3>5, <3>6 DEF OneLine
  <2>5. CASE Aborted(n, m, e)
    <3>1. srv' = "aborted" /\ e > 0 /\ \A i \in 0..(e - 1) : m[i + 1] = Blank
      BY <1>3, <2>3, <2>5 DEF Aborted
    <3>2. 0 \in 0..(e - 1) /\ 0 + 1 = 1
      BY <1>3, <3>1
    <3>3. m[1] = Blank
      BY <3>1, <3>2
    <3>4. ~NoBlanks
      BY <1>3, <1>4, <1>8, <3>3 DEF NoBlanks
    <3> QED BY <1>2, <3>1, <3>4 DEF OneLine
  <2> QED BY <1>1, <2>3, <2>4, <2>5 DEF Discarded, Nl, Nul
<1>10. CASE unsent # << >>
  <2>1. Len(unsent) >= 1 /\ n < InCap
    <3>1. Len(unsent) # 0
      BY <1>3, <1>10, EmptySeq
    <3> QED BY <1>3, <1>4, <3>1
  <2>2. \A i \in 1..n : c2s[i] \notin {Nl, Nul}
    BY <1>2, <1>4, <1>10 DEF LineOnItsWay
  <2>3. ASSUME NEW i \in 1..InCap PROVE m[i] # Nl
    <3>1. i <= n => i \in 1..n
      BY <1>3
    <3> QED BY <1>2, <1>6, <2>2, <3>1 DEF Clean
  <2>4. InCap \in 1..InCap /\ m[InCap] = Nul
    <3>1. InCap \in 1..InCap /\ ~(InCap <= n)
      BY <1>3, <2>1
    <3> QED BY <1>2, <1>6, <3>1 DEF Clean
  <2>5. e + 1 \in 1..InCap
    <3> SUFFICES ASSUME InCap - 1 < e PROVE FALSE
      BY <1>3
    <3> DEFINE i == InCap - 1
    <3>1. i \in 0..(e - 1) /\ i + 1 = InCap
      BY <1>3
    <3> HIDE DEF i
    <3>2. m[i + 1] \notin {Nl, Nul}
      BY <1>3, <3>1 DEF NoEnd
    <3> QED BY <2>4, <3>1, <3>2
  <2>6. m[e + 1] # Nl
    BY <2>3, <2>5
  <2>7. Discarded(n, m, e)
    BY <1>1, <2>6 DEF Commanded, Aborted
  <2>8. w_in' = 0 /\ srv' = srv /\ Agree(mem', m, 0, InCap)
    BY <2>7 DEF Discarded
  <2>9. ASSUME NEW i \in 1..InCap PROVE mem'[i] = m[i]
    <3>1. i \in 1..Len(m) /\ 0 < i /\ i <= InCap
      BY <1>3 DEF IsWrite
    <3> QED BY <2>8, <3>1 DEF Agree
  <2>10. Clean(mem')
    BY <2>3, <2>4, <2>9 DEF Clean
  <2>11. LineOnItsWay' /\ ("blank" \notin rough => NoBlanks')
    <3>1. LineOnItsWay'
      BY <1>2, <1>3, <1>8, <1>10 DEF LineOnItsWay
    <3>2. "blank" \notin rough => NoBlanks'
      BY <1>2, <1>8 DEF NoBlanks
    <3> QED BY <3>1, <3>2
  <2> QED BY <1>2, <2>8, <2>10, <2>11 DEF OneLine
<1> QED BY <1>9, <1>10

-----------------------------------------------------------------------------
(* A step that moves no line and leaves in_data. *)
LEMMA KeepsOneLine ==
  ASSUME OneLine, srv' = "up" => srv = "up", UNCHANGED <<c2s, unsent, w_in>>,
         \A i \in 1..InCap : mem'[i] = mem[i],
         \A f \in {"batch", "long", "blank"} : f \in rough => f \in rough'
  PROVE  OneLine'
<1> SUFFICES ASSUME srv' = "up", "batch" \notin rough', "long" \notin rough' PROVE OneLine'
  BY DEF OneLine
<1>1. /\ w_in = 0 /\ Clean(mem) /\ LineOnItsWay
      /\ "blank" \notin rough' => NoBlanks
  BY DEF OneLine
<1>2. Clean(mem')
  <2>1. InCap \in 1..InCap
    BY CapAssumption
  <2> QED BY <1>1, <2>1 DEF Clean
<1>3. LineOnItsWay' /\ ("blank" \notin rough' => NoBlanks')
  BY <1>1 DEF LineOnItsWay, NoBlanks
<1> QED BY <1>1, <1>2, <1>3 DEF OneLine

(* A line is sent when nothing is on its way. *)
LEMMA SendsOneLine ==
  ASSUME Inv, OneLine, ClientSends
  PROVE  OneLine'
<1> SUFFICES ASSUME srv' = "up", "batch" \notin rough', "long" \notin rough' PROVE OneLine'
  BY DEF OneLine
<1>1. PICK S : TextOver(S)
  BY DEF Inv, Texts
<1> DEFINE Sends(l, k) == /\ k < Len(l) => "split" \in Env
                          /\ c2s' = c2s \o Take(l, k) /\ unsent' = Drop(l, k)
                          /\ sent' = sent \o l
                          /\ rough' = Notes(l, k)
<1>2. PICK l \in Lines : \E k \in 1..Len(l) : Sends(l, k)
  BY DEF ClientSends
<1>3. PICK k \in 1..Len(l) : Sends(l, k)
  BY <1>2
<1>4. l \in Seq(S) /\ Len(l) \in Nat /\ l[Len(l)] = Nl /\ \A i \in 1..(Len(l) - 1) : l[i] \notin {Nl, Nul}
  <2>1. Alphabet(S)
    BY <1>1 DEF TextOver
  <2> QED BY <2>1, LinesAssumption, StringText, LenProperties
<1>5. /\ "batch" \notin rough /\ "long" \notin rough /\ ("blank" \notin rough' => "blank" \notin rough)
      /\ Quiet /\ ~(Len(l) > InCap)
      /\ "blank" \notin rough' => l[1] # Blank /\ ~(k < Len(l) /\ l[k + 1] = Blank)
  BY <1>3 DEF Notes
<1>6. UNCHANGED <<srv, mem, w_in>>
  BY DEF ClientSends, server, inbuf
<1>7. w_in = 0 /\ Clean(mem)
  BY <1>5, <1>6 DEF OneLine
<1>8. c2s = << >> /\ unsent = << >>
  <2>1. c2s \in Seq(S) /\ unsent \in Seq(S) /\ s2c \in Seq(S) /\ c2s \o unsent \o s2c = << >>
    BY <1>1, <1>5 DEF TextOver, Quiet
  <2> QED BY <2>1, NothingThere
<1> DEFINE a == Take(l, k)
           b == Drop(l, k)
           n == Len(l) - k
<1>9. k \in Nat /\ k >= 1 /\ k <= Len(l) /\ n \in Nat /\ n = Len(l) - k /\ Len(l) <= InCap /\ InCap \in Nat
  BY <1>4, <1>5, CapAssumption
<1>10. a \in Seq(S) /\ IsPart(a, l, 0, k) /\ b \in Seq(S) /\ IsPart(b, l, k, n)
  BY <1>4, <1>9, TakeIs, DropIs
<1> HIDE DEF a, b, n
<1>11. c2s' = a /\ unsent' = b
  <2>1. << >> \o a = a
    BY <1>10, ConcatEmptySeq
  <2> QED BY <1>3, <1>8, <2>1 DEF a, b
<1>12. /\ Len(a) = k /\ \A i \in 1..k : a[i] = l[i]
       /\ Len(b) = n /\ \A i \in 1..n : b[i] = l[k + i]
  <2>1. \A i \in 1..k : 0 + i = i
    BY <1>9
  <2> QED BY <1>10, <2>1 DEF IsPart
<1>13. b = << >> <=> n = 0
  BY <1>10, <1>12, EmptySeq
<1>14. LineOnItsWay'
  <2>1. Len(a) + Len(b) <= InCap
    BY <1>9, <1>12
  <2>2. ASSUME NEW i \in 1..n PROVE b[i] \notin {Nl, Nul} \/ i = n
    <3>1. i # n => k + i \in 1..(Len(l) - 1)
      BY <1>9
    <3> QED BY <1>4, <1>12, <3>1
  <2>3. ASSUME NEW i \in 1..k PROVE a[i] \notin {Nl, Nul} \/ (i = k /\ b = << >>)
    <3>1. i \in 1..(Len(l) - 1) \/ (i = k /\ n = 0)
      BY <1>9
    <3> QED BY <1>4, <1>12, <1>13, <3>1
  <2>4. n >= 1 => b[n] = Nl
    <3>1. n >= 1 => n \in 1..n /\ k + n = Len(l)
      BY <1>4, <1>9
    <3> QED BY <1>4, <1>12, <3>1
  <2>5. b = << >> => a[k] = Nl
    <3>1. n = 0 => k = Len(l) /\ k \in 1..k
      BY <1>4, <1>9
    <3> QED BY <1>4, <1>12, <1>13, <3>1
  <2> QED BY <1>11, <1>12, <2>1, <2>2, <2>3, <2>4, <2>5 DEF LineOnItsWay
<1>15. "blank" \notin rough' => NoBlanks'
  <2> SUFFICES ASSUME "blank" \notin rough' PROVE NoBlanks'
    OBVIOUS
  <2>1. a[1] = l[1] /\ (n >= 1 => b[1] = l[k + 1] /\ k < Len(l))
    <3>1. 1 \in 1..k /\ (n >= 1 => 1 \in 1..n /\ k < Len(l))
      BY <1>4, <1>9
    <3> QED BY <1>12, <3>1
  <2> QED BY <1>5, <1>11, <1>12, <2>1 DEF NoBlanks
<1> QED BY <1>6, <1>7, <1>14, <1>15 DEF OneLine

(* The rest of the line follows. *)
LEMMA RestOfOneLine ==
  ASSUME Inv, OneLine, RestArrives
  PROVE  OneLine'
<1> SUFFICES ASSUME srv' = "up", "batch" \notin rough', "long" \notin rough' PROVE OneLine'
  BY DEF OneLine
<1>1. PICK S : TextOver(S)
  BY DEF Inv, Texts
<1>2. /\ UNCHANGED <<srv, mem, w_in, rough>> /\ unsent # << >>
      /\ c2s' = c2s \o unsent /\ unsent' = << >>
  BY DEF RestArrives, server, inbuf, client
<1>3. w_in = 0 /\ Clean(mem) /\ LineOnItsWay /\ ("blank" \notin rough => NoBlanks)
  BY <1>2 DEF OneLine
<1> DEFINE n == Len(c2s)
           k == Len(unsent)
           t == c2s \o unsent
<1>4. c2s \in Seq(S) /\ unsent \in Seq(S) /\ n \in Nat /\ k \in Nat
  BY <1>1, LenProperties DEF TextOver
<1>5. k >= 1
  <2>1. k # 0
    BY <1>2, <1>4, EmptySeq
  <2> QED BY <1>4, <2>1
<1>6. /\ Len(t) = n + k
      /\ \A i \in 1..(n + k) : t[i] = IF i <= n THEN c2s[i] ELSE unsent[i - n]
  BY <1>4, ConcatProperties
<1>7. /\ n + k <= InCap /\ unsent[k] = Nl
      /\ \A i \in 1..k : unsent[i] \notin {Nl, Nul} \/ i = k
      /\ \A i \in 1..n : c2s[i] \notin {Nl, Nul}
  BY <1>2, <1>3, <1>5 DEF LineOnItsWay
<1>8. "blank" \notin rough => (n >= 1 => c2s[1] # Blank) /\ unsent[1] # Blank
  BY <1>3, <1>5 DEF NoBlanks
<1>9. c2s' = t /\ unsent' = << >> /\ Len(unsent') = 0
  BY <1>2
<1> HIDE DEF n, k, t
<1>10. \A i \in 1..Len(t) : t[i] \notin {Nl, Nul} \/ i = Len(t)
  <2>1. ASSUME NEW i \in 1..(n + k) PROVE t[i] \notin {Nl, Nul} \/ i = n + k
    <3>1. (i <= n /\ i \in 1..n) \/ (~(i <= n) /\ i - n \in 1..k /\ (i - n = k => i = n + k))
      BY <1>4
    <3> QED BY <1>6, <1>7, <3>1
  <2> QED BY <1>6, <2>1
<1>11. Len(t) >= 1 /\ t[Len(t)] = Nl
  <2> DEFINE j == n + k
  <2>1. j \in 1..(n + k) /\ ~(j <= n) /\ j - n = k /\ j >= 1
    BY <1>4, <1>5
  <2> HIDE DEF j
  <2>2. t[j] = unsent[j - n]
    BY <1>6, <2>1
  <2> QED BY <1>6, <1>7, <2>1, <2>2 DEF j
<1>12. LineOnItsWay'
  <2>1. Len(t) + 0 <= InCap
    BY <1>4, <1>6, <1>7
  <2>2. 1..0 = {} /\ ~(0 >= 1)
    OBVIOUS
  <2> QED BY <1>9, <1>10, <1>11, <2>1, <2>2 DEF LineOnItsWay
<1>13. "blank" \notin rough' => NoBlanks'
  <2>1. t[1] = IF n >= 1 THEN c2s[1] ELSE unsent[1]
    <3>1. 1 \in 1..(n + k) /\ (1 <= n <=> n >= 1) /\ (~(n >= 1) => 1 - n = 1)
      BY <1>4, <1>5
    <3> QED BY <1>6, <3>1
  <2> QED BY <1>2, <1>8, <1>9, <2>1 DEF NoBlanks
<1> QED BY <1>2, <1>3, <1>12, <1>13 DEF OneLine

LEMMA NextOneLine ==
  ASSUME Inv, OneLine, Next
  PROVE  OneLine'
<1>1. ASSUME UNCHANGED <<c2s, unsent, w_in>>, UNCHANGED mem, srv' = "up" => srv = "up", rough \subseteq rough'
      PROVE  OneLine'
  <2>1. \A f \in {"batch", "long", "blank"} : f \in rough => f \in rough'
    BY <1>1
  <2> QED BY <1>1, <2>1, KeepsOneLine
<1>2. CASE admin_read
  <2>1. interest = "READ" /\ srv = "up"
    BY <1>2 DEF admin_read, Running
  <2>2. CASE Received
    <3>1. ReadOutcome /\ rough' = rough
      BY <2>1, <2>2, ReadStep DEF Received, client
    <3>2. CASE "batch" \notin rough /\ "long" \notin rough
      BY <2>1, <3>1, <3>2, ReadOneLine
    <3>3. CASE ~("batch" \notin rough /\ "long" \notin rough)
      BY <3>1, <3>3 DEF OneLine
    <3> QED BY <3>2, <3>3
  <2>3. CASE admin_close
    BY <1>1, <2>3 DEF admin_close, inbuf, wire, client
  <2> QED BY <1>2, <2>2, <2>3 DEF admin_read
<1>3. CASE admin_write
  <2>1. UNCHANGED <<conn, inbuf, config, c2s, unsent, prog, asked, got, sent, history, table>>
    BY <1>3 DEF admin_write
  <2>2. UNCHANGED <<c2s, unsent, w_in>> /\ srv = "up"
    BY <1>3, <2>1 DEF inbuf, admin_write, Running
  <2>3. CASE Sent(Least(Len(Pending), SockCap - Len(s2c)))
    <3>1. Agree(mem', mem, 0, InCap)
      BY <2>1, <2>3, SendStep
    <3>2. \A i \in 1..InCap : mem'[i] = mem[i]
      <4>1. \A i \in 1..InCap : i \in 1..Len(mem) /\ 0 < i /\ i <= InCap
        BY CapAssumption DEF Inv, Bounds, Whole
      <4> QED BY <3>1, <4>1 DEF Agree
    <3>3. \A f \in {"batch", "long", "blank"} : f \in rough => f \in rough'
      BY <2>3 DEF Sent
    <3> QED BY <2>2, <3>2, <3>3, KeepsOneLine
  <2>4. CASE SentInVain
    BY <1>1, <2>2, <2>4 DEF SentInVain
  <2>5. CASE SendError
    BY <1>1, <2>2, <2>5 DEF SendError
  <2> QED BY <1>3, <2>3, <2>4, <2>5 DEF admin_write
<1>4. CASE ClientSends
  BY <1>4, SendsOneLine
<1>5. CASE RestArrives
  BY <1>5, RestOfOneLine
<1>6. CASE ClientReads
  BY <1>1, <1>6 DEF ClientReads, server, inbuf
<1>7. CASE ProgramReads
  <2>1. UNCHANGED <<server, c2s, unsent, asked, sent>> /\ rough \subseteq rough'
    BY <1>7 DEF ProgramReads
  <2> QED BY <1>1, <2>1 DEF server, inbuf
<1>8. CASE ProgramEnds
  BY <1>1, <1>8 DEF ProgramEnds, server, wire, inbuf
<1>9. CASE ClientLeaves
  <2>1. UNCHANGED <<server, wire, sent>> /\ rough \subseteq rough'
    BY <1>9 DEF ClientLeaves
  <2> QED BY <1>1, <2>1 DEF server, wire, inbuf
<1>10. CASE ServerStops
  BY <1>10 DEF ServerStops, OneLine
<1>11. CASE Others
  BY <1>1, <1>11 DEF Others, inbuf, wire, client
<1> QED BY <1>2, <1>3, <1>4, <1>5, <1>6, <1>7, <1>8, <1>9, <1>10, <1>11 DEF Next

LEMMA InitOneLine ==
  ASSUME Init
  PROVE  OneLine
<1>1. InCap \in Nat /\ OutCap \in Nat /\ InCap >= 1
  BY CapAssumption
<1>2. \A i \in 1..InCap : i \in 1..(InCap + OutCap)
  BY <1>1
<1>3. InCap \in 1..InCap /\ \A i \in 1..InCap : mem[i] = Nul
  BY <1>1, <1>2 DEF Init
<1>4. Clean(mem)
  BY <1>3 DEF Clean, Nl, Nul
<1>5. c2s = << >> /\ unsent = << >> /\ Len(c2s) = 0 /\ Len(unsent) = 0 /\ w_in = 0
  BY DEF Init
<1>6. LineOnItsWay /\ NoBlanks
  BY <1>1, <1>5 DEF LineOnItsWay, NoBlanks
<1> QED BY <1>4, <1>5, <1>6 DEF OneLine

-----------------------------------------------------------------------------
(* Once everything has been read there is nothing to write. *)
LEMMA QuietReads ==
  ASSUME Inv, Loaded, NEW S, TextOver(S), NEW g \in Seq(S), Makes(g, Waiting(mem), answers), Len(g) = Len(answers)
  PROVE  interest = "READ" /\ Waiting(mem) = << >>
<1> DEFINE p == Waiting(mem)
           o == InCap + w_out
<1>1. /\ mem \in Seq(S) /\ InCap \in Nat /\ o \in Nat /\ InCap <= o /\ o <= Len(mem) /\ o - InCap = w_out /\ w_out \in Nat
  BY CapAssumption DEF TextOver, Inv, Bounds, Whole
<1>2. p \in Seq(S) /\ Len(p) = w_out
  <2> HIDE DEF o
  <2>1. Cells(mem, InCap, o) \in Seq(S) /\ IsPart(Cells(mem, InCap, o), mem, InCap, o - InCap)
    BY <1>1, CellsAre
  <2> QED BY <1>1, <2>1 DEF Waiting, o, IsPart
<1> HIDE DEF p
<1>3. Len(g \o p) = Len(g) + Len(p) /\ Len(g) \in Nat
  BY <1>2, ConcatProperties, LenProperties
<1>4. Len(g \o p) = Len(g)
  <2>1. g \o p = answers
    BY DEF Makes, p
  <2> QED BY <2>1
<1>5. w_out = 0
  BY <1>1, <1>2, <1>3, <1>4
<1> QED BY <1>2, <1>5, EmptySeq DEF Loaded, p

(* An administrator that has left had read all its answers. *)
Answered ==
  srv = "up" /\ "gone" \notin rough /\ csock # "open" /\ conn = "open"
    => interest = "READ" /\ c2s = << >> /\ unsent = << >>

LEMMA NextAnswered ==
  ASSUME Inv, Loaded, Answered, Next
  PROVE  Answered'
<1> SUFFICES ASSUME srv' = "up", "gone" \notin rough', csock' # "open", conn' = "open" PROVE Answered'
  BY DEF Answered
<1>1. PICK S : TextOver(S)
  BY DEF Inv, Texts
<1>2. /\ got \in Seq(S) /\ s2c \in Seq(S) /\ c2s \in Seq(S) /\ unsent \in Seq(S)
      /\ csock = "open" => Makes(got \o s2c, Waiting(mem), answers)
  BY <1>1 DEF TextOver, Inv, Delivered, Makes
<1>3. ASSUME UNCHANGED <<c2s, unsent, interest, conn, srv, csock>>, rough \subseteq rough' PROVE Answered'
  BY <1>3 DEF Answered
<1>4. CASE admin_read
  <2>1. CASE Received
    <3>1. c2s # << >> /\ srv = "up" /\ UNCHANGED <<conn, csock, rough>>
      BY <1>4, <2>1 DEF admin_read, Running, Received, client
    <3> QED BY <3>1 DEF Answered
  <2>2. CASE admin_close
    BY <2>2 DEF admin_close
  <2> QED BY <1>4, <2>1, <2>2 DEF admin_read
<1>5. CASE admin_write
  <2>1. UNCHANGED <<conn, c2s, unsent>> /\ interest = "WRITE" /\ srv = "up" /\ conn = "open"
    BY <1>5 DEF admin_write, Running
  <2>2. ~Sent(Least(Len(Pending), SockCap - Len(s2c)))
    BY DEF Sent
  <2>3. ~SentInVain
    BY <2>1 DEF SentInVain, Answered
  <2>4. ~SendError
    BY DEF SendError
  <2> QED BY <1>5, <2>2, <2>3, <2>4 DEF admin_write
<1>6. CASE ClientSends \/ ClientReads
  BY <1>6 DEF ClientSends, ClientReads
<1>7. CASE RestArrives
  <2>1. unsent # << >> /\ UNCHANGED <<conn, srv, csock, rough>>
    BY <1>7 DEF RestArrives, server, client
  <2> QED BY <2>1 DEF Answered
<1>8. CASE ProgramReads
  <2>1. csock = "open" /\ UNCHANGED <<server, c2s, unsent>> /\ csock' \in {"open", "closed"}
    BY <1>8 DEF ProgramReads
  <2>2. Quiet'
    BY <1>8 DEF ProgramReads
  <2>3. got' \in Seq(S) /\ s2c' \in Seq(S) /\ got' \o s2c' = got \o s2c
    BY <1>1, <1>8, ProgramMoves
  <2>4. c2s = << >> /\ unsent = << >> /\ s2c' = << >>
    <3>1. c2s \o unsent \o s2c' = << >>
      BY <2>1, <2>2 DEF Quiet
    <3> QED BY <1>2, <2>3, <3>1, NothingThere
  <2>5. Makes(got', Waiting(mem), answers) /\ Len(got') = Len(answers)
    <3> DEFINE g == got'
    <3>1. g \o << >> = g
      <4>1. g \in Seq(S)
        BY <2>3
      <4> HIDE DEF g
      <4> QED BY <4>1, ConcatEmptySeq
    <3>2. got \o s2c = g
      BY <2>3, <2>4, <3>1
    <3>3. Len(g) = Len(answers')
      BY <2>2 DEF Quiet
    <3> QED BY <1>2, <2>1, <3>2, <3>3 DEF server, history
  <2>6. interest = "READ"
    <3> DEFINE g == got'
    <3>1. g \in Seq(S) /\ Makes(g, Waiting(mem), answers) /\ Len(g) = Len(answers)
      BY <2>3, <2>5
    <3> HIDE DEF g
    <3> QED BY <1>1, <3>1, QuietReads
  <2> QED BY <2>1, <2>4, <2>6 DEF Answered, server
<1>9. CASE ProgramEnds
  BY <1>9 DEF ProgramEnds, server
<1>10. CASE ClientLeaves
  <2>1. Quiet /\ csock = "open" /\ UNCHANGED <<server, wire>>
    BY <1>10 DEF ClientLeaves
  <2>2. c2s = << >> /\ unsent = << >> /\ s2c = << >> /\ Len(got) = Len(answers)
    <3>1. c2s \o unsent \o s2c = << >> /\ Len(got) = Len(answers)
      BY <2>1 DEF Quiet
    <3> QED BY <1>2, <3>1, NothingThere
  <2>3. got \o s2c = got
    BY <1>2, <2>2, ConcatEmptySeq
  <2>4. interest = "READ"
    BY <1>1, <1>2, <2>1, <2>2, <2>3, QuietReads
  <2> QED BY <2>1, <2>2, <2>4 DEF Answered, server, wire
<1>11. CASE ServerStops
  BY <1>11 DEF ServerStops
<1>12. CASE Others
  BY <1>12 DEF Others, client
<1> QED BY <1>4, <1>5, <1>6, <1>7, <1>8, <1>9, <1>10, <1>11, <1>12 DEF Next

LEMMA InitAnswered ==
  ASSUME Init
  PROVE  Answered
BY DEF Init, Answered

(* The third invariant of the administration. *)
LineByLine == InOrder /\ OneLine /\ Loaded /\ Answered /\ ServerStays

LEMMA NextStays ==
  ASSUME Inv, InOrder, OneLine, Answered, ServerStays, Next
  PROVE  ServerStays'
<1> SUFFICES ASSUME "long" \notin rough', "blank" \notin rough', "gone" \notin rough',
                    "batch" \notin rough' \/ "split" \notin rough', srv' \notin {"up", "stopped"}
             PROVE  FALSE
  BY DEF ServerStays
<1>1. CASE admin_read
  <2>1. interest = "READ" /\ srv = "up"
    BY <1>1 DEF admin_read, Running
  <2>2. CASE Received
    <3>1. ReadOutcome /\ rough' = rough
      BY <2>1, <2>2, ReadStep DEF Received, client
    <3>2. CASE "split" \notin rough
      <4>1. Inv'
        BY <2>1, <2>2, ReadStep
      <4> QED BY <2>1, <3>1, <3>2, <4>1, ReadInOrder
    <3>3. CASE "batch" \notin rough
      BY <2>1, <3>1, <3>3, ReadOneLine
    <3> QED BY <3>1, <3>2, <3>3
  <2>3. CASE admin_close
    BY <2>1, <2>3 DEF admin_close
  <2> QED BY <1>1, <2>2, <2>3 DEF admin_read
<1>2. CASE admin_write
  <2>1. srv = "up" /\ conn = "open" /\ interest = "WRITE"
    BY <1>2 DEF admin_write, Running
  <2>2. CASE Sent(Least(Len(Pending), SockCap - Len(s2c))) \/ SentInVain
    BY <2>1, <2>2 DEF Sent, SentInVain
  <2>3. CASE SendError
    <3>1. csock # "open" /\ rough' = rough
      BY <2>3 DEF SendError
    <3> QED BY <2>1, <3>1 DEF Answered
  <2> QED BY <1>2, <2>2, <2>3 DEF admin_write
<1>3. ASSUME srv' = srv, rough \subseteq rough' PROVE FALSE
  BY <1>3 DEF ServerStays
<1>4. CASE ClientSends
  <2>1. rough \subseteq rough'
    BY <1>4 DEF ClientSends, Notes
  <2> QED BY <1>3, <1>4, <2>1 DEF ClientSends, server
<1>5. CASE RestArrives \/ ClientReads \/ ProgramEnds
  BY <1>3, <1>5 DEF RestArrives, ClientReads, ProgramEnds, server, client
<1>6. CASE ClientLeaves
  BY <1>3, <1>6 DEF ClientLeaves, server
<1>7. CASE ProgramReads
  BY <1>3, <1>7 DEF ProgramReads, server
<1>8. CASE ServerStops
  BY <1>8 DEF ServerStops
<1>9. CASE Others
  BY <1>3, <1>9 DEF Others, client
<1> QED BY <1>1, <1>2, <1>4, <1>5, <1>6, <1>7, <1>8, <1>9 DEF Next

LEMMA StutterLineByLine ==
  ASSUME Inv, LineByLine, UNCHANGED vars
  PROVE  LineByLine'
<1>1. /\ UNCHANGED <<srv, conn, interest, mem, r_in, w_in, r_out, w_out, consumed, answers, csock, rough, sent>>
      /\ UNCHANGED <<c2s, unsent, s2c, got, table>>
  BY DEF vars, inbuf, outbuf, wire, client, history
<1>2. InOrder'
  BY StutterInOrder DEF LineByLine
<1>3. OneLine'
  BY <1>1, KeepsOneLine DEF LineByLine
<1>4. Loaded'
  BY <1>1, TableStep DEF LineByLine, Loaded
<1>5. Answered' /\ ServerStays'
  BY <1>1 DEF LineByLine, Answered, ServerStays
<1> QED BY <1>2, <1>3, <1>4, <1>5 DEF LineByLine

(* What s5admin makes of the lines in in_buff, as long as the administrator   *)
(* waits for each answer or each of its lines arrives whole: four parts that *)
(* need one another.                                                         *)
THEOREM LineByLineAlways == Spec => []LineByLine
<1>1. Init => LineByLine
  <2> SUFFICES ASSUME Init PROVE LineByLine
    OBVIOUS
  <2>1. ServerStays
    BY DEF Init, ServerStays
  <2> QED BY <2>1, InitInOrder, InitOneLine, InitLoaded, InitAnswered DEF LineByLine
<1>2. Inv /\ LineByLine /\ [Next]_vars => LineByLine'
  <2> SUFFICES ASSUME Inv, LineByLine, [Next]_vars PROVE LineByLine'
    OBVIOUS
  <2>1. CASE Next
    BY <2>1, NextInOrder, NextOneLine, NextLoaded, NextAnswered, NextStays DEF LineByLine
  <2>2. CASE UNCHANGED vars
    BY <2>2, StutterLineByLine
  <2> QED BY <2>1, <2>2
<1> QED BY <1>1, <1>2, InvAlways, PTL DEF Spec

(* No command makes the server abort, and no signal kills it, unless a line  *)
(* is longer than in_buff, a segment begins with a blank, the administrator  *)
(* leaves before it has read its answers, or lines are sent ahead of the     *)
(* answers in pieces.                                                        *)
THEOREM TheServerStays == Spec => []ServerStays
<1>1. LineByLine => ServerStays
  BY DEF LineByLine
<1> QED BY <1>1, LineByLineAlways, PTL

-----------------------------------------------------------------------------
(* When the administrator has read all answers none is on its way. *)
LEMMA AllRead ==
  ASSUME Inv, csock = "open", got = answers
  PROVE  s2c = << >> /\ w_out = 0
<1>1. PICK S : TextOver(S)
  BY DEF Inv, Texts
<1> DEFINE p == Waiting(mem)
           o == InCap + w_out
           h == got \o s2c
<1>2. /\ mem \in Seq(S) /\ InCap \in Nat /\ o \in Nat /\ InCap <= o /\ o <= Len(mem) /\ o - InCap = w_out /\ w_out \in Nat
  BY <1>1, CapAssumption DEF TextOver, Inv, Bounds, Whole
<1>3. got \in Seq(S) /\ s2c \in Seq(S) /\ Len(got) \in Nat /\ Len(s2c) \in Nat
  BY <1>1, LenProperties DEF TextOver
<1>4. p \in Seq(S) /\ Len(p) = w_out
  <2> HIDE DEF o
  <2>1. Cells(mem, InCap, o) \in Seq(S) /\ IsPart(Cells(mem, InCap, o), mem, InCap, o - InCap)
    BY <1>2, CellsAre
  <2> QED BY <1>2, <2>1 DEF Waiting, o, IsPart
<1> HIDE DEF p
<1>5. h \in Seq(S) /\ Len(h) = Len(got) + Len(s2c)
  BY <1>3, ConcatProperties
<1> HIDE DEF h
<1>6. Len(h \o p) = Len(h) + Len(p)
  BY <1>4, <1>5, ConcatProperties
<1>7. Len(h \o p) = Len(got)
  <2>1. h \o p = got
    BY DEF Inv, Delivered, h, p
  <2> QED BY <2>1
<1>8. Len(s2c) = 0 /\ w_out = 0
  BY <1>2, <1>3, <1>4, <1>5, <1>6, <1>7
<1> QED BY <1>3, <1>8, EmptySeq

(* Nothing has arrived that is not taken. *)
LEMMA NothingUntaken ==
  ASSUME Inv, w_in = 0
  PROVE  Untaken(mem, r_in, w_in) = << >>
<1>1. r_in = 0
  BY DEF Inv, Bounds
<1>2. Cells(mem, 0, 0) = << >>
  BY SubSeqEmpty DEF Cells
<1> QED BY <1>1, <1>2 DEF Untaken

(* As long as everything travels in one piece admin_client and the server    *)
(* take turns: there is a command on its way, or an answer in out_buff, or   *)
(* one in the socket, and none of them when it prompts.                      *)
Turn ==
  /\ "batch" \notin rough /\ "long" \notin rough
  /\ Len(c2s) < InCap
  /\ c2s # << >> => got = answers
  /\ s2c = << >> \/ w_out = 0
  /\ prog = "prompt" => got = answers /\ c2s = << >>
TakesTurns ==
  srv = "up" /\ csock = "open" /\ prog # "none" /\ rough \cap {"split", "partial"} = {} => Turn

(* A turn begins with nothing on its way. *)
LEMMA PromptIsQuiet ==
  ASSUME Inv, InOrder, OneLine, Turn, srv = "up", csock = "open", prog = "prompt", "split" \notin rough
  PROVE  Quiet /\ consumed = sent /\ s2c = << >> /\ w_out = 0
<1>1. PICK S : TextOver(S)
  BY DEF Inv, Texts
<1>2. got = answers /\ c2s = << >> /\ w_in = 0
  BY DEF Turn, OneLine
<1>3. s2c = << >> /\ w_out = 0
  BY <1>2, AllRead
<1>4. unsent = << >> /\ Makes(consumed, Untaken(mem, r_in, w_in) \o c2s, sent)
  BY DEF Turn, InOrder
<1>5. << >> \o << >> = << >>
  BY EmptySeq, ConcatEmptySeq
<1>6. Untaken(mem, r_in, w_in) \o c2s = << >>
  BY <1>2, <1>5, NothingUntaken
<1>7. consumed = sent
  <2>1. consumed \o << >> = consumed
    BY <1>1, ConcatEmptySeq DEF TextOver
  <2> QED BY <1>4, <1>6, <2>1 DEF Makes
<1>8. c2s \o unsent \o s2c = << >>
  BY <1>2, <1>3, <1>4, <1>5
<1> QED BY <1>2, <1>3, <1>7, <1>8 DEF Quiet

LEMMA KeepsTurn ==
  ASSUME TakesTurns, srv' = "up" => srv = "up", csock' = "open" => csock = "open",
         UNCHANGED <<prog, c2s, got, answers, s2c, w_out, rough>>
  PROVE  TakesTurns'
BY DEF TakesTurns, Turn

(* admin_client sends a command. *)
LEMMA SendsInTurn ==
  ASSUME Inv, InOrder, OneLine, TakesTurns, ClientSends
  PROVE  TakesTurns'
<1> SUFFICES ASSUME srv' = "up", csock' = "open", prog' # "none", rough' \cap {"split", "partial"} = {}
             PROVE  Turn'
  BY DEF TakesTurns
<1>1. PICK S : TextOver(S)
  BY DEF Inv, Texts
<1>2. /\ csock = "open" /\ srv = "up" /\ prog = "prompt" /\ prog' = "wait"
      /\ UNCHANGED <<answers, w_out, s2c, got>>
  BY DEF ClientSends, server, outbuf, history
<1> DEFINE Sends(l, k) == /\ Passes(l)
                          /\ c2s' = c2s \o Take(l, k)
                          /\ rough' = Notes(l, k)
<1>3. PICK l \in Lines : \E k \in 1..Len(l) : Sends(l, k)
  BY <1>2 DEF ClientSends
<1>4. PICK k \in 1..Len(l) : Sends(l, k)
  BY <1>3
<1>5. l \in Seq(S) /\ Len(l) \in Nat /\ InCap \in Nat /\ Len(l) < InCap
  <2>1. Alphabet(S)
    BY <1>1 DEF TextOver
  <2> QED BY <1>4, <2>1, StringText, LenProperties, CapAssumption DEF Passes
<1>6. rough \subseteq rough' /\ ~(k < Len(l))
  BY <1>4 DEF Notes
<1>7. Turn /\ "split" \notin rough
  BY <1>2, <1>6 DEF TakesTurns
<1>8. Quiet /\ s2c = << >> /\ got = answers /\ c2s = << >>
  BY <1>2, <1>7, PromptIsQuiet DEF Turn
<1>9. "batch" \notin rough' /\ "long" \notin rough'
  BY <1>4, <1>5, <1>7, <1>8 DEF Notes, Turn
<1>10. Len(c2s') < InCap
  <2> DEFINE a == Take(l, k)
  <2>1. k \in Nat /\ k <= Len(l)
    BY <1>5
  <2>2. a \in Seq(S) /\ Len(a) = k
    BY <1>5, <2>1, TakeIs DEF IsPart
  <2> HIDE DEF a
  <2>3. << >> \o a = a
    BY <2>2, ConcatEmptySeq
  <2>4. c2s' = a
    BY <1>4, <1>8, <2>3 DEF a
  <2> QED BY <1>5, <2>1, <2>2, <2>4
<1> QED BY <1>2, <1>8, <1>9, <1>10 DEF Turn

(* It reads the answer. *)
LEMMA ReadsInTurn ==
  ASSUME Inv, TakesTurns, ProgramReads
  PROVE  TakesTurns'
<1> SUFFICES ASSUME srv' = "up", csock' = "open", prog' # "none", rough' \cap {"split", "partial"} = {}
             PROVE  Turn'
  BY DEF TakesTurns
<1>1. PICK S : TextOver(S)
  BY DEF Inv, Texts
<1>2. /\ csock = "open" /\ prog = "wait" /\ s2c # << >> /\ prog' = "prompt"
      /\ UNCHANGED <<srv, answers, w_out, mem, c2s>>
  BY DEF ProgramReads, server, outbuf, history
<1>3. PICK k \in 1..Len(s2c) :
        /\ s2c' = Drop(s2c, Len(ReadOf(Take(s2c, k))))
        /\ rough' = rough \cup (IF k < Len(s2c) THEN {"partial"} ELSE {})
                          \cup (IF csock' = "closed" /\ ~Quiet' THEN {"gone"} ELSE {})
  BY DEF ProgramReads
<1>4. ~(k < Len(s2c)) /\ rough' = rough
  BY <1>3
<1>5. Turn
  BY <1>2, <1>4 DEF TakesTurns
<1>6. w_out = 0 /\ c2s = << >>
  BY <1>2, <1>5, AllRead DEF Turn
<1>7. s2c \in Seq(S) /\ got \in Seq(S) /\ Len(s2c) \in Nat /\ k = Len(s2c)
  <2>1. s2c \in Seq(S) /\ got \in Seq(S) /\ Len(s2c) \in Nat
    BY <1>1, LenProperties DEF TextOver
  <2> QED BY <1>4, <2>1
<1>8. s2c' = << >>
  <2>1. Take(s2c, k) \in Seq(S) /\ Len(Take(s2c, k)) = k
    BY <1>7, TakeIs DEF IsPart
  <2>2. s2c' = Drop(s2c, k)
    BY <1>3, <2>1 DEF ReadOf
  <2>3. Drop(s2c, k) \in Seq(S) /\ Len(Drop(s2c, k)) = Len(s2c) - k
    <3>1. k \in Nat /\ k <= Len(s2c)
      BY <1>7
    <3> QED BY <1>7, <3>1, DropIs DEF IsPart
  <2>4. Len(Drop(s2c, k)) = 0
    BY <1>7, <2>3
  <2> QED BY <2>2, <2>3, <2>4, EmptySeq
<1>9. got' = answers'
  <2> DEFINE h == got \o s2c
             g == got'
  <2>1. g \in Seq(S) /\ g \o s2c' = h
    BY <1>1, ProgramMoves
  <2>2. h \in Seq(S)
    BY <1>7, ConcatProperties
  <2>3. h \o Waiting(mem) = answers
    BY <1>2 DEF Inv, Delivered
  <2>4. Waiting(mem) = << >>
    <3>1. InCap \in Nat /\ InCap + w_out = InCap
      BY <1>6, CapAssumption
    <3>2. Cells(mem, InCap, InCap) = << >>
      BY <3>1, SubSeqEmpty DEF Cells
    <3> QED BY <3>1, <3>2 DEF Waiting
  <2> HIDE DEF g, h
  <2>5. g \o << >> = g /\ h \o << >> = h
    BY <2>1, <2>2, ConcatEmptySeq
  <2> QED BY <1>2, <1>8, <2>1, <2>3, <2>4, <2>5 DEF g
<1> QED BY <1>2, <1>4, <1>5, <1>6, <1>8, <1>9 DEF Turn

(* The server's turn. *)
LEMMA ServesInTurn ==
  ASSUME Inv, OneLine, Loaded, TakesTurns, admin_read \/ admin_write
  PROVE  TakesTurns'
<1> SUFFICES ASSUME srv' = "up", csock' = "open", prog' # "none", rough' \cap {"split", "partial"} = {}
             PROVE  Turn'
  BY DEF TakesTurns
<1>1. PICK S : TextOver(S)
  BY DEF Inv, Texts
<1>2. CASE admin_read
  <2>1. interest = "READ" /\ srv = "up"
    BY <1>2 DEF admin_read, Running
  <2>2. CASE Received
    <3>1. PICK n, m, e : Fed(n, m, e) /\ c2s' = Drop(c2s, n) /\ UNCHANGED <<s2c, client>>
      BY <2>1, <2>2, ReadStep DEF ReadOutcome
    <3>2. Turn /\ c2s # << >>
      BY <2>1, <2>2, <3>1 DEF TakesTurns, client, Received
    <3>3. prog # "prompt" /\ w_in = 0 /\ got = answers /\ csock = "open"
      BY <2>1, <3>1, <3>2 DEF Turn, OneLine, client
    <3>4. s2c = << >>
      BY <3>3, AllRead
    <3>5. c2s' = << >>
      <4>1. c2s \in Seq(S) /\ Len(c2s) \in Nat
        BY <1>1, LenProperties DEF TextOver
      <4>2. n \in Nat /\ n = Len(c2s)
        BY <3>1, <3>2, <3>3, <4>1, CapAssumption DEF Fed, Turn
      <4>3. Drop(c2s, n) \in Seq(S) /\ Len(Drop(c2s, n)) = Len(c2s) - n
        BY <4>1, <4>2, DropIs DEF IsPart
      <4>4. Len(Drop(c2s, n)) = 0
        BY <4>1, <4>2, <4>3
      <4> QED BY <3>1, <4>3, <4>4, EmptySeq
    <3>6. prog' # "prompt" /\ rough' = rough /\ s2c' = << >>
      BY <3>1, <3>3, <3>4 DEF client
    <3>7. Len(c2s') < InCap
      BY <3>5, CapAssumption
    <3> QED BY <3>2, <3>5, <3>6, <3>7 DEF Turn
  <2>3. CASE admin_close
    <3>1. UNCHANGED <<srv, csock, prog, c2s, got, answers, s2c, w_out, rough>>
      BY <2>3 DEF admin_close, wire, client, history, outbuf
    <3> QED BY <3>1 DEF TakesTurns, Turn
  <2> QED BY <1>2, <2>2, <2>3 DEF admin_read
<1>3. CASE admin_write
  <2>1. /\ srv = "up" /\ interest = "WRITE" /\ UNCHANGED <<c2s, got, prog, answers>>
        /\ UNCHANGED <<conn, inbuf, config, c2s, unsent, prog, asked, got, sent, history, table>>
    BY <1>3 DEF admin_write, Running, history
  <2>2. w_out >= 1
    BY <2>1 DEF Loaded
  <2>3. CASE Sent(Least(Len(Pending), SockCap - Len(s2c)))
    <3> DEFINE n == Least(Len(Pending), SockCap - Len(s2c))
    <3>1. /\ Len(Pending) = w_out /\ n \in 1..w_out /\ w_out' = w_out - n
      BY <2>1, <2>3, SendStep
    <3>2. csock = "open" /\ rough' = IF n < Len(Pending) THEN rough \cup {"partial"} ELSE rough
      BY <2>3 DEF Sent
    <3> HIDE DEF n
    <3>3. rough' = rough /\ ~(n < Len(Pending))
      BY <3>2
    <3>4. Turn
      BY <2>1, <3>2, <3>3 DEF TakesTurns
    <3>5. w_out \in Nat
      BY DEF Inv, Bounds
    <3>6. got # answers
      <4>1. w_out # 0
        BY <2>2, <3>5
      <4> QED BY <3>2, <4>1, AllRead
    <3>7. w_out' = 0
      BY <3>1, <3>3, <3>5
    <3> QED BY <2>1, <3>3, <3>4, <3>6, <3>7 DEF Turn
  <2>4. ~SentInVain /\ ~SendError
    BY DEF SentInVain, SendError
  <2> QED BY <1>3, <2>3, <2>4 DEF admin_write
<1> QED BY <1>2, <1>3

LEMMA NextInTurn ==
  ASSUME Inv, InOrder, OneLine, Loaded, TakesTurns, Next
  PROVE  TakesTurns'
<1>1. CASE admin_read \/ admin_write
  BY <1>1, ServesInTurn
<1>2. CASE ClientSends
  BY <1>2, SendsInTurn
<1>3. CASE RestArrives
  <2>1. unsent # << >> /\ UNCHANGED <<srv, csock, prog, rough>>
    BY <1>3 DEF RestArrives, server, client
  <2> QED BY <2>1 DEF InOrder, TakesTurns, Turn
<1>4. CASE ProgramReads
  BY <1>4, ReadsInTurn
<1>5. CASE ClientReads \/ ProgramEnds \/ ClientLeaves
  <2>1. csock' # "open" \/ prog' = "none"
    BY <1>5 DEF ClientReads, ProgramEnds, ClientLeaves
  <2> QED BY <2>1 DEF TakesTurns
<1>6. CASE ServerStops
  BY <1>6 DEF ServerStops, TakesTurns
<1>7. CASE Others
  BY <1>7, KeepsTurn DEF Others, outbuf, wire, client, history
<1> QED BY <1>1, <1>2, <1>3, <1>4, <1>5, <1>6, <1>7 DEF Next

LEMMA InitInTurn ==
  ASSUME Init
  PROVE  TakesTurns
<1>1. Len(<< >>) < InCap
  BY CapAssumption
<1> QED BY <1>1 DEF Init, TakesTurns, Turn

(* The invariant of admin_client and its server. *)
THEOREM TurnsAlways == Spec => []TakesTurns
<1>1. Init => TakesTurns
  BY InitInTurn
<1>2. Inv /\ LineByLine /\ TakesTurns /\ [Next]_vars => TakesTurns'
  <2> SUFFICES ASSUME Inv, LineByLine, TakesTurns, [Next]_vars PROVE TakesTurns'
    OBVIOUS
  <2>1. CASE Next
    BY <2>1, NextInTurn DEF LineByLine
  <2>2. CASE UNCHANGED vars
    BY <2>2, KeepsTurn DEF vars, outbuf, wire, client, history
  <2> QED BY <2>1, <2>2
<1> QED BY <1>1, <1>2, InvAlways, LineByLineAlways, PTL DEF Spec

(* When admin_client prompts for the next command, after a single read(), it *)
(* has shown the whole answer to the last one and nothing else, if every     *)
(* command and every answer travels in one piece.                            *)
THEOREM AnswersAreShown == Spec => []ShownInFull
<1>1. Inv /\ LineByLine /\ TakesTurns => ShownInFull
  <2> SUFFICES ASSUME Inv, LineByLine, TakesTurns,
                      Running, csock = "open", prog = "prompt", rough \cap {"split", "partial"} = {}
               PROVE  got = answers /\ consumed = sent
    BY DEF ShownInFull
  <2>1. Turn /\ srv = "up" /\ "split" \notin rough
    BY DEF TakesTurns, Running
  <2>2. InOrder /\ OneLine
    BY DEF LineByLine
  <2> QED BY <2>1, <2>2, PromptIsQuiet DEF Turn
<1> QED BY <1>1, InvAlways, LineByLineAlways, TurnsAlways, PTL
=============================================================================
