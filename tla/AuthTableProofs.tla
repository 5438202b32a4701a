-------------------------- MODULE AuthTableProofs ---------------------------
(* The table of users implements Credentials, whatever the hash function    *)
(* and the number of buckets.                                               *)
EXTENDS AuthTable, TLAPS

AuthInv == TableOK /\ ChainsWellFormed

Prepended(chain, n, p) == <<[name |-> n, pass |-> p]>> \o chain

-----------------------------------------------------------------------------
(* Chains. *)

(* The elements of a chain with a new head. *)
LEMMA PrependedElements ==
  ASSUME NEW chain \in Seq(Entry), NEW n \in Names, NEW p \in Passwords
  PROVE  LET c == Prepended(chain, n, p) IN
         /\ c \in Seq(Entry) /\ Len(c) = Len(chain) + 1
         /\ c[1] = [name |-> n, pass |-> p]
         /\ \A i \in 2..Len(c) : c[i] = chain[i - 1]
  BY DEF Prepended, Entry

(* The elements of a chain without its i-th. *)
LEMMA UnlinkedElements ==
  ASSUME NEW chain \in Seq(Entry), NEW i \in 1..Len(chain)
  PROVE  LET c == Unlinked(chain, i) IN
         /\ c \in Seq(Entry) /\ Len(c) = Len(chain) - 1
         /\ \A j \in 1..Len(c) : c[j] = IF j < i THEN chain[j] ELSE chain[j + 1]
<1> DEFINE a == SubSeq(chain, 1, i - 1)
           z == SubSeq(chain, i + 1, Len(chain))
<1>1. a \in Seq(Entry) /\ Len(a) = i - 1 /\ \A j \in 1..(i - 1) : a[j] = chain[j]
  OBVIOUS
<1>2. z \in Seq(Entry) /\ Len(z) = Len(chain) - i /\ \A j \in 1..(Len(chain) - i) : z[j] = chain[i + j]
  OBVIOUS
<1> HIDE DEF a, z
<1>3. a \o z \in Seq(Entry) /\ Len(a \o z) = Len(chain) - 1
  <2>1. a \o z \in Seq(Entry) /\ Len(a \o z) = Len(a) + Len(z)
    <3>1. a \in Seq(Entry) /\ z \in Seq(Entry)
      BY <1>1, <1>2
    <3> QED  BY <3>1
  <2>2. Len(chain) \in Nat /\ i \in Int
    OBVIOUS
  <2> QED  BY <1>1, <1>2, <2>1, <2>2
<1>4. ASSUME NEW j \in 1..(Len(chain) - 1)
      PROVE  (a \o z)[j] = IF j < i THEN chain[j] ELSE chain[j + 1]
  <2>1. (a \o z)[j] = IF j <= Len(a) THEN a[j] ELSE z[j - Len(a)]
    BY <1>1, <1>2, <1>4
  <2>2. CASE j < i
    BY <1>1, <2>1, <2>2
  <2>3. CASE ~(j < i)
    <3>1. j - Len(a) \in 1..(Len(chain) - i) /\ ~(j <= Len(a))
      BY <1>1, <2>3
    <3>2. z[j - Len(a)] = chain[j + 1]
      BY <1>1, <1>2, <3>1
    <3> QED  BY <2>1, <2>3, <3>1, <3>2
  <2> QED  BY <2>2, <2>3
<1> QED  BY <1>3, <1>4 DEF Unlinked, a, z

(* The password of a name that is in a well-formed chain, and of one that is *)
(* not.                                                                      *)
LEMMA PasswordFound ==
  ASSUME NEW chain \in Seq(Entry), NEW b, WellFormed(chain, b), NEW i \in 1..Len(chain)
  PROVE  PasswordIn(chain, chain[i].name) = chain[i].pass
<1>1. Find(chain, chain[i].name) = {i}
  BY DEF Find, WellFormed
<1>2. First({i}) = i
  BY DEF First
<1> QED  BY <1>1, <1>2 DEF PasswordIn

(* A user that is not in the chain has no password. *)
LEMMA PasswordMissing ==
  ASSUME NEW chain, NEW n, \A i \in 1..Len(chain) : chain[i].name # n
  PROVE  PasswordIn(chain, n) = None
  BY DEF PasswordIn, Find

(* A user is found or has no password. *)
LEMMA PasswordCases ==
  ASSUME NEW chain \in Seq(Entry), NEW b, WellFormed(chain, b), NEW n \in Names
  PROVE  /\ Find(chain, n) = {} => PasswordIn(chain, n) = None
         /\ Find(chain, n) # {} => PasswordIn(chain, n) \in Passwords /\ PasswordIn(chain, n) # None
<1>1. Find(chain, n) = {} => PasswordIn(chain, n) = None
  BY DEF PasswordIn
<1>2. ASSUME Find(chain, n) # {}
      PROVE  PasswordIn(chain, n) \in Passwords /\ PasswordIn(chain, n) # None
  <2>1. PICK i \in 1..Len(chain) : chain[i].name = n
    BY <1>2 DEF Find
  <2>2. chain[i] \in Entry
    OBVIOUS
  <2>3. chain[i].pass \in Passwords
    BY <2>2 DEF Entry
  <2> QED  BY <2>1, <2>3, PasswordFound, PasswordsAssumption
<1> QED  BY <1>1, <1>2

(* A new head changes the password of its name only. *)
LEMMA AddToChain ==
  ASSUME NEW chain \in Seq(Entry), NEW b, WellFormed(chain, b),
         NEW n \in Names, NEW p \in Passwords, hash(n) = b, Find(chain, n) = {}
  PROVE  LET c == Prepended(chain, n, p) IN
         /\ c \in Seq(Entry) /\ WellFormed(c, b)
         /\ PasswordIn(c, n) = p
         /\ \A m \in Names \ {n} : PasswordIn(c, m) = PasswordIn(chain, m)
<1> DEFINE c == Prepended(chain, n, p)
<1>1. /\ c \in Seq(Entry) /\ Len(c) = Len(chain) + 1
      /\ c[1] = [name |-> n, pass |-> p]
      /\ \A i \in 2..Len(c) : c[i] = chain[i - 1]
  BY PrependedElements
<1> HIDE DEF c
<1>2. \A i \in 1..Len(chain) : chain[i].name # n
  BY DEF Find
<1>3. WellFormed(c, b)
  <2> SUFFICES ASSUME NEW i \in 1..Len(c), NEW j \in 1..Len(c)
               PROVE  hash(c[i].name) = b /\ (c[i].name = c[j].name => i = j)
    BY DEF WellFormed
  <2>1. CASE i = 1 /\ j = 1
    BY <1>1, <2>1
  <2>2. CASE i = 1 /\ j # 1
    <3>1. j \in 2..Len(c) /\ j - 1 \in 1..Len(chain)
      BY <1>1, <2>2
    <3> QED  BY <1>1, <1>2, <2>2, <3>1
  <2>3. CASE i # 1 /\ j = 1
    <3>1. i \in 2..Len(c) /\ i - 1 \in 1..Len(chain)
      BY <1>1, <2>3
    <3>2. c[i] = chain[i - 1]
      BY <1>1, <3>1
    <3>3. hash(chain[i - 1].name) = b /\ chain[i - 1].name # n
      BY <1>2, <3>1 DEF WellFormed
    <3> QED  BY <1>1, <2>3, <3>2, <3>3
  <2>4. CASE i # 1 /\ j # 1
    <3>1. i \in 2..Len(c) /\ i - 1 \in 1..Len(chain) /\ j \in 2..Len(c) /\ j - 1 \in 1..Len(chain)
      BY <1>1, <2>4
    <3>2. c[i] = chain[i - 1] /\ c[j] = chain[j - 1]
      BY <1>1, <3>1
    <3>3. hash(chain[i - 1].name) = b /\ (chain[i - 1].name = chain[j - 1].name => i - 1 = j - 1)
      BY <3>1 DEF WellFormed
    <3> QED  BY <3>2, <3>3
  <2> QED  BY <2>1, <2>2, <2>3, <2>4
<1>a. c \in Seq(Entry)
  BY <1>1
<1>4. PasswordIn(c, n) = p
  <2>1. 1 \in 1..Len(c) /\ c[1].name = n /\ c[1].pass = p
    BY <1>1
  <2>2. PasswordIn(c, c[1].name) = c[1].pass
    BY <1>a, <1>3, <2>1, PasswordFound
  <2> QED  BY <2>1, <2>2
<1>5. ASSUME NEW m \in Names \ {n}
      PROVE  PasswordIn(c, m) = PasswordIn(chain, m)
  <2>1. CASE \E i \in 1..Len(chain) : chain[i].name = m
    <3>1. PICK i \in 1..Len(chain) : chain[i].name = m
      BY <2>1
    <3>2. i + 1 \in 1..Len(c) /\ c[i + 1] = chain[i]
      BY <1>1
    <3>3. PasswordIn(chain, chain[i].name) = chain[i].pass
      BY PasswordFound
    <3>4. PasswordIn(c, c[i + 1].name) = c[i + 1].pass
      BY <1>a, <1>3, <3>2, PasswordFound
    <3> QED  BY <3>1, <3>2, <3>3, <3>4
  <2>2. CASE \A i \in 1..Len(chain) : chain[i].name # m
    <3>1. ASSUME NEW i \in 1..Len(c) PROVE c[i].name # m
      <4>1. CASE i = 1
        BY <1>1, <4>1
      <4>2. CASE i # 1
        <5>1. i \in 2..Len(c) /\ i - 1 \in 1..Len(chain)
          BY <1>1, <4>2
        <5> QED  BY <1>1, <2>2, <5>1
      <4> QED  BY <4>1, <4>2
    <3> QED  BY <2>2, <3>1, PasswordMissing
  <2> QED  BY <2>1, <2>2
<1> QED  BY <1>1, <1>3, <1>4, <1>5 DEF c

(* Taking an entry out changes the password of its name only. *)
LEMMA RemoveFromChain ==
  ASSUME NEW chain \in Seq(Entry), NEW b, WellFormed(chain, b), NEW k \in 1..Len(chain)
  PROVE  LET c == Unlinked(chain, k) IN
         /\ c \in Seq(Entry) /\ WellFormed(c, b)
         /\ PasswordIn(c, chain[k].name) = None
         /\ \A m \in Names \ {chain[k].name} : PasswordIn(c, m) = PasswordIn(chain, m)
<1> DEFINE c == Unlinked(chain, k)
           Old(j) == IF j < k THEN j ELSE j + 1
<1>1. /\ c \in Seq(Entry) /\ Len(c) = Len(chain) - 1
      /\ \A j \in 1..Len(c) : c[j] = IF j < k THEN chain[j] ELSE chain[j + 1]
  BY UnlinkedElements
<1> HIDE DEF c
<1>2. \A j \in 1..Len(c) : Old(j) \in 1..Len(chain) /\ Old(j) # k /\ c[j] = chain[Old(j)]
  BY <1>1
<1>3. \A i, j \in 1..Len(c) : Old(i) = Old(j) => i = j
  BY <1>1
<1>4. \A i \in 1..Len(chain) : i # k => \E j \in 1..Len(c) : Old(j) = i
  <2> SUFFICES ASSUME NEW i \in 1..Len(chain), i # k PROVE \E j \in 1..Len(c) : Old(j) = i
    OBVIOUS
  <2>1. CASE i < k
    <3>1. i \in 1..Len(c) /\ Old(i) = i
      BY <1>1, <2>1
    <3> QED  BY <3>1
  <2>2. CASE i > k
    <3>1. i - 1 \in 1..Len(c) /\ Old(i - 1) = i
      BY <1>1, <2>2
    <3> QED  BY <3>1
  <2> QED  BY <2>1, <2>2
<1> HIDE DEF Old
<1>a. c \in Seq(Entry)
  BY <1>1
<1>5. WellFormed(c, b)
  BY <1>2, <1>3 DEF WellFormed
<1>6. PasswordIn(c, chain[k].name) = None
  <2>1. \A j \in 1..Len(c) : c[j].name # chain[k].name
    BY <1>2 DEF WellFormed
  <2> QED  BY <2>1, PasswordMissing
<1>7. ASSUME NEW m \in Names \ {chain[k].name}
      PROVE  PasswordIn(c, m) = PasswordIn(chain, m)
  <2>1. CASE \E i \in 1..Len(chain) : chain[i].name = m
    <3>1. PICK i \in 1..Len(chain) : chain[i].name = m
      BY <2>1
    <3>2. PICK j \in 1..Len(c) : Old(j) = i
      BY <1>4, <1>7, <3>1
    <3>3. c[j] = chain[i]
      BY <1>2, <3>2
    <3>4. PasswordIn(chain, chain[i].name) = chain[i].pass
      BY PasswordFound
    <3>5. PasswordIn(c, c[j].name) = c[j].pass
      BY <1>a, <1>5, PasswordFound
    <3> QED  BY <3>1, <3>3, <3>4, <3>5
  <2>2. CASE \A i \in 1..Len(chain) : chain[i].name # m
    <3>1. \A j \in 1..Len(c) : c[j].name # m
      BY <1>2, <2>2
    <3> QED  BY <2>2, <3>1, PasswordMissing
  <2> QED  BY <2>1, <2>2
<1> QED  BY <1>1, <1>5, <1>6, <1>7 DEF c

-----------------------------------------------------------------------------
(* The table. *)

(* The chains are empty at first. *)
LEMMA InvInit == auth_init => AuthInv
<1> SUFFICES ASSUME auth_init PROVE AuthInv
  OBVIOUS
<1>1. << >> \in Seq(Entry) /\ Len(<< >>) = 0
  OBVIOUS
<1>2. \A b \in Buckets : hashmap[b] = << >>
  BY DEF auth_init
<1>3. TableOK
  BY <1>1 DEF auth_init, TableOK
<1>4. ChainsWellFormed
  BY <1>1, <1>2 DEF ChainsWellFormed, WellFormed
<1> QED  BY <1>3, <1>4 DEF AuthInv

(* The first entry of a name is one of its entries. *)
LEMMA FirstIsIn ==
  ASSUME NEW chain \in Seq(Entry), NEW b, WellFormed(chain, b), NEW n, Find(chain, n) # {}
  PROVE  /\ First(Find(chain, n)) \in 1..Len(chain)
         /\ chain[First(Find(chain, n))].name = n
<1>1. PICK i \in 1..Len(chain) : chain[i].name = n
  BY DEF Find
<1>2. Find(chain, n) = {i}
  BY <1>1 DEF Find, WellFormed
<1>3. First({i}) = i
  BY DEF First
<1> QED  BY <1>1, <1>2, <1>3

(* What a changed chain does to the users. *)
LEMMA OneChain ==
  ASSUME NEW n \in Names, NEW q,
         \A b \in Buckets : b # hash(n) => hashmap'[b] = hashmap[b],
         PasswordIn(hashmap'[hash(n)], n) = q,
         \A m \in Names \ {n} : PasswordIn(hashmap'[hash(n)], m) = PasswordIn(hashmap[hash(n)], m)
  PROVE  \A m \in Names : PasswordOf(m)' = IF m = n THEN q ELSE PasswordOf(m)
<1> SUFFICES ASSUME NEW m \in Names
             PROVE  PasswordOf(m)' = IF m = n THEN q ELSE PasswordOf(m)
  OBVIOUS
<1>1. CASE hash(m) = hash(n)
  BY <1>1 DEF PasswordOf
<1>2. CASE hash(m) # hash(n)
  BY <1>2, HashAssumption DEF PasswordOf
<1> QED  BY <1>1, <1>2

(* Every operation keeps the chains in order and is one of Credentials. *)
LEMMA AddStep ==
  ASSUME AuthInv, NEW n \in Names, NEW p \in Passwords, auth_add_user(n, p)
  PROVE  AuthInv' /\ Users!Add(n, p)
<1> DEFINE chain == hashmap[hash(n)]
<1>1. hash(n) \in Buckets /\ chain \in Seq(Entry) /\ WellFormed(chain, hash(n))
  BY HashAssumption DEF AuthInv, TableOK, ChainsWellFormed
<1>2. CASE ~Has(n) /\ hashmap' = [hashmap EXCEPT ![hash(n)] = Prepended(chain, n, p)]
           /\ answer' = <<"add", TRUE>>
  <2> DEFINE c == Prepended(chain, n, p)
  <2>1. Find(chain, n) = {}
    BY <1>2 DEF Has
  <2> HIDE DEF chain
  <2>2. /\ c \in Seq(Entry) /\ WellFormed(c, hash(n))
        /\ PasswordIn(c, n) = p
        /\ \A m \in Names \ {n} : PasswordIn(c, m) = PasswordIn(chain, m)
    BY <1>1, <2>1, AddToChain
  <2> HIDE DEF c
  <2>3. hashmap' = [hashmap EXCEPT ![hash(n)] = c]
    BY <1>2 DEF c
  <2>4. TableOK'
    BY <1>1, <1>2, <2>2, <2>3 DEF AuthInv, TableOK
  <2>5. ChainsWellFormed'
    BY <1>1, <2>2, <2>3 DEF AuthInv, TableOK, ChainsWellFormed
  <2>6. PasswordOf(n) = None
    BY <1>1, <2>1, PasswordCases DEF PasswordOf, chain
  <2>7. [m \in Names |-> PasswordOf(m)]' = [[m \in Names |-> PasswordOf(m)] EXCEPT ![n] = p]
    <3>1. /\ hashmap'[hash(n)] = c
          /\ \A b \in Buckets : b # hash(n) => hashmap'[b] = hashmap[b]
      BY <1>1, <2>3 DEF AuthInv, TableOK
    <3>2. /\ PasswordIn(hashmap'[hash(n)], n) = p
          /\ \A m \in Names \ {n} : PasswordIn(hashmap'[hash(n)], m) = PasswordIn(hashmap[hash(n)], m)
      BY <2>2, <3>1 DEF chain
    <3>3. \A m \in Names : PasswordOf(m)' = IF m = n THEN p ELSE PasswordOf(m)
      BY <3>1, <3>2, OneChain
    <3> QED  BY <3>3
  <2> QED  BY <1>2, <2>4, <2>5, <2>6, <2>7 DEF AuthInv, Users!Add, Users!None, None
<1>3. CASE answer' = <<"add", FALSE>> /\ UNCHANGED hashmap
  <2>1. TableOK' /\ ChainsWellFormed'
    BY <1>3 DEF AuthInv, TableOK, ChainsWellFormed
  <2>2. [m \in Names |-> PasswordOf(m)]' = [m \in Names |-> PasswordOf(m)]
    BY <1>3 DEF PasswordOf
  <2> QED  BY <1>3, <2>1, <2>2 DEF AuthInv, Users!Add
<1> QED  BY <1>2, <1>3 DEF auth_add_user, Prepended

(* A removal takes one entry out of one chain, or finds none. *)
LEMMA RemoveStep ==
  ASSUME AuthInv, NEW n \in Names, auth_remove_user(n)
  PROVE  AuthInv' /\ Users!Remove(n)
<1> DEFINE chain == hashmap[hash(n)]
           users == [m \in Names |-> PasswordOf(m)]
<1>1. hash(n) \in Buckets /\ chain \in Seq(Entry) /\ WellFormed(chain, hash(n))
  BY HashAssumption DEF AuthInv, TableOK, ChainsWellFormed
<1>2. CASE Has(n) /\ answer' = <<"remove", TRUE>>
           /\ hashmap' = [hashmap EXCEPT ![hash(n)] = Unlinked(chain, First(Find(chain, n)))]
  <2> DEFINE k == First(Find(chain, n))
             c == Unlinked(chain, k)
  <2>1. Find(chain, n) # {}
    BY <1>2 DEF Has
  <2>2. PasswordOf(n) # None
    BY <1>1, <2>1, PasswordCases DEF PasswordOf
  <2>3. hashmap' = [hashmap EXCEPT ![hash(n)] = c]
    BY <1>2
  <2> HIDE DEF chain
  <2>4. k \in 1..Len(chain) /\ chain[k].name = n
    BY <1>1, <2>1, FirstIsIn
  <2> HIDE DEF k
  <2>5. /\ c \in Seq(Entry) /\ WellFormed(c, hash(n))
        /\ PasswordIn(c, n) = None
        /\ \A m \in Names \ {n} : PasswordIn(c, m) = PasswordIn(chain, m)
    BY <1>1, <2>4, RemoveFromChain
  <2> HIDE DEF c
  <2>6. TableOK'
    BY <1>1, <1>2, <2>3, <2>5 DEF AuthInv, TableOK
  <2>7. ChainsWellFormed'
    BY <1>1, <2>3, <2>5 DEF AuthInv, TableOK, ChainsWellFormed
  <2>8. users' = [users EXCEPT ![n] = None]
    <3>1. /\ hashmap'[hash(n)] = c
          /\ \A b \in Buckets : b # hash(n) => hashmap'[b] = hashmap[b]
      BY <1>1, <2>3 DEF AuthInv, TableOK
    <3>2. /\ PasswordIn(hashmap'[hash(n)], n) = None
          /\ \A m \in Names \ {n} : PasswordIn(hashmap'[hash(n)], m) = PasswordIn(hashmap[hash(n)], m)
      BY <2>5, <3>1 DEF chain
    <3>3. \A m \in Names : PasswordOf(m)' = IF m = n THEN None ELSE PasswordOf(m)
      BY <3>1, <3>2, OneChain
    <3> QED  BY <3>3
  <2> QED  BY <1>2, <2>2, <2>6, <2>7, <2>8 DEF AuthInv, Users!Remove, Users!None, None
<1>3. CASE ~Has(n) /\ answer' = <<"remove", FALSE>> /\ UNCHANGED hashmap
  <2>1. TableOK' /\ ChainsWellFormed'
    BY <1>3 DEF AuthInv, TableOK, ChainsWellFormed
  <2>2. users' = users
    BY <1>3 DEF PasswordOf
  <2>3. PasswordOf(n) = None
    BY <1>1, <1>3, PasswordCases DEF Has, PasswordOf
  <2>4. users = [users EXCEPT ![n] = None]
    BY <2>3
  <2> QED  BY <1>3, <2>1, <2>2, <2>3, <2>4 DEF AuthInv, Users!Remove, Users!None, None
<1> QED  BY <1>2, <1>3 DEF auth_remove_user

(* A login changes nothing and is answered as Credentials does. *)
LEMMA CheckStep ==
  ASSUME AuthInv, NEW n \in Names, NEW p \in Passwords, auth_check_credentials(n, p)
  PROVE  AuthInv' /\ Users!Check(n, p)
<1> DEFINE chain == hashmap[hash(n)]
<1>1. hash(n) \in Buckets /\ chain \in Seq(Entry) /\ WellFormed(chain, hash(n))
  BY HashAssumption DEF AuthInv, TableOK, ChainsWellFormed
<1>2. Matches(n, p) \in BOOLEAN
  BY DEF Matches
<1>3. TableOK' /\ ChainsWellFormed'
  BY <1>2 DEF auth_check_credentials, AuthInv, TableOK, ChainsWellFormed
<1>4. [m \in Names |-> PasswordOf(m)]' = [m \in Names |-> PasswordOf(m)]
  BY DEF auth_check_credentials, PasswordOf
<1>5. Matches(n, p) = (PasswordOf(n) = p)
  <2>1. CASE Find(chain, n) = {}
    BY <1>1, <2>1, PasswordCases, PasswordsAssumption DEF Matches, PasswordOf
  <2>2. CASE Find(chain, n) # {}
    <3>1. PICK i \in 1..Len(chain) : chain[i].name = n
      BY <2>2 DEF Find
    <3>2. Find(chain, n) = {i}
      BY <1>1, <3>1 DEF Find, WellFormed
    <3>3. PasswordOf(n) = chain[i].pass
      BY <1>1, <3>1, PasswordFound DEF PasswordOf
    <3> QED  BY <3>2, <3>3 DEF Matches
  <2> QED  BY <2>1, <2>2
<1> QED  BY <1>3, <1>4, <1>5 DEF AuthInv, Users!Check, auth_check_credentials

(* A step of the table is one of these operations. *)
LEMMA AuthStep ==
  ASSUME AuthInv, [AuthNext]_table
  PROVE  AuthInv' /\ [Users!Next]_<<[n \in Names |-> PasswordOf(n)], answer>>
<1>1. CASE UNCHANGED table
  BY <1>1 DEF table, AuthInv, TableOK, ChainsWellFormed, PasswordOf
<1>2. CASE AuthNext
  <2>1. PICK n \in Names : \/ auth_remove_user(n)
                           \/ \E p \in Passwords : \/ auth_add_user(n, p)
                                                   \/ auth_check_credentials(n, p)
    BY <1>2 DEF AuthNext
  <2>2. CASE auth_remove_user(n)
    BY <2>2, RemoveStep DEF Users!Next
  <2>3. CASE \E p \in Passwords : auth_add_user(n, p)
    BY <2>3, AddStep DEF Users!Next
  <2>4. CASE \E p \in Passwords : auth_check_credentials(n, p)
    BY <2>4, CheckStep DEF Users!Next
  <2> QED  BY <2>1, <2>2, <2>3, <2>4
<1> QED  BY <1>1, <1>2

(* auth_table.c: an entry is in the chain of its name and no name is in two  *)
(* entries, after any sequence of additions and removals.                    *)
THEOREM ChainsStayWellFormed == AuthSpec => [](TableOK /\ ChainsWellFormed)
<1>1. AuthInv /\ [AuthNext]_table => AuthInv'
  BY AuthStep
<1>2. AuthInv => TableOK /\ ChainsWellFormed
  BY DEF AuthInv
<1> QED  BY <1>1, <1>2, InvInit, PTL DEF AuthSpec

(* auth_table.c: for every hash function, the chained table is the map of    *)
(* users to passwords: additions, removals and logins are answered as        *)
(* Credentials answers them.                                                 *)
THEOREM TableImplementsCredentials == AuthSpec => CredentialsSpec
<1>1. auth_init => Users!Init
  BY HashAssumption DEF auth_init, Users!Init, PasswordOf, PasswordIn, Find, Users!None, None
<1>2. AuthInv /\ [AuthNext]_table => AuthInv'
  BY AuthStep
<1>3. AuthInv /\ [AuthNext]_table => [Users!Next]_<<[n \in Names |-> PasswordOf(n)], answer>>
  BY AuthStep
<1> QED  BY <1>1, <1>2, <1>3, InvInit, PTL DEF AuthSpec, CredentialsSpec, Users!Spec
=============================================================================
