--------------------------- MODULE ParsersProofs ----------------------------
(* The parsers accept the messages of the grammar, for bytes of any number  *)
(* of values, addresses of any length and messages of any length.           *)
EXTENDS Parsers, SequenceTheorems, TLAPS

(* The inductive invariant: what each state of an automaton says of the     *)
(* bytes it has been fed.  A position in the message is a length of input.  *)

(* Why a parser gives up: what ErrorIsWrong compares it with. *)
IsWrong == UnknownMethod \/ (~Promising(input) /\ ~ZeroLength)

(* Where an automaton stops. *)
Verdict == /\ res = "DONE" <=> state = "DONE"
           /\ res = "ERROR" <=> state = "ERROR"
           /\ state = "ERROR" => IsWrong
           /\ state = "VERSION" => input = << >> /\ p = parser_init

(* The methods so far: fewer than announced, unless none was announced.     *)
HelloAt ==
  /\ state \in {"VERSION", "NMETHODS", "METHODS", "DONE", "ERROR"}
  /\ p.username = << >> /\ p.password = << >> /\ p.dst_addr = << >>
  /\ state = "NMETHODS" => Len(input) = 1 /\ input[1] = 5 /\ p = parser_init
  /\ state \in {"METHODS", "DONE"} =>
       /\ Len(input) >= 2 /\ input[1] = 5
       /\ \A i \in 3..Len(input) : input[i] \in Methods
  /\ state = "METHODS" => /\ p.nmethods = input[2] /\ p.method_count = Len(input) - 2
                          /\ Len(input) = 2 \/ Len(input) < 2 + input[2]
                          /\ HelloSays(input)
  /\ state = "DONE" => \/ input[2] > 0 /\ Len(input) = 2 + input[2] /\ HelloSays(input)
                       \/ /\ input[2] = 0 /\ Len(input) = 3
                          /\ ~p.no_auth /\ ~p.user_pass_auth

(* The length of the name, once it is known. *)
NameAnnounced == Len(input) >= 2 /\ input[1] = 1 /\ input[2] > 0

(* The name is complete and stored. *)
NameRead == /\ NameAnnounced /\ Len(input) >= 2 + input[2]
            /\ p.username = SubSeq(input, 3, 2 + input[2])

PasswordAnnounced == LET pl == 3 + input[2] IN NameRead /\ Len(input) >= pl /\ input[pl] > 0

AuthAt ==
  /\ state \in {"VERSION", "USERNAME_LEN", "USERNAME", "PASSWORD_LEN", "PASSWORD", "DONE", "ERROR"}
  /\ p.dst_addr = << >>
  /\ state = "USERNAME_LEN" => Len(input) = 1 /\ input[1] = 1 /\ p = parser_init
  /\ state = "USERNAME" => /\ NameAnnounced
                           /\ p.username_len = input[2] /\ p.username = SubSeq(input, 3, Len(input))
                           /\ Len(input) < 2 + input[2] /\ p.password = << >>
  /\ state = "PASSWORD_LEN" => NameRead /\ Len(input) = 2 + input[2] /\ p.password = << >>
  /\ state \in {"PASSWORD", "DONE"} =>
       LET pl == 3 + input[2] IN
       /\ PasswordAnnounced
       /\ p.password = SubSeq(input, 1 + pl, Len(input))
       /\ state = "PASSWORD" => p.password_len = input[pl] /\ Len(input) < pl + input[pl]
       /\ state = "DONE" => Len(input) = pl + input[pl]

(* Where the address begins, and how many bytes the parser takes for it: a  *)
(* name of no bytes has one.                                                *)
AddrAt == IF input[4] = DOMAIN_NAME THEN 5 ELSE 4
AddrLen == CASE input[4] = IPV4 -> Ipv4Len [] input[4] = IPV6 -> Ipv6Len [] OTHER -> input[5]
AddrEnd == AddrAt + (IF AddrLen = 0 THEN 1 ELSE AddrLen)

RequestBegun == /\ Len(input) >= 4 /\ input[1] = 5 /\ input[2] \in Commands /\ input[3] = 0
                /\ input[4] \in {IPV4, DOMAIN_NAME, IPV6}
                /\ p.cmd = input[2] /\ p.atyp = input[4]

RequestAt ==
  /\ state \in {"VERSION", "CMD", "RSV", "ATYP", "DOM_LEN", "DST_ADDR", "PORT_BYTE1",
                "PORT_BYTE2", "DONE", "ERROR"}
  /\ p.username = << >> /\ p.password = << >>
  /\ state \in {"CMD", "RSV", "ATYP", "DOM_LEN"} => p.dst_addr = << >>
  /\ state = "CMD" => Len(input) = 1 /\ input[1] = 5
  /\ state = "RSV" => Len(input) = 2 /\ input[1] = 5 /\ input[2] \in Commands /\ p.cmd = input[2]
  /\ state = "ATYP" => /\ Len(input) = 3 /\ input[1] = 5 /\ input[2] \in Commands /\ input[3] = 0
                       /\ p.cmd = input[2]
  /\ state = "DOM_LEN" => RequestBegun /\ Len(input) = 4 /\ input[4] = DOMAIN_NAME
  /\ state \in {"DST_ADDR", "PORT_BYTE1", "PORT_BYTE2", "DONE"} =>
       RequestBegun /\ Len(input) >= AddrAt
  /\ state = "DST_ADDR" => /\ p.dst_addr_len = AddrLen /\ Len(input) < AddrEnd
                           /\ p.dst_addr = SubSeq(input, AddrAt + 1, Len(input))
  /\ state = "PORT_BYTE1" => /\ Len(input) = AddrEnd
                             /\ p.dst_addr = SubSeq(input, AddrAt + 1, AddrEnd)
  /\ state = "PORT_BYTE2" => /\ Len(input) = AddrEnd + 1
                             /\ p.dst_addr = SubSeq(input, AddrAt + 1, AddrEnd)
                             /\ p.dst_port = input[AddrEnd + 1]
  /\ state = "DONE" => /\ Len(input) = AddrEnd + 2
                       /\ p.dst_addr = SubSeq(input, AddrAt + 1, AddrEnd)
                       /\ p.dst_port = input[AddrEnd + 1] * Base + input[AddrEnd + 2]

Position == /\ kind = "hello" => HelloAt
            /\ kind = "auth" => AuthAt
            /\ kind = "req" => RequestAt

IndInv == TypeOK /\ Verdict /\ Position /\ ArraysInBounds

-----------------------------------------------------------------------------
(* The input after a byte. *)

Grows(c) == /\ input \in Seq(Byte) /\ Len(input) \in Nat
            /\ input' \in Seq(Byte) /\ Len(input') = Len(input) + 1
            /\ input'[Len(input) + 1] = c
            /\ \A i \in 1..Len(input) : input'[i] = input[i]

(* A byte that is fed is the last of the input. *)
LEMMA InputGrows ==
  ASSUME NEW c \in Byte, input \in Seq(Byte), input' = Append(input, c)
  PROVE  Grows(c)
  BY AppendProperties, LenProperties DEF Grows

(* What has been cut out of the input stays what it is. *)
LEMMA PartKept ==
  ASSUME NEW c \in Byte, Grows(c), NEW a \in Nat \ {0}, NEW b \in Nat, b <= Len(input)
  PROVE  SubSeq(input', a, b) = SubSeq(input, a, b)
<1>1. /\ \A i \in a..b : input[i] \in Byte /\ input'[i] = input[i]
  BY ElementOfSeq DEF Grows
<1>2. \A i \in a..b : input'[i] \in Byte
  BY <1>1
<1>3. /\ SubSeq(input, a, b) \in Seq(Byte)
      /\ Len(SubSeq(input, a, b)) = IF a <= b THEN b - a + 1 ELSE 0
      /\ \A i \in 1..(b - a + 1) : SubSeq(input, a, b)[i] = input[a + i - 1]
  BY <1>1, SubSeqProperties
<1>4. /\ SubSeq(input', a, b) \in Seq(Byte)
      /\ Len(SubSeq(input', a, b)) = IF a <= b THEN b - a + 1 ELSE 0
      /\ \A i \in 1..(b - a + 1) : SubSeq(input', a, b)[i] = input'[a + i - 1]
  BY <1>2, SubSeqProperties
<1>5. \A i \in 1..Len(SubSeq(input', a, b)) : SubSeq(input', a, b)[i] = SubSeq(input, a, b)[i]
  <2> TAKE i \in 1..Len(SubSeq(input', a, b))
  <2>1. i \in 1..(b - a + 1) /\ a + i - 1 \in a..b
    BY <1>4
  <2> QED BY <1>1, <1>3, <1>4, <2>1
<1> QED BY <1>3, <1>4, <1>5, SeqEqual

(* What ends at the end of the input grows with it. *)
LEMMA PartGrows ==
  ASSUME NEW c \in Byte, Grows(c), NEW a \in Nat \ {0}, a <= Len(input) + 1
  PROVE  /\ SubSeq(input', a, Len(input) + 1) = Append(SubSeq(input, a, Len(input)), c)
         /\ SubSeq(input, a, Len(input)) \in Seq(Byte)
         /\ Len(SubSeq(input, a, Len(input))) = Len(input) + 1 - a
<1> DEFINE n == Len(input)
           u == SubSeq(input, a, n)
           w == SubSeq(input', a, n + 1)
<1>0. n \in Nat /\ a <= n + 1 /\ input'[n + 1] = c /\ \A i \in 1..n : input'[i] = input[i]
  BY DEF Grows
<1>1. \A i \in a..n : input[i] \in Byte
  BY ElementOfSeq DEF Grows
<1>2. \A i \in a..(n + 1) : input'[i] \in Byte
  BY ElementOfSeq DEF Grows
<1> HIDE DEF n
<1>3. /\ u \in Seq(Byte) /\ Len(u) = n + 1 - a
      /\ \A i \in 1..(n - a + 1) : u[i] = input[a + i - 1]
  BY <1>0, <1>1, SubSeqProperties
<1>4. /\ w \in Seq(Byte) /\ Len(w) = n + 2 - a
      /\ \A i \in 1..(n + 2 - a) : w[i] = input'[a + i - 1]
  BY <1>0, <1>2, SubSeqProperties, SMTT(30)
<1> HIDE DEF u, w
<1>5. /\ Append(u, c) \in Seq(Byte) /\ Len(Append(u, c)) = n + 2 - a
      /\ \A i \in 1..(n + 1 - a) : Append(u, c)[i] = u[i]
      /\ Append(u, c)[n + 2 - a] = c
  <2>1. /\ Append(u, c) \in Seq(Byte) /\ Len(Append(u, c)) = Len(u) + 1
        /\ \A i \in 1..Len(u) : Append(u, c)[i] = u[i]
        /\ Append(u, c)[Len(u) + 1] = c
    BY <1>3, AppendProperties
  <2>2. Len(u) + 1 = n + 2 - a
    BY <1>0, <1>3
  <2> QED BY <1>3, <2>1, <2>2
<1>6. ASSUME NEW i \in 1..(n + 2 - a) PROVE w[i] = Append(u, c)[i]
  <2>1. CASE i = n + 2 - a
    <3>1. w[i] = input'[n + 1]
      BY <1>0, <1>4, <2>1
    <3> QED BY <1>0, <1>5, <2>1, <3>1
  <2>2. CASE i # n + 2 - a
    <3>1. i \in 1..(n + 1 - a) /\ i \in 1..(n - a + 1) /\ a + i - 1 \in 1..n
      BY <1>0, <2>2
    <3>2. w[i] = input'[a + i - 1] /\ u[i] = input[a + i - 1]
      BY <1>3, <1>4, <3>1
    <3> QED BY <1>0, <1>5, <3>1, <3>2
  <2> QED BY <2>1, <2>2
<1>7. w = Append(u, c)
  BY <1>4, <1>5, <1>6, SeqEqual
<1> QED BY <1>3, <1>7 DEF u, w, n

(* A counter of one byte that counts to a length of one byte. *)
LEMMA CounterIs ==
  ASSUME NEW n \in Nat, n < Base - 1
  PROVE  Next1(n) = n + 1
  BY BaseAssumption DEF Next1

(* An array is full when the counter, with the byte just stored, has reached *)
(* the announced length.                                                     *)
LEMMA FilledIs ==
  ASSUME NEW n \in Nat, NEW len \in Byte, n < len \/ n = 0
  PROVE  Filled(n, len) <=> n + 1 >= len
<1>1. n < Base - 1
  BY BaseAssumption DEF Byte
<1> QED BY <1>1, CounterIs DEF Filled

(* Two bytes make a number of two bytes. *)
LEMMA PortIs ==
  ASSUME NEW hi \in Byte, NEW lo \in Byte
  PROVE  Port(hi, lo) = hi * Base + lo /\ hi * Base + lo \in 0..(Base * Base - 1)
<1>1. hi \in Nat /\ lo \in Nat /\ Base \in Nat /\ hi + 1 <= Base /\ lo + 1 <= Base
  BY BaseAssumption DEF Byte
<1> DEFINE a == hi * Base
           b == Base * Base
<1>2. (hi + 1) * Base <= Base * Base
  BY <1>1
<1>3. (hi + 1) * Base = hi * Base + Base
  BY <1>1
<1>4. a \in Nat /\ b \in Nat /\ a + Base <= b
  BY <1>1, <1>2, <1>3
<1> HIDE DEF a, b
<1>5. a % b = a
  BY <1>1, <1>4, BaseAssumption
<1>6. a + lo \in 0..(b - 1)
  BY <1>1, <1>4
<1> QED BY <1>5, <1>6 DEF a, b, Port

-----------------------------------------------------------------------------
(* Every field keeps its type. *)

(* The fields before the first byte: parser_init. *)
LEMMA InitialFields ==
  /\ parser_init.username = << >> /\ parser_init.password = << >>
  /\ parser_init.dst_addr = << >> /\ parser_init.method_count = 0
  /\ ~parser_init.no_auth /\ ~parser_init.user_pass_auth
  /\ parser_init \in [nmethods : Byte, method_count : Byte, no_auth : BOOLEAN, user_pass_auth : BOOLEAN,
            username_len : Byte, username : Seq(Byte), password_len : Byte, password : Seq(Byte),
            cmd : Byte, atyp : Byte, dst_addr_len : Byte, dst_addr : Seq(Byte),
            dst_port : 0..(Base * Base - 1)]
<1>1. 0 \in Byte
  BY BaseAssumption DEF Byte
<1>2. 0 \in 0..(Base * Base - 1)
  <2>1. 0 * Base + 0 \in 0..(Base * Base - 1)
    BY <1>1, PortIs
  <2>2. 0 * Base + 0 = 0
    BY BaseAssumption
  <2> QED BY <2>1, <2>2
<1>3. << >> \in Seq(Byte)
  BY EmptySeq
<1> QED BY <1>1, <1>2, <1>3 DEF parser_init

(* A byte fed to handshake_parser leaves fields of the right types. *)
LEMMA HelloType ==
  ASSUME TypeOK, NEW c \in Byte, handshake_parser_feed(c), input' = Append(input, c), UNCHANGED kind
  PROVE  TypeOK'
<1>1. input' \in Seq(Byte)
  BY AppendProperties DEF TypeOK
<1>2. Next1(p.method_count) \in Byte
  <2>1. p.method_count \in Byte
    BY DEF TypeOK
  <2> QED BY <2>1, BaseAssumption DEF Next1, Byte
<1> QED BY <1>1, <1>2, ZenonT(30) DEF TypeOK, handshake_parser_feed, HandshakeMethods, Expect, To, Complete, Fail

(* A byte fed to auth_parser does. *)
LEMMA AuthType ==
  ASSUME TypeOK, NEW c \in Byte, auth_parser_feed(c), input' = Append(input, c), UNCHANGED kind
  PROVE  TypeOK'
<1>1. input' \in Seq(Byte) /\ Append(p.username, c) \in Seq(Byte) /\ Append(p.password, c) \in Seq(Byte)
  BY AppendProperties DEF TypeOK
<1> QED BY <1>1 DEF TypeOK, auth_parser_feed, Expect, To, Complete, Fail

(* A byte fed to conn_req_parser does. *)
LEMMA RequestType ==
  ASSUME TypeOK, RequestAt, NEW c \in Byte, conn_req_parser_feed(c),
         input' = Append(input, c), UNCHANGED kind
  PROVE  TypeOK'
<1>1. input' \in Seq(Byte) /\ Append(p.dst_addr, c) \in Seq(Byte)
  BY AppendProperties DEF TypeOK
<1>2. c \in 0..(Base * Base - 1)
  <2>1. 0 \in Byte /\ Port(0, c) = 0 * Base + c /\ 0 * Base + c \in 0..(Base * Base - 1)
    BY PortIs, BaseAssumption DEF Byte
  <2> QED BY <2>1, BaseAssumption DEF Byte
<1>3. Ipv4Len \in Byte /\ Ipv6Len \in Byte
  BY LenAssumption, BaseAssumption DEF Byte
<1>4. CASE state = "PORT_BYTE2"
  <2>1. p.dst_port \in Byte
    <3>1. AddrEnd + 1 \in 1..Len(input) /\ p.dst_port = input[AddrEnd + 1]
      <4>1. AddrEnd + 1 = Len(input) /\ Len(input) \in Nat /\ Len(input) >= 4
        BY <1>4, LenProperties DEF RequestAt, RequestBegun, TypeOK
      <4> QED BY <1>4, <4>1 DEF RequestAt
    <3> QED BY <3>1, ElementOfSeq DEF TypeOK
  <2>2. Port(p.dst_port, c) \in 0..(Base * Base - 1)
    BY <2>1, PortIs
  <2> QED BY <1>1, <1>4, <2>2 DEF TypeOK, conn_req_parser_feed, Complete
<1>5. CASE state = "PORT_BYTE1"
  BY <1>1, <1>2, <1>5 DEF TypeOK, conn_req_parser_feed, To
<1>6. CASE state \notin {"PORT_BYTE1", "PORT_BYTE2"}
  BY <1>1, <1>3, <1>6, ZenonT(30) DEF TypeOK, conn_req_parser_feed, RequestAddrType, Expect, To, Fail
<1> QED BY <1>4, <1>5, <1>6

-----------------------------------------------------------------------------
(* The automata, byte by byte. *)

(* A byte that is wrong in its field, where no length of zero came before. *)
LEMMA WrongByte ==
  ASSUME NEW n \in Nat, Len(input') = n,
         \/ kind' = "hello" /\ n = 1 /\ input'[1] # 5
         \/ /\ kind' = "auth"
            /\ \/ n = 1 /\ input'[1] # 1
               \/ n = 2 /\ input'[2] = 0
               \/ n > 2 /\ n >= 3 + input'[2] /\ input'[3 + input'[2]] = 0
         \/ /\ kind' = "req"
            /\ \/ n = 1 /\ input'[1] # 5
               \/ n = 2 /\ input'[2] \notin Commands
               \/ n = 3 /\ input'[3] # 0
               \/ n = 4 /\ input'[4] \notin {IPV4, DOMAIN_NAME, IPV6}
  PROVE  IsWrong'
<1>1. ~Promising(input)'
  <2>1. CASE kind' = "hello"
    BY <2>1 DEF Promising
  <2>2. CASE kind' = "auth"
    <3>1. Promising(input)' => /\ Len(input') >= 1 => input'[1] = 1
                               /\ Len(input') >= 2 => input'[2] \in Byte \ {0}
                               /\ Len(input') > 2 /\ Len(input') >= 3 + input'[2] =>
                                    input'[3 + input'[2]] \in Byte \ {0}
      BY <2>2 DEF Promising
    <3> QED BY <2>2, <3>1
  <2>3. CASE kind' = "req"
    BY <2>3 DEF Promising
  <2> QED BY <2>1, <2>2, <2>3
<1>2. ~ZeroLength'
  BY DEF ZeroLength
<1> QED BY <1>1, <1>2 DEF IsWrong

(* A byte of the hello. *)
LEMMA HelloStep ==
  ASSUME IndInv, kind = "hello", res = "MORE", NEW c \in Byte, handshake_parser_feed(c),
         input' = Append(input, c), UNCHANGED kind
  PROVE  Verdict' /\ HelloAt' /\ ArraysInBounds'
<1> DEFINE n == Len(input)
<1>1. Grows(c)
  BY InputGrows DEF IndInv, TypeOK
<1>2. /\ n \in Nat /\ Len(input') = n + 1 /\ input'[n + 1] = c
      /\ \A i \in 1..n : input'[i] = input[i]
  BY <1>1 DEF Grows
<1> HIDE DEF n
<1>3. HelloAt /\ Verdict
  BY DEF IndInv, Position
<1>b. ASSUME HelloAt' PROVE ArraysInBounds'
  BY <1>b, BaseAssumption, EmptySeq DEF ArraysInBounds, HelloAt
<1>4. CASE state = "VERSION"
  <2>1. n = 0 /\ p = parser_init /\ p' = p
    BY <1>3, <1>4, EmptySeq DEF n, Verdict, handshake_parser_feed, Expect, Fail
  <2>2. CASE c = 5
    <3>1. state' = "NMETHODS" /\ res' = "MORE"
      BY <1>4, <2>2 DEF handshake_parser_feed, Expect, To, SOCKS5_VERSION
    <3>2. HelloAt'
      BY <1>2, <2>1, <2>2, <3>1, InitialFields DEF HelloAt
    <3> QED BY <1>b, <3>1, <3>2 DEF Verdict
  <2>3. CASE c # 5
    <3>1. state' = "ERROR" /\ res' = "ERROR"
      BY <1>4, <2>3 DEF handshake_parser_feed, Expect, Fail, SOCKS5_VERSION
    <3>2. HelloAt'
      BY <2>1, <3>1, InitialFields DEF HelloAt
    <3>3. IsWrong'
      BY <1>2, <2>1, <2>3, WrongByte
    <3> QED BY <1>b, <3>1, <3>2, <3>3 DEF Verdict
  <2> QED BY <2>2, <2>3
<1>5. CASE state = "NMETHODS"
  <2>1. n = 1 /\ input[1] = 5 /\ p = parser_init
    BY <1>3, <1>5 DEF n, HelloAt
  <2>2. state' = "METHODS" /\ res' = "MORE" /\ p' = [p EXCEPT !.nmethods = c]
    BY <1>5 DEF handshake_parser_feed, To
  <2>3. /\ p'.nmethods = c /\ p'.method_count = 0 /\ p'.no_auth = FALSE /\ p'.user_pass_auth = FALSE
        /\ p'.username = << >> /\ p'.password = << >> /\ p'.dst_addr = << >>
    BY <2>1, <2>2 DEF parser_init
  <2>4. HelloSays(input)'
    BY <1>2, <2>1, <2>3 DEF HelloSays
  <2>5. HelloAt'
    BY <1>2, <2>1, <2>2, <2>3, <2>4 DEF HelloAt
  <2> QED BY <1>b, <2>2, <2>5 DEF Verdict
<1>6. CASE state = "METHODS"
  <2> DEFINE k == Next1(p.method_count)
  <2>1. /\ n >= 2 /\ input[1] = 5 /\ p.nmethods = input[2] /\ p.method_count = n - 2
        /\ \A i \in 3..n : input[i] \in Methods
        /\ n = 2 \/ n < 2 + input[2]
        /\ p.no_auth <=> \E i \in 3..n : input[i] = NO_AUTH
        /\ p.user_pass_auth <=> \E i \in 3..n : input[i] = USER_PASS
        /\ p.username = << >> /\ p.password = << >> /\ p.dst_addr = << >>
    BY <1>3, <1>6 DEF n, HelloAt, HelloSays
  <2>2. input[2] \in Nat /\ input[2] < Base /\ input'[1] = 5 /\ input'[2] = input[2]
    <3>1. input[2] \in Byte
      BY <1>1, <1>2, <2>1, ElementOfSeq DEF Grows, n
    <3> QED BY <1>2, <2>1, <3>1, BaseAssumption, SMTT(30) DEF Byte
  <2>3. k = n - 1
    <3>1. n - 2 \in Nat /\ n - 2 < Base - 1
      BY <1>2, <2>1, <2>2, BaseAssumption
    <3> QED BY <1>2, <2>1, <3>1, CounterIs
  <2> HIDE DEF k
  <2>4. handshake_parser_feed(c) /\ state = "METHODS" => HandshakeMethods(c)
    BY DEF handshake_parser_feed
  <2>5. CASE c \notin Methods
    <3>1. state' = "ERROR" /\ res' = "ERROR" /\ p' = p
      BY <1>6, <2>4, <2>5 DEF HandshakeMethods, Fail
    <3>2. HelloAt'
      BY <2>1, <3>1 DEF HelloAt
    <3>3. n + 1 \in 3..Len(input')
      BY <1>2, <2>1
    <3>4. IsWrong'
      BY <1>2, <2>5, <3>3 DEF IsWrong, UnknownMethod
    <3> QED BY <1>b, <3>1, <3>2, <3>4 DEF Verdict
  <2>6. ASSUME c \in Methods PROVE \A i \in 3..Len(input') : input'[i] \in Methods
    BY <1>2, <2>1, <2>6
  <2>7. CASE c \in Methods /\ p.nmethods < k
    <3>1. state' = "DONE" /\ res' = "DONE" /\ p' = [p EXCEPT !.method_count = k]
      BY <1>6, <2>4, <2>7 DEF HandshakeMethods, Complete, k
    <3>2. n = 2 /\ input[2] = 0
      BY <1>2, <2>1, <2>2, <2>3, <2>7
    <3>3. /\ p'.no_auth = p.no_auth /\ p'.user_pass_auth = p.user_pass_auth
          /\ p'.username = << >> /\ p'.password = << >> /\ p'.dst_addr = << >>
      BY <2>1, <3>1 DEF IndInv, TypeOK
    <3>4. ~p.no_auth /\ ~p.user_pass_auth
      BY <2>1, <3>2
    <3>5. HelloAt'
      BY <1>2, <2>1, <2>2, <2>6, <2>7, <3>1, <3>2, <3>3, <3>4 DEF HelloAt
    <3> QED BY <1>b, <3>1, <3>5 DEF Verdict
  <2>8. CASE c \in Methods /\ ~(p.nmethods < k)
    <3>1. /\ p' = [p EXCEPT !.method_count = k, !.no_auth = @ \/ c = NO_AUTH,
                            !.user_pass_auth = @ \/ c = USER_PASS]
          /\ IF p.nmethods = k THEN state' = "DONE" /\ res' = "DONE"
                               ELSE state' = "METHODS" /\ res' = "MORE"
      BY <1>6, <2>4, <2>8 DEF HandshakeMethods, Complete, To, k
    <3>2. /\ p'.nmethods = p.nmethods /\ p'.method_count = k
          /\ p'.no_auth <=> p.no_auth \/ c = NO_AUTH
          /\ p'.user_pass_auth <=> p.user_pass_auth \/ c = USER_PASS
          /\ p'.username = << >> /\ p'.password = << >> /\ p'.dst_addr = << >>
      BY <2>1, <3>1 DEF IndInv, TypeOK
    <3>3. HelloSays(input)'
      <4>1. \A x : (\E i \in 3..(n + 1) : input'[i] = x) <=> (\E i \in 3..n : input[i] = x) \/ c = x
        <5> TAKE x
        <5>1. ASSUME NEW i \in 3..(n + 1), input'[i] = x PROVE (\E j \in 3..n : input[j] = x) \/ c = x
          BY <1>2, <2>1, <5>1
        <5>2. ASSUME NEW j \in 3..n, input[j] = x PROVE \E i \in 3..(n + 1) : input'[i] = x
          <6>1. j \in 3..(n + 1) /\ j \in 1..n
            BY <1>2
          <6> QED BY <1>2, <5>2, <6>1
        <5>3. ASSUME c = x PROVE \E i \in 3..(n + 1) : input'[i] = x
          <6>1. n + 1 \in 3..(n + 1)
            BY <1>2, <2>1
          <6> QED BY <1>2, <5>3, <6>1
        <5> QED BY <5>1, <5>2, <5>3
      <4> QED BY <1>2, <2>1, <3>2, <4>1 DEF HelloSays
    <3>4. CASE p.nmethods = k
      <4>1. n + 1 = 2 + input[2] /\ input[2] > 0
        BY <1>2, <2>1, <2>2, <2>3, <3>4
      <4>2. HelloAt'
        BY <1>2, <2>1, <2>2, <2>6, <2>8, <3>1, <3>2, <3>3, <3>4, <4>1 DEF HelloAt
      <4> QED BY <1>b, <3>1, <3>4, <4>2 DEF Verdict
    <3>5. CASE p.nmethods # k
      <4>1. n + 1 < 2 + input[2] /\ k = (n + 1) - 2
        BY <1>2, <2>1, <2>2, <2>3, <2>8, <3>5
      <4>2. HelloAt'
        BY <1>2, <2>1, <2>2, <2>6, <2>8, <3>1, <3>2, <3>3, <3>5, <4>1 DEF HelloAt
      <4> QED BY <1>b, <3>1, <3>5, <4>2 DEF Verdict
    <3> QED BY <3>4, <3>5
  <2> QED BY <2>5, <2>7, <2>8
<1> QED BY <1>4, <1>5, <1>6 DEF handshake_parser_feed

(* A byte of the credentials. *)
LEMMA AuthStep ==
  ASSUME IndInv, kind = "auth", res = "MORE", NEW c \in Byte, auth_parser_feed(c),
         input' = Append(input, c), UNCHANGED kind
  PROVE  Verdict' /\ AuthAt' /\ ArraysInBounds'
<1> DEFINE n == Len(input)
<1>1. Grows(c)
  BY InputGrows DEF IndInv, TypeOK
<1>2. /\ n \in Nat /\ Len(input') = n + 1 /\ input'[n + 1] = c
      /\ \A i \in 1..n : input'[i] = input[i]
  BY <1>1 DEF Grows
<1>3. AuthAt /\ Verdict /\ ArraysInBounds
  BY DEF IndInv, Position
<1>a. ASSUME NEW a \in Nat \ {0}, a <= n + 1
      PROVE  /\ SubSeq(input', a, n + 1) = Append(SubSeq(input, a, n), c)
             /\ SubSeq(input, a, n) \in Seq(Byte) /\ Len(SubSeq(input, a, n)) = n + 1 - a
             /\ Len(SubSeq(input', a, n + 1)) = n + 2 - a
  BY <1>1, <1>2, <1>a, PartGrows, AppendProperties
<1>b. ASSUME n >= 2 PROVE input[2] \in Nat /\ input[2] < Base /\ input[2] \in Byte /\ input'[2] = input[2] /\ input'[1] = input[1]
  <2>1. input[2] \in Byte
    BY <1>1, <1>2, <1>b, ElementOfSeq DEF Grows
  <2> QED BY <1>2, <1>b, <2>1, BaseAssumption DEF Byte
<1>c. c \in Nat /\ c < Base /\ Base \in Nat /\ Base > 6
  BY BaseAssumption DEF Byte
<1>d. ASSUME NEW i \in 1..n PROVE input[i] \in Nat /\ input[i] < Base /\ input'[i] = input[i]
  BY <1>1, <1>2, <1>c, ElementOfSeq DEF Grows, Byte
<1>e. ASSUME NEW b \in Nat, b <= n PROVE SubSeq(input', 3, b) = SubSeq(input, 3, b)
  BY <1>1, <1>e, PartKept
<1>f. \A s : s = << >> => Len(s) = 0
  OBVIOUS
<1> HIDE DEF n
<1>4. CASE state = "VERSION"
  <2>1. n = 0 /\ p = parser_init /\ p' = p
    BY <1>3, <1>4, EmptySeq DEF n, Verdict, auth_parser_feed, Expect, Fail
  <2>2. CASE c = 1
    <3>1. state' = "USERNAME_LEN" /\ res' = "MORE"
      BY <1>4, <2>2 DEF auth_parser_feed, Expect, To, SOCKS5_SUBNEGOTIATION_VERSION
    <3>2. AuthAt'
      BY <1>2, <2>1, <2>2, <3>1, InitialFields DEF AuthAt
    <3> QED BY <1>3, <2>1, <3>1, <3>2 DEF Verdict, ArraysInBounds
  <2>3. CASE c # 1
    <3>1. state' = "ERROR" /\ res' = "ERROR"
      BY <1>4, <2>3 DEF auth_parser_feed, Expect, Fail, SOCKS5_SUBNEGOTIATION_VERSION
    <3>2. AuthAt'
      BY <2>1, <3>1, InitialFields DEF AuthAt
    <3>3. IsWrong'
      BY <1>2, <2>1, <2>3, WrongByte
    <3> QED BY <1>3, <2>1, <3>1, <3>2, <3>3 DEF Verdict, ArraysInBounds
  <2> QED BY <2>2, <2>3
<1>5. CASE state = "USERNAME_LEN"
  <2>0. n = 1 /\ input[1] = 1 /\ p = parser_init
    BY <1>3, <1>5 DEF n, AuthAt
  <2>1. n = 1 /\ input'[1] = 1 /\ input'[2] = c /\ Len(input') = 2 /\ p = parser_init
    BY <1>2, <2>0
  <2>2. CASE c = 0
    <3>1. state' = "ERROR" /\ res' = "ERROR" /\ p' = p
      BY <1>5, <2>2 DEF auth_parser_feed, Fail
    <3>2. AuthAt'
      BY <2>1, <3>1, InitialFields DEF AuthAt
    <3>3. IsWrong'
      BY <2>1, <2>2, WrongByte
    <3> QED BY <1>3, <3>1, <3>2, <3>3 DEF Verdict, ArraysInBounds
  <2>3. CASE c # 0
    <3>1. state' = "USERNAME" /\ res' = "MORE" /\ p' = [p EXCEPT !.username_len = c]
      BY <1>5, <2>3 DEF auth_parser_feed, To
    <3>2. p'.username_len = c /\ p'.username = << >> /\ p'.password = << >> /\ p'.dst_addr = << >>
      BY <2>1, <3>1 DEF parser_init
    <3>3. SubSeq(input', 3, 2) = << >>
      BY SubSeqEmpty
    <3>4. NameAnnounced' /\ Len(input') < 2 + input'[2]
      BY <1>c, <2>1, <2>3 DEF NameAnnounced
    <3>5. p'.username = SubSeq(input', 3, Len(input')) /\ p'.username_len = input'[2]
      BY <2>1, <3>2, <3>3
    <3>6. AuthAt'
      BY <3>1, <3>2, <3>4, <3>5 DEF AuthAt
    <3> QED BY <1>c, <3>1, <3>2, <3>6, <1>f DEF Verdict, ArraysInBounds
  <2> QED BY <2>2, <2>3
<1>6. CASE state = "USERNAME"
  <2>1. /\ n >= 2 /\ input[1] = 1 /\ input[2] > 0 /\ p.username_len = input[2]
        /\ p.username = SubSeq(input, 3, n) /\ n < 2 + input[2]
        /\ p.password = << >> /\ p.dst_addr = << >>
    BY <1>3, <1>6 DEF n, AuthAt, NameAnnounced
  <2>2. Len(p.username) = n - 2 /\ Append(p.username, c) = SubSeq(input', 3, n + 1)
        /\ Len(Append(p.username, c)) = n - 1
    BY <1>2, <1>a, <2>1
  <2>3. p' = [p EXCEPT !.username = Append(p.username, c)]
    BY <1>6 DEF auth_parser_feed
  <2>4. /\ p'.username = SubSeq(input', 3, n + 1) /\ Len(p'.username) = n - 1
        /\ p'.username_len = input[2] /\ p'.password = << >> /\ p'.dst_addr = << >>
    BY <2>1, <2>2, <2>3 DEF IndInv, TypeOK
  <2>5. ArraysInBounds'
    <3>1. n - 1 <= Base - 1
      BY <1>2, <1>b, <1>c, <2>1, SMTT(60)
    <3>2. Len(p'.password) = 0 /\ Len(p'.dst_addr) = 0 /\ 0 <= Base - 1
      BY <1>c, <1>f, <2>4
    <3> QED BY <2>4, <3>1, <3>2 DEF ArraysInBounds
  <2>6. Filled(Len(p.username), p.username_len) <=> n - 1 >= input[2]
    <3>1. n - 2 \in Nat /\ n - 2 < input[2] /\ input[2] \in Byte
      BY <1>2, <1>b, <2>1
    <3>2. Filled(n - 2, input[2]) <=> n - 2 + 1 >= input[2]
      BY <3>1, FilledIs
    <3> QED BY <1>2, <2>1, <2>2, <3>2
  <2>7. CASE n - 1 >= input[2]
    <3>1. state' = "PASSWORD_LEN" /\ res' = "MORE"
      BY <1>6, <2>6, <2>7 DEF auth_parser_feed, To
    <3>2. n + 1 = 2 + input[2]
      BY <1>2, <1>b, <2>1, <2>7
    <3>3. AuthAt'
      BY <1>2, <1>b, <2>1, <2>4, <3>1, <3>2 DEF AuthAt, NameRead, NameAnnounced
    <3> QED BY <2>5, <3>1, <3>3 DEF Verdict
  <2>8. CASE ~(n - 1 >= input[2])
    <3>1. state' = "USERNAME" /\ res' = "MORE"
      BY <1>6, <2>6, <2>8 DEF auth_parser_feed, To
    <3>2. n + 1 < 2 + input[2]
      BY <1>2, <1>b, <2>1, <2>8
    <3>3. AuthAt'
      BY <1>2, <1>b, <2>1, <2>4, <3>1, <3>2 DEF AuthAt, NameAnnounced
    <3> QED BY <2>5, <3>1, <3>3 DEF Verdict
  <2> QED BY <2>7, <2>8
<1>7. CASE state = "PASSWORD_LEN"
  <2>1. /\ n >= 2 /\ input[1] = 1 /\ input[2] > 0 /\ n = 2 + input[2]
        /\ p.username = SubSeq(input, 3, 2 + input[2])
        /\ p.password = << >> /\ p.dst_addr = << >>
    BY <1>3, <1>7 DEF n, AuthAt, NameRead, NameAnnounced
  <2>2. /\ input'[1] = 1 /\ input'[2] = input[2] /\ input[2] \in Nat /\ Len(input') = 3 + input'[2]
        /\ input'[3 + input'[2]] = c
    BY <1>2, <1>b, <2>1, SMTT(30)
  <2>3. CASE c = 0
    <3>1. state' = "ERROR" /\ res' = "ERROR" /\ p' = p
      BY <1>7, <2>3 DEF auth_parser_feed, Fail
    <3>2. AuthAt'
      BY <2>1, <3>1 DEF AuthAt
    <3>3. IsWrong'
      <4>1. /\ Len(input') \in Nat /\ Len(input') > 2
            /\ Len(input') >= 3 + input'[2] /\ input'[3 + input'[2]] = 0
        BY <2>1, <2>2, <2>3
      <4> QED BY <4>1, WrongByte
    <3> QED BY <1>3, <3>1, <3>2, <3>3 DEF Verdict, ArraysInBounds
  <2>4. CASE c # 0
    <3>1. state' = "PASSWORD" /\ res' = "MORE" /\ p' = [p EXCEPT !.password_len = c]
      BY <1>7, <2>4 DEF auth_parser_feed, To
    <3>2. /\ p'.password_len = c /\ p'.username = p.username /\ p'.password = << >>
          /\ p'.dst_addr = << >>
      BY <2>1, <3>1 DEF IndInv, TypeOK
    <3>3. SubSeq(input', 3, 2 + input'[2]) = p'.username
      BY <1>2, <1>e, <2>1, <2>2, <3>2
    <3>4. PasswordAnnounced'
      <4>1. NameAnnounced' /\ Len(input') >= 2 + input'[2]
        BY <2>1, <2>2 DEF NameAnnounced
      <4>2. Len(input') >= 3 + input'[2] /\ input'[3 + input'[2]] > 0
        BY <1>c, <2>2, <2>4
      <4> QED BY <3>3, <4>1, <4>2 DEF PasswordAnnounced, NameRead
    <3>5. SubSeq(input', 1 + (3 + input'[2]), Len(input')) = << >>
      <4>1. 1 + (3 + input'[2]) \in Int /\ Len(input') \in Int /\ 1 + (3 + input'[2]) > Len(input')
        BY <2>2
      <4> QED BY <4>1, SubSeqEmpty
    <3>6. /\ p'.password = SubSeq(input', 1 + (3 + input'[2]), Len(input'))
          /\ p'.password_len = input'[3 + input'[2]]
          /\ Len(input') < (3 + input'[2]) + input'[3 + input'[2]]
      BY <1>c, <2>2, <2>4, <3>2, <3>5
    <3>7. AuthAt'
      BY <3>1, <3>2, <3>4, <3>6 DEF AuthAt
    <3> QED BY <1>3, <1>c, <1>f, <3>1, <3>2, <3>7 DEF Verdict, ArraysInBounds
  <2> QED BY <2>3, <2>4
<1>8. CASE state = "PASSWORD"
  <2> DEFINE pl == 3 + input[2]
  <2>1. /\ n >= 2 /\ input[1] = 1 /\ input[2] > 0 /\ n >= pl
        /\ p.username = SubSeq(input, 3, 2 + input[2]) /\ input[pl] > 0
        /\ p.password = SubSeq(input, 1 + pl, n) /\ p.password_len = input[pl]
        /\ n < pl + input[pl] /\ p.dst_addr = << >>
    BY <1>3, <1>8 DEF n, AuthAt, PasswordAnnounced, NameRead, NameAnnounced
  <2>a. n >= 2 /\ input[1] = 1 /\ input[2] > 0 /\ n >= pl /\ input[pl] > 0 /\ n < pl + input[pl]
    BY <2>1
  <2>2. input'[1] = 1 /\ input'[2] = input[2] /\ input[2] \in Nat /\ pl \in Nat /\ pl = 3 + input'[2]
    <3>1. n >= 2 /\ input[1] = 1
      BY <2>a
    <3>2. input'[1] = 1 /\ input'[2] = input[2] /\ input[2] \in Nat
      BY <1>b, <3>1
    <3> QED BY <3>2
  <2>3. input'[pl] = input[pl] /\ input[pl] \in Nat /\ input[pl] < Base /\ input[pl] \in Byte
    <3>1. pl \in 1..n
      BY <1>2, <2>a, <2>2
    <3>2. input'[pl] = input[pl] /\ input[pl] \in Nat /\ input[pl] < Base
      BY <1>d, <3>1
    <3> QED BY <1>c, <3>2 DEF Byte
  <2>4. 2 + input[2] <= n /\ 2 + input[2] \in Nat
    BY <1>2, <2>a, <2>2
  <2> DEFINE x == input[pl]
  <2>b. n \in Nat /\ pl \in Nat /\ x \in Nat /\ n >= pl /\ n < pl + x /\ x < Base /\ Base \in Nat
    BY <1>2, <1>c, <2>a, <2>2, <2>3
  <2> HIDE DEF pl, x
  <2>5. /\ Len(p.password) = n - pl /\ Append(p.password, c) = SubSeq(input', 1 + pl, n + 1)
        /\ Len(Append(p.password, c)) = n + 1 - pl
    <3>1. 1 + pl \in Nat \ {0} /\ 1 + pl <= n + 1
      BY <1>2, <2>a, <2>2
    <3>2. n + 1 - (1 + pl) = n - pl /\ n + 2 - (1 + pl) = n + 1 - pl
      BY <1>2, <2>2
    <3> QED BY <1>a, <2>1, <3>1, <3>2
  <2>6. p' = [p EXCEPT !.password = Append(p.password, c)]
    BY <1>8 DEF auth_parser_feed
  <2>7. /\ p'.password = SubSeq(input', 1 + pl, n + 1) /\ Len(p'.password) = n + 1 - pl
        /\ p'.password_len = input[pl] /\ p'.username = p.username /\ p'.dst_addr = << >>
    BY <2>1, <2>5, <2>6 DEF IndInv, TypeOK
  <2>8. ArraysInBounds'
    <3>1. n + 1 - pl <= Base - 1
      BY <2>b
    <3>2. Len(p'.username) = Len(p.username) /\ Len(p'.dst_addr) = 0 /\ 0 <= Base - 1
      BY <1>c, <1>f, <2>7
    <3> QED BY <1>3, <2>7, <3>1, <3>2 DEF ArraysInBounds
  <2>9. Filled(Len(p.password), p.password_len) <=> n + 1 - pl >= input[pl]
    <3>1. n - pl \in Nat /\ n - pl < input[pl] /\ n - pl + 1 = n + 1 - pl
      BY <1>2, <2>a, <2>2, <2>3, SMTT(30)
    <3>2. Filled(n - pl, input[pl]) <=> n - pl + 1 >= input[pl]
      BY <2>3, <3>1, FilledIs
    <3> QED BY <2>1, <2>5, <3>1, <3>2
  <2>10. PasswordAnnounced'
    <3>1. p'.username = SubSeq(input', 3, 2 + input'[2])
      BY <1>e, <2>1, <2>2, <2>4, <2>7
    <3>2. NameAnnounced' /\ Len(input') >= 2 + input'[2] /\ Len(input') >= pl /\ input'[pl] > 0
      BY <1>2, <2>a, <2>2, <2>3, <2>4 DEF NameAnnounced
    <3>3. Len(input') >= 3 + input'[2] /\ input'[3 + input'[2]] > 0
      BY <2>2, <3>2
    <3> QED BY <3>1, <3>2, <3>3 DEF PasswordAnnounced, NameRead
  <2>11. /\ p'.password = SubSeq(input', 1 + (3 + input'[2]), Len(input'))
         /\ p'.password_len = input'[3 + input'[2]]
    BY <1>2, <2>2, <2>3, <2>7
  <2>12. CASE n + 1 - pl >= input[pl]
    <3>1. state' = "DONE" /\ res' = "DONE"
      BY <1>8, <2>9, <2>12 DEF auth_parser_feed, Complete
    <3>2. Len(input') = (3 + input'[2]) + input'[3 + input'[2]]
      <4>1. n + 1 - pl >= x => n + 1 = pl + x
        BY <2>b
      <4> QED BY <1>2, <2>2, <2>3, <2>12, <4>1 DEF x
    <3>3. AuthAt'
      BY <2>7, <2>10, <2>11, <3>1, <3>2 DEF AuthAt
    <3> QED BY <2>8, <3>1, <3>3 DEF Verdict
  <2>13. CASE ~(n + 1 - pl >= input[pl])
    <3>1. state' = "PASSWORD" /\ res' = "MORE"
      BY <1>8, <2>9, <2>13 DEF auth_parser_feed, To
    <3>2. Len(input') < (3 + input'[2]) + input'[3 + input'[2]]
      <4>1. n + 1 < pl + input[pl]
        BY <1>2, <2>a, <2>2, <2>3, <2>13
      <4> QED BY <1>2, <2>2, <2>3, <4>1
    <3>3. AuthAt'
      BY <2>7, <2>10, <2>11, <3>1, <3>2 DEF AuthAt
    <3> QED BY <2>8, <3>1, <3>3 DEF Verdict
  <2> QED BY <2>12, <2>13
<1> QED BY <1>4, <1>5, <1>6, <1>7, <1>8 DEF auth_parser_feed

(* Where the parts of a request are does not change once it is known. *)
LEMMA PartsOfRequest ==
  ASSUME RequestBegun, input \in Seq(Byte), Len(input) >= AddrAt
  PROVE  /\ AddrAt \in {4, 5} /\ AddrLen \in Nat /\ AddrLen < Base /\ AddrLen \in Byte /\ AddrEnd \in Nat
         /\ AddrEnd = IF AddrLen = 0 THEN AddrAt + 1 ELSE AddrAt + AddrLen
<1>0. Base \in Nat /\ Base > 6 /\ Len(input) \in Nat
  BY BaseAssumption, LenProperties
<1>1. AddrAt \in {4, 5} /\ (input[4] = 3 => AddrAt = 5)
  BY DEF AddrAt, DOMAIN_NAME
<1>2. AddrLen \in Byte
  <2>1. CASE input[4] = 3
    <3>1. 5 \in 1..Len(input)
      BY <1>0, <1>1, <2>1
    <3>2. input[5] \in Byte
      BY <3>1, ElementOfSeq
    <3> QED BY <2>1, <3>2 DEF AddrLen, IPV4, IPV6
  <2>2. CASE input[4] # 3
    BY <1>0, <2>2, LenAssumption, SMTT(30) DEF AddrLen, RequestBegun, IPV4, IPV6, DOMAIN_NAME, Byte
  <2> QED BY <2>1, <2>2
<1>3. AddrLen \in Nat /\ AddrLen < Base
  BY <1>0, <1>2 DEF Byte
<1> QED BY <1>1, <1>2, <1>3 DEF AddrEnd

(* Once the length of the address is known, the limits of the parts of a     *)
(* request do not move.                                                      *)
LEMMA PartsStay ==
  ASSUME NEW c \in Byte, Grows(c), RequestBegun, Len(input) >= AddrAt,
         p'.cmd = p.cmd, p'.atyp = p.atyp
  PROVE  /\ RequestBegun' /\ AddrAt' = AddrAt /\ AddrLen' = AddrLen /\ AddrEnd' = AddrEnd
         /\ Len(input') >= AddrAt'
<1>1. /\ Len(input) \in Nat /\ Len(input') = Len(input) + 1
      /\ \A i \in 1..Len(input) : input'[i] = input[i]
  BY DEF Grows
<1>2. Len(input) >= 4
  BY DEF RequestBegun
<1>3. input'[1] = input[1] /\ input'[2] = input[2] /\ input'[3] = input[3] /\ input'[4] = input[4]
  BY <1>1, <1>2
<1>4. Len(input') >= 4 /\ Len(input') >= AddrAt /\ AddrAt' = AddrAt
  <2>1. AddrAt \in {4, 5}
    BY DEF AddrAt
  <2> QED BY <1>1, <1>2, <1>3, <2>1 DEF AddrAt
<1>5. RequestBegun'
  BY <1>3, <1>4 DEF RequestBegun
<1>6. AddrLen' = AddrLen
  <2>1. CASE input[4] = 3
    <3>1. 5 \in 1..Len(input)
      BY <1>1, <2>1 DEF AddrAt, DOMAIN_NAME
    <3>2. input'[5] = input[5]
      BY <1>1, <3>1
    <3> QED BY <1>3, <2>1, <3>2 DEF AddrLen, IPV4, IPV6
  <2>2. CASE input[4] # 3
    BY <1>3, <2>2 DEF AddrLen, RequestBegun, IPV4, IPV6, DOMAIN_NAME
  <2> QED BY <2>1, <2>2
<1> QED BY <1>4, <1>5, <1>6 DEF AddrEnd

(* A byte of the request. *)
LEMMA RequestStep ==
  ASSUME IndInv, kind = "req", res = "MORE", NEW c \in Byte, conn_req_parser_feed(c),
         input' = Append(input, c), UNCHANGED kind
  PROVE  Verdict' /\ RequestAt' /\ ArraysInBounds'
<1> DEFINE n == Len(input)
<1>1. Grows(c)
  BY InputGrows DEF IndInv, TypeOK
<1>2. /\ n \in Nat /\ Len(input') = n + 1 /\ input'[n + 1] = c
      /\ \A i \in 1..n : input'[i] = input[i]
  BY <1>1 DEF Grows
<1>3. RequestAt /\ Verdict /\ ArraysInBounds
  BY DEF IndInv, Position
<1>a. ASSUME NEW a \in Nat \ {0}, a <= n + 1
      PROVE  /\ SubSeq(input', a, n + 1) = Append(SubSeq(input, a, n), c)
             /\ SubSeq(input, a, n) \in Seq(Byte) /\ Len(SubSeq(input, a, n)) = n + 1 - a
             /\ Len(SubSeq(input', a, n + 1)) = n + 2 - a
  BY <1>1, <1>2, <1>a, PartGrows, AppendProperties
<1>c. c \in Nat /\ c < Base /\ Base \in Nat /\ Base > 6
  BY BaseAssumption DEF Byte
<1>e. ASSUME NEW a \in Nat \ {0}, NEW b \in Nat, b <= n PROVE SubSeq(input', a, b) = SubSeq(input, a, b)
  BY <1>1, <1>e, PartKept
<1>f. \A s : s = << >> => Len(s) = 0
  OBVIOUS
<1> HIDE DEF n
<1>g. ASSUME p'.username = << >>, p'.password = << >>, Len(p'.dst_addr) <= Base - 1 PROVE ArraysInBounds'
  <2>1. Len(p'.username) = 0 /\ Len(p'.password) = 0 /\ 0 <= Base - 1
    BY <1>c, <1>f, <1>g
  <2> QED BY <1>g, <2>1 DEF ArraysInBounds
<1>h. p.username = << >> /\ p.password = << >> /\ Len(p.dst_addr) <= Base - 1
  BY <1>3 DEF RequestAt, ArraysInBounds
<1>4. CASE state = "VERSION"
  <2>1. n = 0 /\ p = parser_init /\ p' = p
    BY <1>3, <1>4, EmptySeq DEF n, Verdict, conn_req_parser_feed, Expect, Fail
  <2>2. CASE c = 5
    <3>1. state' = "CMD" /\ res' = "MORE"
      BY <1>4, <2>2 DEF conn_req_parser_feed, Expect, To, SOCKS5_VERSION
    <3>2. RequestAt'
      BY <1>2, <2>1, <2>2, <3>1, InitialFields DEF RequestAt
    <3> QED BY <1>3, <2>1, <3>1, <3>2 DEF Verdict, ArraysInBounds
  <2>3. CASE c # 5
    <3>1. state' = "ERROR" /\ res' = "ERROR"
      BY <1>4, <2>3 DEF conn_req_parser_feed, Expect, Fail, SOCKS5_VERSION
    <3>2. RequestAt'
      BY <2>1, <3>1, InitialFields DEF RequestAt
    <3>3. IsWrong'
      BY <1>2, <2>1, <2>3, WrongByte
    <3> QED BY <1>3, <2>1, <3>1, <3>2, <3>3 DEF Verdict, ArraysInBounds
  <2> QED BY <2>2, <2>3
<1>5. CASE state = "CMD"
  <2>0. n = 1 /\ input[1] = 5 /\ p.dst_addr = << >>
    BY <1>3, <1>5 DEF n, RequestAt
  <2>1. input'[1] = 5 /\ input'[2] = c /\ Len(input') = 2
    BY <1>2, <2>0
  <2>2. CASE c \in Commands
    <3>1. state' = "RSV" /\ res' = "MORE" /\ p' = [p EXCEPT !.cmd = c]
      BY <1>5, <2>2 DEF conn_req_parser_feed, To
    <3>2. p'.cmd = c /\ p'.username = << >> /\ p'.password = << >> /\ p'.dst_addr = << >>
      BY <1>h, <2>0, <3>1 DEF IndInv, TypeOK
    <3>3. RequestAt'
      BY <2>1, <2>2, <3>1, <3>2 DEF RequestAt
    <3> QED BY <1>c, <1>f, <1>g, <1>h, <2>0, <3>1, <3>2, <3>3 DEF Verdict
  <2>3. CASE c \notin Commands
    <3>1. state' = "ERROR" /\ res' = "ERROR" /\ p' = p
      BY <1>5, <2>3 DEF conn_req_parser_feed, Fail
    <3>2. RequestAt'
      BY <1>h, <3>1 DEF RequestAt
    <3>3. IsWrong'
      BY <2>1, <2>3, WrongByte
    <3> QED BY <1>g, <1>h, <3>1, <3>2, <3>3 DEF Verdict
  <2> QED BY <2>2, <2>3
<1>6. CASE state = "RSV"
  <2>0. n = 2 /\ input[1] = 5 /\ input[2] \in Commands /\ p.cmd = input[2] /\ p.dst_addr = << >>
    BY <1>3, <1>6 DEF n, RequestAt
  <2>1. input'[1] = 5 /\ input'[2] = input[2] /\ input'[3] = c /\ Len(input') = 3 /\ p' = p
    <3>1. p' = p
      BY <1>6 DEF conn_req_parser_feed
    <3> QED BY <1>2, <2>0, <3>1
  <2>2. CASE c = 0
    <3>1. state' = "ATYP" /\ res' = "MORE"
      BY <1>6, <2>2 DEF conn_req_parser_feed, Expect, To
    <3>2. RequestAt'
      BY <1>h, <2>0, <2>1, <2>2, <3>1 DEF RequestAt
    <3> QED BY <1>g, <1>h, <2>1, <3>1, <3>2 DEF Verdict
  <2>3. CASE c # 0
    <3>1. state' = "ERROR" /\ res' = "ERROR"
      BY <1>6, <2>3 DEF conn_req_parser_feed, Expect, Fail
    <3>2. RequestAt'
      BY <1>h, <2>1, <3>1 DEF RequestAt
    <3>3. IsWrong'
      BY <2>1, <2>3, WrongByte
    <3> QED BY <1>g, <1>h, <2>1, <3>1, <3>2, <3>3 DEF Verdict
  <2> QED BY <2>2, <2>3
<1>7. CASE state = "ATYP"
  <2>0. /\ n = 3 /\ input[1] = 5 /\ input[2] \in Commands /\ input[3] = 0
        /\ p.cmd = input[2] /\ p.dst_addr = << >>
    BY <1>3, <1>7 DEF n, RequestAt
  <2>1. /\ input'[1] = 5 /\ input'[2] = input[2] /\ input'[3] = 0 /\ input'[4] = c
        /\ Len(input') = 4
    BY <1>2, <2>0
  <2>2. RequestAddrType(c)
    BY <1>7 DEF conn_req_parser_feed
  <2>3. CASE c \in {IPV4, DOMAIN_NAME, IPV6}
    <3> DEFINE l == CASE c = IPV4 -> Ipv4Len [] c = IPV6 -> Ipv6Len [] OTHER -> p.dst_addr_len
    <3>1. /\ state' = (IF c = DOMAIN_NAME THEN "DOM_LEN" ELSE "DST_ADDR") /\ res' = "MORE"
          /\ p' = [p EXCEPT !.atyp = c, !.dst_addr_len = l]
      BY <2>2, <2>3 DEF RequestAddrType, To
    <3> HIDE DEF l
    <3>2. /\ p'.cmd = p.cmd /\ p'.atyp = c /\ p'.dst_addr_len = l /\ p'.dst_addr = << >>
          /\ p'.username = << >> /\ p'.password = << >>
      BY <1>h, <2>0, <3>1 DEF IndInv, TypeOK
    <3>3. RequestBegun'
      BY <2>0, <2>1, <2>3, <3>2 DEF RequestBegun
    <3>4. CASE c = DOMAIN_NAME
      <4>1. RequestAt'
        BY <2>1, <3>1, <3>2, <3>3, <3>4 DEF RequestAt
      <4> QED BY <1>g, <1>h, <2>0, <3>1, <3>2, <3>4, <4>1 DEF Verdict
    <3>5. CASE c # DOMAIN_NAME
      <4>1. AddrAt' = 4 /\ AddrLen' = l /\ l \in Nat /\ l > 0
        BY <2>1, <2>3, <3>5, LenAssumption, BaseAssumption DEF AddrAt, AddrLen, l, IPV4, IPV6, DOMAIN_NAME
      <4>2. AddrEnd' = 4 + l
        BY <4>1 DEF AddrEnd
      <4>3. SubSeq(input', AddrAt' + 1, Len(input')) = << >>
        <5>1. SubSeq(input', 5, 4) = << >>
          BY SubSeqEmpty
        <5> QED BY <2>1, <4>1, <5>1
      <4>4. Len(input') < AddrEnd' /\ Len(input') >= AddrAt'
        BY <2>1, <4>1, <4>2
      <4>5. RequestAt'
        BY <3>1, <3>2, <3>3, <3>5, <4>1, <4>3, <4>4 DEF RequestAt
      <4> QED BY <1>g, <1>h, <2>0, <3>1, <3>2, <3>5, <4>5 DEF Verdict
    <3> QED BY <3>4, <3>5
  <2>4. CASE c \notin {IPV4, DOMAIN_NAME, IPV6}
    <3>1. state' = "ERROR" /\ res' = "ERROR" /\ p' = p
      BY <2>2, <2>4 DEF RequestAddrType, Fail
    <3>2. RequestAt'
      BY <1>h, <3>1 DEF RequestAt
    <3>3. IsWrong'
      BY <2>1, <2>4, WrongByte
    <3> QED BY <1>g, <1>h, <3>1, <3>2, <3>3 DEF Verdict
  <2> QED BY <2>3, <2>4
<1>8. CASE state = "DOM_LEN"
  <2>0. RequestBegun /\ n = 4 /\ input[4] = DOMAIN_NAME /\ p.dst_addr = << >>
    BY <1>3, <1>8 DEF n, RequestAt
  <2>1. /\ input'[1] = input[1] /\ input'[2] = input[2] /\ input'[3] = input[3] /\ input'[4] = input[4]
        /\ input'[5] = c /\ Len(input') = 5
    BY <1>2, <2>0
  <2>2. state' = "DST_ADDR" /\ res' = "MORE" /\ p' = [p EXCEPT !.dst_addr_len = c]
    BY <1>8 DEF conn_req_parser_feed, To
  <2>3. /\ p'.cmd = p.cmd /\ p'.atyp = p.atyp /\ p'.dst_addr_len = c /\ p'.dst_addr = << >>
        /\ p'.username = << >> /\ p'.password = << >>
    BY <1>h, <2>0, <2>2 DEF IndInv, TypeOK
  <2>4. RequestBegun'
    BY <2>0, <2>1, <2>3 DEF RequestBegun
  <2>5. AddrAt' = 5 /\ AddrLen' = c
    BY <2>0, <2>1 DEF AddrAt, AddrLen, IPV4, IPV6, DOMAIN_NAME
  <2>6. Len(input') < AddrEnd' /\ Len(input') >= AddrAt'
    BY <1>c, <2>1, <2>5 DEF AddrEnd
  <2>7. SubSeq(input', AddrAt' + 1, Len(input')) = << >>
    <3>1. SubSeq(input', 6, 5) = << >>
      BY SubSeqEmpty
    <3> QED BY <2>1, <2>5, <3>1
  <2>8. RequestAt'
    BY <2>2, <2>3, <2>4, <2>5, <2>6, <2>7 DEF RequestAt
  <2> QED BY <1>g, <1>h, <2>0, <2>2, <2>3, <2>8 DEF Verdict
<1>9. CASE state \in {"DST_ADDR", "PORT_BYTE1", "PORT_BYTE2"}
  <2> DEFINE x == AddrAt
             len == AddrLen
             end == AddrEnd
  <2>0. RequestBegun /\ n >= x
    BY <1>3, <1>9 DEF n, RequestAt
  <2>1. /\ x \in {4, 5} /\ len \in Nat /\ len < Base /\ len \in Byte /\ end \in Nat
        /\ end = IF len = 0 THEN x + 1 ELSE x + len
    BY <2>0, PartsOfRequest DEF IndInv, TypeOK, n
  <2>2. ASSUME p'.cmd = p.cmd, p'.atyp = p.atyp
        PROVE  /\ RequestBegun' /\ AddrAt' = x /\ AddrLen' = len /\ AddrEnd' = end
               /\ Len(input') >= AddrAt'
    BY <1>1, <2>0, <2>2, PartsStay DEF n
  <2>3. x + 1 \in Nat \ {0} /\ x + 1 <= n + 1 /\ x + 1 \in 1..(n + 1)
    BY <1>2, <2>0, <2>1
  <2>4. CASE state = "DST_ADDR"
    <3>1. p.dst_addr_len = len /\ n < end /\ p.dst_addr = SubSeq(input, x + 1, n)
      BY <1>3, <2>4 DEF n, RequestAt
    <3> HIDE DEF x, len, end
    <3>2. /\ Len(p.dst_addr) = n - x /\ Append(p.dst_addr, c) = SubSeq(input', x + 1, n + 1)
          /\ Len(Append(p.dst_addr, c)) = n + 1 - x
      <4>1. n + 1 - (x + 1) = n - x /\ n + 2 - (x + 1) = n + 1 - x
        BY <1>2, <2>1
      <4> QED BY <1>a, <2>3, <3>1, <4>1
    <3>3. p' = [p EXCEPT !.dst_addr = Append(p.dst_addr, c)]
      BY <2>4 DEF conn_req_parser_feed
    <3>4. /\ p'.dst_addr = SubSeq(input', x + 1, n + 1) /\ Len(p'.dst_addr) = n + 1 - x
          /\ p'.dst_addr_len = len /\ p'.username = << >> /\ p'.password = << >>
          /\ p'.cmd = p.cmd /\ p'.atyp = p.atyp
      BY <1>h, <3>1, <3>2, <3>3 DEF IndInv, TypeOK
    <3>a. n \in Nat /\ n >= x /\ n < end
      BY <1>2, <2>0, <3>1
    <3>5. ArraysInBounds'
      <4>1. n + 1 - x <= Base - 1
        BY <1>c, <2>1, <3>a
      <4> QED BY <1>g, <3>4, <4>1
    <3>6. Filled(Len(p.dst_addr), p.dst_addr_len) <=> n + 1 = end
      <4>1. n - x \in Nat /\ (n - x < len \/ n - x = 0) /\ (n - x + 1 >= len <=> n + 1 = end)
        BY <2>1, <3>a
      <4>2. Filled(n - x, len) <=> n - x + 1 >= len
        BY <2>1, <4>1, FilledIs
      <4> QED BY <3>1, <3>2, <4>1, <4>2
    <3>7. CASE n + 1 = end
      <4>1. state' = "PORT_BYTE1" /\ res' = "MORE"
        BY <2>4, <3>6, <3>7 DEF conn_req_parser_feed, To
      <4>2. Len(input') = AddrEnd' /\ p'.dst_addr = SubSeq(input', AddrAt' + 1, AddrEnd')
        BY <1>2, <2>2, <3>4, <3>7
      <4>3. RequestAt'
        BY <2>2, <3>4, <4>1, <4>2 DEF RequestAt
      <4> QED BY <3>5, <4>1, <4>3 DEF Verdict
    <3>8. CASE n + 1 # end
      <4>1. state' = "DST_ADDR" /\ res' = "MORE"
        BY <2>4, <3>6, <3>8 DEF conn_req_parser_feed, To
      <4>a. n + 1 < end
        BY <2>1, <3>a, <3>8
      <4>2. /\ Len(input') < AddrEnd' /\ p'.dst_addr = SubSeq(input', AddrAt' + 1, Len(input'))
            /\ p'.dst_addr_len = AddrLen'
        BY <1>2, <2>2, <3>4, <4>a
      <4>3. RequestAt'
        BY <2>2, <3>4, <4>1, <4>2 DEF RequestAt
      <4> QED BY <3>5, <4>1, <4>3 DEF Verdict
    <3> QED BY <3>7, <3>8
  <2>5. CASE state = "PORT_BYTE1"
    <3>1. n = end /\ p.dst_addr = SubSeq(input, x + 1, end)
      BY <1>3, <2>5 DEF n, RequestAt
    <3> HIDE DEF x, len, end
    <3>2. state' = "PORT_BYTE2" /\ res' = "MORE" /\ p' = [p EXCEPT !.dst_port = c]
      BY <2>5 DEF conn_req_parser_feed, To
    <3>3. /\ p'.cmd = p.cmd /\ p'.atyp = p.atyp /\ p'.dst_port = c /\ p'.dst_addr = p.dst_addr
          /\ p'.username = << >> /\ p'.password = << >>
      BY <1>h, <3>2 DEF IndInv, TypeOK
    <3>4. SubSeq(input', x + 1, end) = SubSeq(input, x + 1, end)
      <4>1. end \in Nat /\ end <= n
        BY <1>2, <3>1
      <4> QED BY <1>e, <2>3, <4>1
    <3>5. /\ Len(input') = AddrEnd' + 1 /\ p'.dst_addr = SubSeq(input', AddrAt' + 1, AddrEnd')
          /\ p'.dst_port = input'[AddrEnd' + 1]
      BY <1>2, <2>2, <3>1, <3>3, <3>4
    <3>6. RequestAt'
      BY <2>2, <3>2, <3>3, <3>5 DEF RequestAt
    <3> QED BY <1>g, <1>h, <3>2, <3>3, <3>6 DEF Verdict
  <2>6. CASE state = "PORT_BYTE2"
    <3>1. n = end + 1 /\ p.dst_addr = SubSeq(input, x + 1, end) /\ p.dst_port = input[end + 1]
      BY <1>3, <2>6 DEF n, RequestAt
    <3> HIDE DEF x, len, end
    <3>a. end + 1 \in 1..n /\ end \in Nat /\ end <= n
      BY <1>2, <2>1, <3>1
    <3>b. p.dst_port \in Byte
      BY <3>1, <3>a, ElementOfSeq DEF n, IndInv, TypeOK
    <3>2. state' = "DONE" /\ res' = "DONE" /\ p' = [p EXCEPT !.dst_port = Port(p.dst_port, c)]
      BY <2>6 DEF conn_req_parser_feed, Complete
    <3>3. /\ p'.cmd = p.cmd /\ p'.atyp = p.atyp /\ p'.dst_addr = p.dst_addr
          /\ p'.dst_port = Port(p.dst_port, c)
          /\ p'.username = << >> /\ p'.password = << >>
      BY <1>h, <3>2 DEF IndInv, TypeOK
    <3>4. SubSeq(input', x + 1, end) = SubSeq(input, x + 1, end)
      BY <1>e, <2>3, <3>a
    <3>5. p'.dst_port = input'[end + 1] * Base + input'[end + 2]
      <4>1. Port(p.dst_port, c) = p.dst_port * Base + c
        BY <3>b, PortIs
      <4>2. input'[end + 1] = p.dst_port
        BY <1>2, <3>1, <3>a
      <4>3. n + 1 = end + 2
        BY <3>1, <3>a
      <4>4. input'[end + 2] = c
        BY <1>2, <4>3
      <4> QED BY <3>3, <4>1, <4>2, <4>4
    <3>6. Len(input') = end + 2
      BY <1>2, <3>1, <3>a
    <3>7. /\ Len(input') = AddrEnd' + 2 /\ p'.dst_addr = SubSeq(input', AddrAt' + 1, AddrEnd')
          /\ p'.dst_port = input'[AddrEnd' + 1] * Base + input'[AddrEnd' + 2]
      BY <2>2, <3>1, <3>3, <3>4, <3>5, <3>6
    <3>8. RequestAt'
      BY <2>2, <3>2, <3>3, <3>7 DEF RequestAt
    <3> QED BY <1>g, <1>h, <3>2, <3>3, <3>8 DEF Verdict
  <2> QED BY <1>9, <2>4, <2>5, <2>6
<1> QED BY <1>4, <1>5, <1>6, <1>7, <1>8, <1>9 DEF conn_req_parser_feed

-----------------------------------------------------------------------------
(* A new parser knows nothing of the message before. *)
LEMMA FreshStart ==
  ASSUME state = "VERSION", p = parser_init, res = "MORE", input = << >>,
         kind \in {"hello", "auth", "req"}
  PROVE  IndInv
<1>1. << >> \in Seq(Byte) /\ Len(<< >>) = 0 /\ 0 <= Base - 1
  BY BaseAssumption, EmptySeq
<1>2. TypeOK
  BY <1>1, InitialFields DEF TypeOK
<1>3. Verdict
  BY DEF Verdict
<1>4. HelloAt /\ AuthAt /\ RequestAt
  BY InitialFields DEF HelloAt, AuthAt, RequestAt
<1>5. ArraysInBounds
  BY <1>1, InitialFields DEF ArraysInBounds
<1> QED BY <1>2, <1>3, <1>4, <1>5 DEF IndInv, Position

(* A parser that is initialised again satisfies the invariant. *)
LEMMA FreshStep ==
  ASSUME NEW k \in {"hello", "auth", "req"}, Fresh(k)
  PROVE  IndInv'
<1>1. /\ state' = "VERSION" /\ p' = parser_init /\ res' = "MORE" /\ input' = << >>
      /\ kind' \in {"hello", "auth", "req"}
  BY DEF Fresh
<1>2. << >> \in Seq(Byte) /\ Len(<< >>) = 0 /\ 0 <= Base - 1
  BY BaseAssumption, EmptySeq
<1>3. TypeOK'
  BY <1>1, <1>2, InitialFields DEF TypeOK
<1>4. Verdict'
  BY <1>1 DEF Verdict
<1>5. HelloAt' /\ AuthAt' /\ RequestAt'
  BY <1>1, InitialFields DEF HelloAt, AuthAt, RequestAt
<1>6. ArraysInBounds'
  BY <1>1, <1>2, InitialFields DEF ArraysInBounds
<1> QED BY <1>3, <1>4, <1>5, <1>6 DEF IndInv, Position

(* So does one that is fed a byte. *)
LEMMA FeedStep ==
  ASSUME IndInv, NEW c \in Byte, Feed(c)
  PROVE  IndInv'
<1>1. res = "MORE" /\ input' = Append(input, c) /\ kind' = kind /\ UNCHANGED kind
  BY DEF Feed
<1>2. TypeOK /\ Position
  BY DEF IndInv
<1>3. CASE handshake_parser_feed(c)
  <2>1. kind = "hello"
    BY <1>3 DEF handshake_parser_feed
  <2> QED BY <1>1, <1>2, <1>3, <2>1, HelloStep, HelloType DEF IndInv, Position
<1>4. CASE auth_parser_feed(c)
  <2>1. kind = "auth"
    BY <1>4 DEF auth_parser_feed
  <2> QED BY <1>1, <1>2, <1>4, <2>1, AuthStep, AuthType DEF IndInv, Position
<1>5. CASE conn_req_parser_feed(c)
  <2>1. kind = "req" /\ RequestAt
    BY <1>2, <1>5 DEF conn_req_parser_feed, Position
  <2> QED BY <1>1, <1>2, <1>5, <2>1, RequestStep, RequestType DEF IndInv, Position
<1> QED BY <1>3, <1>4, <1>5 DEF Feed

(* The inductive step. *)
LEMMA IndInvStep ==
  ASSUME IndInv, [Next]_vars
  PROVE  IndInv'
<1>1. ASSUME NEW c \in Fed, Feed(c) PROVE IndInv'
  BY <1>1, FeedStep, DataAssumption DEF Fed
<1>2. ASSUME NEW c \in Fed, ClassesOverrun(c) PROVE IndInv'
  <2>1. /\ res = "MORE" /\ res' = "ABORTED"
        /\ kind' = kind /\ state' = state /\ p' = p /\ input' = input
    BY <1>2 DEF ClassesOverrun
  <2>2. TypeOK' /\ ArraysInBounds'
    BY <2>1 DEF IndInv, TypeOK, ArraysInBounds
  <2>3. Verdict'
    BY <2>1 DEF IndInv, Verdict, IsWrong, UnknownMethod, ZeroLength, Promising
  <2>4. Position'
    BY <2>1 DEF IndInv, Position, HelloAt, HelloSays, AuthAt, NameAnnounced, NameRead, PasswordAnnounced,
                RequestAt, RequestBegun, AddrAt, AddrLen, AddrEnd
  <2> QED BY <2>2, <2>3, <2>4 DEF IndInv
<1>3. CASE NextParser
  BY <1>3, FreshStep DEF NextParser
<1>4. CASE NewConnection
  BY <1>4, FreshStep DEF NewConnection
<1>5. CASE UNCHANGED vars
  <2>1. kind' = kind /\ state' = state /\ p' = p /\ input' = input /\ res' = res
    BY <1>5 DEF vars
  <2>2. TypeOK' /\ ArraysInBounds'
    BY <2>1 DEF IndInv, TypeOK, ArraysInBounds
  <2>3. Verdict'
    BY <2>1 DEF IndInv, Verdict, IsWrong, UnknownMethod, ZeroLength, Promising
  <2>4. Position'
    BY <2>1 DEF IndInv, Position, HelloAt, HelloSays, AuthAt, NameAnnounced, NameRead, PasswordAnnounced,
                RequestAt, RequestBegun, AddrAt, AddrLen, AddrEnd
  <2> QED BY <2>2, <2>3, <2>4 DEF IndInv
<1> QED BY <1>1, <1>2, <1>3, <1>4, <1>5 DEF Next

(* What a parser has stored, and the state it is in, say which bytes it has  *)
(* been fed.                                                                 *)
THEOREM Invariance == Spec => []IndInv
<1>1. Init => IndInv
  BY FreshStart DEF Init
<1> QED BY <1>1, IndInvStep, PTL DEF Spec

-----------------------------------------------------------------------------
(* No name, password or address is longer than the array it is stored in,    *)
(* its terminating zero included: the counters of one byte do not wrap.      *)
THEOREM StoresStayInBounds == Spec => []ArraysInBounds
  BY Invariance, PTL DEF IndInv

(* The elements of the input are bytes. *)
LEMMA InputBytes ==
  ASSUME IndInv, NEW i \in 1..Len(input)
  PROVE  input[i] \in Byte /\ input[i] \in Nat /\ input[i] < Base
<1>1. input[i] \in Byte
  BY ElementOfSeq DEF IndInv, TypeOK
<1> QED BY <1>1, BaseAssumption DEF Byte

(* Outside the error state no byte is wrong. *)
LEMMA GoodIsNotWrong ==
  ASSUME IndInv, state # "ERROR"
  PROVE  ~IsWrong
<1>1. Len(input) \in Nat /\ kind \in {"hello", "auth", "req"}
  BY LenProperties DEF IndInv, TypeOK
<1>2. ASSUME state = "VERSION" PROVE Len(input) = 0
  BY <1>2, EmptySeq DEF IndInv, Verdict
<1>3. CASE kind = "hello"
  <2>1. HelloAt
    BY <1>3 DEF IndInv, Position
  <2>2. ASSUME Len(input) >= 2 PROVE input[2] \in Byte
    BY <1>1, <2>2, InputBytes
  <2>3. Len(input) >= 1 => input[1] = 5
    BY <1>1, <1>2, <2>1 DEF HelloAt
  <2>4. \A i \in 3..Len(input) : input[i] \in Methods
    BY <1>1, <1>2, <2>1 DEF HelloAt
  <2>5. ~UnknownMethod
    BY <1>3, <2>4 DEF UnknownMethod
  <2>6. CASE Len(input) >= 2 /\ input[2] = 0
    BY <1>3, <2>5, <2>6 DEF IsWrong, ZeroLength
  <2>7. CASE ~(Len(input) >= 2 /\ input[2] = 0)
    BY <1>3, <2>2, <2>3, <2>5, <2>7 DEF IsWrong, Promising
  <2> QED BY <2>6, <2>7
<1>4. CASE kind = "auth"
  <2>1. AuthAt
    BY <1>4 DEF IndInv, Position
  <2>2. ASSUME Len(input) >= 2 PROVE input[2] \in Nat
    BY <1>1, <2>2, InputBytes
  <2>3. Len(input) >= 1 => input[1] = 1
    BY <1>1, <1>2, <2>1 DEF AuthAt, NameRead, NameAnnounced, PasswordAnnounced
  <2>4. Len(input) >= 2 => input[2] \in Byte \ {0}
    <3>1. Len(input) >= 2 => input[2] > 0
      BY <1>1, <1>2, <2>1 DEF AuthAt, NameRead, NameAnnounced, PasswordAnnounced
    <3>2. Len(input) >= 2 => input[2] \in Byte
      BY <1>1, InputBytes
    <3> QED BY <3>1, <3>2
  <2>5. ASSUME Len(input) > 2, Len(input) >= 3 + input[2] PROVE input[3 + input[2]] \in Byte \ {0}
    <3>0. input[2] \in Nat
      BY <1>1, <2>2, <2>5
    <3>1. input[3 + input[2]] > 0
      BY <1>1, <1>2, <2>1, <2>5, <3>0 DEF AuthAt, NameRead, NameAnnounced, PasswordAnnounced
    <3>2. input[3 + input[2]] \in Byte
      <4>1. 3 + input[2] \in 1..Len(input)
        BY <1>1, <2>5, <3>0
      <4> QED BY <4>1, InputBytes
    <3> QED BY <3>1, <3>2
  <2>6. Promising(input)
    BY <1>4, <2>3, <2>4, <2>5 DEF Promising
  <2> QED BY <1>4, <2>6 DEF IsWrong, UnknownMethod
<1>5. CASE kind = "req"
  <2>1. RequestAt
    BY <1>5 DEF IndInv, Position
  <2>2. /\ Len(input) >= 1 => input[1] = 5
        /\ Len(input) >= 2 => input[2] \in Commands
        /\ Len(input) >= 3 => input[3] = 0
        /\ Len(input) >= 4 => input[4] \in {IPV4, DOMAIN_NAME, IPV6}
    BY <1>1, <1>2, <2>1 DEF RequestAt, RequestBegun
  <2>3. ASSUME Len(input) >= 5 PROVE input[5] \in Byte
    BY <1>1, <2>3, InputBytes
  <2>4. ~UnknownMethod
    BY <1>5 DEF UnknownMethod
  <2>5. CASE Len(input) >= 5 /\ input[4] = DOMAIN_NAME /\ input[5] = 0
    BY <1>5, <2>4, <2>5 DEF IsWrong, ZeroLength
  <2>6. CASE ~(Len(input) >= 5 /\ input[4] = DOMAIN_NAME /\ input[5] = 0)
    <3>1. Promising(input)
      BY <1>1, <1>5, <2>2, <2>3, <2>6 DEF Promising
    <3> QED BY <2>4, <3>1 DEF IsWrong
  <2> QED BY <2>5, <2>6
<1> QED BY <1>1, <1>3, <1>4, <1>5

(* A connection is dropped at the first byte that no message of the RFCs has *)
(* there, and for no other byte, but for methods without a name and lengths  *)
(* of zero, which are the two deviations of the code.                        *)
THEOREM ErrorsAreReal == Spec => []ErrorIsWrong
<1>1. IndInv => ErrorIsWrong
  BY GoodIsNotWrong DEF IndInv, Verdict, ErrorIsWrong, IsWrong
<1> QED BY <1>1, Invariance, PTL

-----------------------------------------------------------------------------
(* The bytes s are the first of the message m. *)
Begins(s, m) == Len(s) <= Len(m) /\ \A i \in 1..Len(s) : m[i] = s[i]

(* The beginning of a message has no wrong byte. *)
LEMMA BeginningIsPromising ==
  ASSUME NEW m \in Seq(Byte), IsA(kind, m), Begins(input, m), input \in Seq(Byte),
         kind \in {"hello", "auth", "req"}
  PROVE  Promising(input)
<1> DEFINE l == Len(m)
           n == Len(input)
<1>1. l \in Nat /\ n \in Nat /\ n <= l /\ \A i \in 1..n : m[i] = input[i]
  BY LenProperties DEF Begins
<1>2. \A i \in 1..l : m[i] \in Byte /\ m[i] \in Nat
  BY ElementOfSeq, BaseAssumption DEF Byte
<1> HIDE DEF l, n
<1>3. CASE kind = "hello"
  <2>1. l > 2 /\ m[1] = 5 /\ m[2] > 0
    BY <1>3 DEF IsA, IsHello, l
  <2>2. m[2] \in Byte \ {0}
    BY <1>1, <1>2, <2>1
  <2>3. (n >= 1 => input[1] = 5) /\ (n >= 2 => input[2] \in Byte \ {0})
    BY <1>1, <2>1, <2>2
  <2> QED BY <1>3, <2>3 DEF Promising, n
<1>4. CASE kind = "auth"
  <2>1. l > 3 /\ m[1] = 1 /\ m[2] > 0 /\ l > 3 + m[2] /\ m[3 + m[2]] > 0
    BY <1>4 DEF IsA, IsAuth, l
  <2>2. m[2] \in Byte /\ m[2] \in Nat /\ m[2] # 0
    BY <1>1, <1>2, <2>1
  <2>3. m[3 + m[2]] \in Byte \ {0}
    BY <1>1, <1>2, <2>1, <2>2
  <2>4. (n >= 1 => input[1] = 1) /\ (n >= 2 => input[2] = m[2])
    BY <1>1, <2>1
  <2>5. ASSUME n > 2, n >= 3 + input[2] PROVE input[3 + input[2]] \in Byte \ {0}
    <3>1. input[2] = m[2]
      BY <1>1, <2>4, <2>5
    <3>2. 3 + m[2] \in 1..n
      BY <1>1, <2>2, <2>5, <3>1
    <3> QED BY <1>1, <2>3, <3>1, <3>2
  <2>6. n >= 2 => input[2] \in Byte \ {0}
    BY <2>2, <2>4
  <2> QED BY <1>4, <2>4, <2>5, <2>6 DEF Promising, n
<1>5. CASE kind = "req"
  <2>1. l > 6 /\ m[1] = 5 /\ m[2] \in Commands /\ m[3] = 0
    BY <1>5 DEF IsA, IsRequest, l
  <2>2. m[4] \in {IPV4, DOMAIN_NAME, IPV6} /\ (m[4] = DOMAIN_NAME => m[5] > 0)
    BY <1>5 DEF IsA, IsRequest, IPV4, DOMAIN_NAME, IPV6
  <2>3. m[4] = DOMAIN_NAME => m[5] \in Byte \ {0}
    BY <1>1, <1>2, <2>1, <2>2
  <2>4. /\ n >= 1 => input[1] = m[1]
        /\ n >= 2 => input[2] = m[2]
        /\ n >= 3 => input[3] = m[3]
        /\ n >= 4 => input[4] = m[4]
        /\ n >= 5 => input[5] = m[5] /\ input[4] = m[4]
    BY <1>1, <2>1
  <2>5. n > 4 => n >= 5
    BY <1>1
  <2> QED BY <1>5, <2>1, <2>2, <2>3, <2>4, <2>5 DEF Promising, n
<1> QED BY <1>3, <1>4, <1>5

(* Where a connection is dropped, other than for a method without a name, no *)
(* way to go on would have made a message of what has been received.         *)
NothingIsLost == res = "ERROR" /\ ~UnknownMethod =>
                   \A m \in Seq(Byte) : IsA(kind, m) => ~Begins(input, m)

(* A client is never dropped in a message of the RFCs, of any length, except *)
(* in a hello that offers a method without a name.                           *)
THEOREM GoodIsKept == Spec => []NothingIsLost
<1>1. IndInv => NothingIsLost
  <2> SUFFICES ASSUME IndInv, res = "ERROR", ~UnknownMethod,
                      NEW m \in Seq(Byte), IsA(kind, m), Begins(input, m)
               PROVE  FALSE
    BY DEF NothingIsLost
  <2>1. ~Promising(input)
    BY DEF IndInv, Verdict, IsWrong
  <2>2. input \in Seq(Byte) /\ kind \in {"hello", "auth", "req"}
    BY DEF IndInv, TypeOK
  <2> QED BY <2>1, <2>2, BeginningIsPromising
<1> QED BY <1>1, Invariance, PTL

(* A message of the grammar has no wrong byte. *)
LEMMA MessageIsPromising ==
  ASSUME IndInv, IsMessage
  PROVE  Promising(input)
<1>1. input \in Seq(Byte) /\ kind \in {"hello", "auth", "req"} /\ Begins(input, input)
  BY LenProperties DEF IndInv, TypeOK, Begins
<1> QED BY <1>1, BeginningIsPromising DEF IsMessage

(* The parts of a complete request. *)
LEMMA RequestEnd ==
  ASSUME IndInv, kind = "req", state \in {"DST_ADDR", "PORT_BYTE1", "PORT_BYTE2", "DONE"}
  PROVE  /\ RequestAt /\ RequestBegun
         /\ AddrAt \in {4, 5} /\ AddrLen \in Nat /\ AddrEnd \in Nat /\ AddrEnd > AddrAt
         /\ IsRequest(input) => Len(input) = AddrEnd + 2
         /\ Len(input) = AddrEnd + 2 =>
              IsRequest(input) \/ (Len(input) = 8 /\ input[4] = DOMAIN_NAME /\ input[5] = 0)
<1>1. Len(input) \in Nat /\ input \in Seq(Byte)
  BY LenProperties DEF IndInv, TypeOK
<1>2. RequestAt /\ RequestBegun /\ Len(input) >= AddrAt
  BY DEF IndInv, Position, RequestAt
<1>3. /\ AddrAt \in {4, 5} /\ AddrLen \in Nat /\ AddrEnd \in Nat
      /\ AddrEnd = IF AddrLen = 0 THEN AddrAt + 1 ELSE AddrAt + AddrLen
  BY <1>1, <1>2, PartsOfRequest
<1>4. AddrEnd > AddrAt
  BY <1>3
<1>5. /\ input[1] = 5 /\ input[2] \in Commands /\ input[3] = 0 /\ input[4] \in {1, 3, 4}
      /\ AddrAt = (IF input[4] = 3 THEN 5 ELSE 4)
      /\ input[4] = 1 => AddrLen = Ipv4Len
      /\ input[4] = 4 => AddrLen = Ipv6Len
      /\ input[4] = 3 => AddrLen = input[5]
  BY <1>2 DEF RequestBegun, AddrAt, AddrLen, IPV4, IPV6, DOMAIN_NAME
<1>6. Ipv4Len \in Nat /\ Ipv4Len > 0 /\ Ipv6Len \in Nat /\ Ipv6Len > 0
  BY LenAssumption, BaseAssumption
<1>7. IsRequest(input) => Len(input) = AddrEnd + 2
  BY <1>1, <1>3, <1>5, <1>6 DEF IsRequest, IPV4, IPV6, DOMAIN_NAME
<1>8. ASSUME Len(input) = AddrEnd + 2
      PROVE  IsRequest(input) \/ (Len(input) = 8 /\ input[4] = DOMAIN_NAME /\ input[5] = 0)
  <2>1. CASE AddrLen = 0
    BY <1>3, <1>5, <1>6, <1>8, <2>1 DEF DOMAIN_NAME
  <2>2. CASE AddrLen # 0
    <3>1. Len(input) > 6
      BY <1>3, <1>8, <2>2
    <3> QED BY <1>3, <1>5, <1>8, <2>2, <3>1 DEF IsRequest, IPV4, IPV6, DOMAIN_NAME
  <2> QED BY <2>1, <2>2
<1> QED BY <1>2, <1>3, <1>4, <1>7, <1>8

(* A parser is done at the last byte of a message and not before. *)
LEMMA EndIsSeen ==
  ASSUME IndInv
  PROVE  DoneAtTheEnd
<1>0. Verdict /\ Position /\ kind \in {"hello", "auth", "req"}
  BY DEF IndInv, TypeOK
<1>1. Len(input) \in Nat
  BY LenProperties DEF IndInv, TypeOK
<1>2. ASSUME NEW i \in {1, 2, 3, 4, 5}, Len(input) >= i PROVE input[i] \in Nat
  BY <1>1, <1>2, InputBytes
<1>3. ASSUME IsMessage, ~UnknownMethod PROVE state # "ERROR" /\ state # "VERSION"
  <2>1. state # "ERROR"
    BY <1>0, <1>3, MessageIsPromising DEF Verdict, IsWrong
  <2>2. Len(input) > 2 \/ Len(input) > 3 \/ Len(input) > 6
    BY <1>0, <1>3 DEF IsMessage, IsA, IsHello, IsAuth, IsRequest
  <2>3. Len(input) # 0
    BY <1>1, <2>2
  <2> QED BY <1>0, <2>1, <2>3, EmptySeq DEF Verdict
<1>4. CASE kind = "hello"
  <2>1. HelloAt
    BY <1>0, <1>4 DEF Position
  <2>2. IsMessage /\ ~UnknownMethod => res = "DONE"
    <3>1. ASSUME IsMessage, state = "NMETHODS" PROVE FALSE
      <4>1. Len(input) = 1 /\ Len(input) > 2
        BY <1>4, <2>1, <3>1 DEF HelloAt, IsMessage, IsA, IsHello
      <4> QED BY <4>1
    <3>2. ASSUME IsMessage, state = "METHODS" PROVE FALSE
      <4>1. Len(input) > 2 /\ Len(input) = 2 + input[2] /\ (Len(input) = 2 \/ Len(input) < 2 + input[2])
        BY <1>4, <2>1, <3>2 DEF HelloAt, IsMessage, IsA, IsHello
      <4> QED BY <1>1, <1>2, <4>1
    <3> QED BY <1>0, <1>3, <2>1, <3>1, <3>2 DEF HelloAt, Verdict
  <2>3. ASSUME res = "DONE"
        PROVE  IsMessage \/ (ZeroLength /\ Len(input) = 3 /\ ~p.no_auth /\ ~p.user_pass_auth)
    <3>1. state = "DONE" /\ Len(input) >= 2
      BY <1>0, <2>1, <2>3 DEF Verdict, HelloAt
    <3>2. input[2] \in Nat
      BY <1>2, <3>1
    <3> QED BY <1>1, <1>4, <2>1, <3>1, <3>2 DEF HelloAt, IsMessage, IsA, IsHello, ZeroLength
  <2>4. ZeroLength => ~IsMessage
    <3>1. ASSUME ZeroLength, IsMessage PROVE FALSE
      <4>1. input[2] = 0 /\ input[2] > 0
        BY <1>4, <3>1 DEF ZeroLength, IsMessage, IsA, IsHello
      <4> QED BY <4>1
    <3> QED BY <3>1
  <2> QED BY <1>4, <2>2, <2>3, <2>4 DEF DoneAtTheEnd
<1>5. CASE kind = "auth"
  <2>1. AuthAt
    BY <1>0, <1>5 DEF Position
  <2>2. IsMessage /\ ~UnknownMethod => res = "DONE"
    <3>1. ASSUME IsMessage, state # "DONE" PROVE FALSE
      <4> DEFINE l == Len(input)
                 u == input[2]
                 w == input[3 + u]
      <4>1. l > 3 /\ u > 0 /\ l > 3 + u /\ w > 0 /\ l = (3 + u) + w
        BY <1>5, <3>1 DEF IsMessage, IsA, IsAuth
      <4>2. l \in Nat /\ u \in Nat
        BY <1>1, <1>2, <4>1
      <4>3. w \in Nat
        <5>1. 3 + u \in 1..Len(input)
          BY <4>1, <4>2
        <5> QED BY <5>1, InputBytes
      <4>4. state \in {"USERNAME_LEN", "USERNAME", "PASSWORD_LEN", "PASSWORD"}
        BY <1>3, <1>5, <2>1, <3>1 DEF AuthAt, UnknownMethod
      <4>5. /\ state = "USERNAME_LEN" => l = 1
            /\ state = "USERNAME" => l < 2 + u
            /\ state = "PASSWORD_LEN" => l = 2 + u
            /\ state = "PASSWORD" => l < (3 + u) + w
        BY <2>1 DEF AuthAt
      <4> HIDE DEF l, u, w
      <4> QED BY <4>1, <4>2, <4>3, <4>4, <4>5
    <3> QED BY <1>0, <3>1 DEF Verdict
  <2>3. ASSUME res = "DONE" PROVE IsMessage
    <3>1. state = "DONE"
      BY <1>0, <2>3 DEF Verdict
    <3> DEFINE l == Len(input)
               u == input[2]
               w == input[3 + u]
    <3>2. l >= 2 /\ input[1] = 1 /\ u > 0 /\ l >= 3 + u /\ w > 0 /\ l = (3 + u) + w
      BY <2>1, <3>1 DEF AuthAt, PasswordAnnounced, NameRead, NameAnnounced
    <3>3. l \in Nat /\ u \in Nat
      BY <1>1, <1>2, <3>2
    <3>4. w \in Nat
      <4>1. 3 + u \in 1..Len(input)
        BY <3>2, <3>3
      <4> QED BY <4>1, InputBytes
    <3>5. l > 3 /\ l > 3 + u
      <4> HIDE DEF l, u, w
      <4> QED BY <3>2, <3>3, <3>4
    <3> QED BY <1>5, <3>2, <3>5 DEF IsMessage, IsA, IsAuth
  <2> QED BY <1>5, <2>2, <2>3 DEF DoneAtTheEnd
<1>6. CASE kind = "req"
  <2>1. RequestAt
    BY <1>0, <1>6 DEF Position
  <2>2. IsMessage /\ ~UnknownMethod => res = "DONE"
    <3>1. ASSUME IsMessage, state \in {"CMD", "RSV", "ATYP", "DOM_LEN"} PROVE FALSE
      <4>1. Len(input) > 6
        BY <1>6, <3>1 DEF IsMessage, IsA, IsRequest
      <4> DEFINE l == Len(input)
      <4>2. l = 1 \/ l = 2 \/ l = 3 \/ l = 4
        BY <2>1, <3>1 DEF RequestAt
      <4>3. l > 6
        BY <4>1
      <4> HIDE DEF l
      <4>4. l <= 4
        BY <4>2
      <4> QED BY <4>2, <4>3, <4>4
    <3>2. ASSUME IsMessage, state \in {"DST_ADDR", "PORT_BYTE1", "PORT_BYTE2"} PROVE FALSE
      <4>1. Len(input) = AddrEnd + 2 /\ AddrEnd \in Nat
        BY <1>6, <3>2, RequestEnd DEF IsMessage, IsA
      <4>2. \/ Len(input) < AddrEnd \/ Len(input) = AddrEnd \/ Len(input) = AddrEnd + 1
        BY <2>1, <3>2 DEF RequestAt
      <4> QED BY <4>1, <4>2
    <3> QED BY <1>0, <1>3, <2>1, <3>1, <3>2 DEF RequestAt, Verdict
  <2>3. ASSUME res = "DONE" PROVE IsMessage \/ (ZeroLength /\ Len(input) = 8)
    <3>1. state = "DONE"
      BY <1>0, <2>3 DEF Verdict
    <3>2. Len(input) = AddrEnd + 2
      BY <2>1, <3>1 DEF RequestAt
    <3> QED BY <1>6, <3>1, <3>2, RequestEnd DEF IsMessage, IsA, ZeroLength
  <2> QED BY <1>6, <2>2, <2>3 DEF DoneAtTheEnd
<1> QED BY <1>0, <1>4, <1>5, <1>6

(* A message of any length is complete at its last byte, and what is        *)
(* complete is a message or one of the two messages with a length of zero.   *)
THEOREM DoneExactlyAtTheEnd == Spec => []DoneAtTheEnd
  BY EndIsSeen, Invariance, PTL

(* The fields of a complete message. *)
LEMMA FieldsFromMessage ==
  ASSUME IndInv
  PROVE  FieldsAreRead
<1> SUFFICES ASSUME res = "DONE", IsMessage
             PROVE  CASE kind = "hello" -> HelloSays(input)
                      [] kind = "auth" -> AuthSays(input)
                      [] kind = "req" -> RequestSays(input)
  BY DEF FieldsAreRead
<1>0. state = "DONE" /\ Position /\ kind \in {"hello", "auth", "req"} /\ Len(input) \in Nat
  BY LenProperties DEF IndInv, Verdict, TypeOK
<1>1. CASE kind = "hello"
  <2>1. HelloAt /\ input[2] > 0
    BY <1>0, <1>1 DEF Position, IsMessage, IsA, IsHello
  <2>2. input[2] # 0
    BY <2>1
  <2> QED BY <1>0, <1>1, <2>1, <2>2 DEF HelloAt
<1>2. CASE kind = "auth"
  <2>1. AuthAt /\ Len(input) > 3
    BY <1>0, <1>2 DEF Position, IsMessage, IsA, IsAuth
  <2>2. /\ p.username = SubSeq(input, 3, 2 + input[2])
        /\ p.password = SubSeq(input, 1 + (3 + input[2]), Len(input))
    BY <1>0, <2>1 DEF AuthAt, PasswordAnnounced, NameRead
  <2>3. input[2] \in Nat
    BY <1>0, <2>1, InputBytes
  <2>4. 1 + (3 + input[2]) = 4 + input[2]
    BY <2>3
  <2> QED BY <1>2, <2>2, <2>4 DEF AuthSays
<1>3. CASE kind = "req"
  <2>1. RequestAt /\ RequestBegun /\ AddrEnd \in Nat /\ AddrAt \in {4, 5}
    BY <1>0, <1>3, RequestEnd
  <2>2. /\ Len(input) = AddrEnd + 2 /\ p.dst_addr = SubSeq(input, AddrAt + 1, AddrEnd)
        /\ p.dst_port = input[AddrEnd + 1] * Base + input[AddrEnd + 2]
    BY <1>0, <2>1 DEF RequestAt
  <2>3. Len(input) - 2 = AddrEnd /\ Len(input) - 1 = AddrEnd + 1
    BY <2>1, <2>2
  <2>4. AddrAt + 1 = IF input[4] = DOMAIN_NAME THEN 6 ELSE 5
    BY DEF AddrAt
  <2>5. p.cmd = input[2] /\ p.atyp = input[4]
    BY <2>1 DEF RequestBegun
  <2> QED BY <1>3, <2>2, <2>3, <2>4, <2>5 DEF RequestSays
<1> QED BY <1>0, <1>1, <1>2, <1>3

(* What the handlers read after a message is what the message says, for      *)
(* methods, names, passwords and addresses of every length.                  *)
THEOREM MessagesAreRead == Spec => []FieldsAreRead
  BY FieldsFromMessage, Invariance, PTL
=============================================================================
