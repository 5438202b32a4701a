------------------------------ MODULE Parsers ------------------------------
(* The parsers of src/server/socks5/parsers: they are fed one byte at a     *)
(* time, in whatever pieces the bytes arrive, and say after each one        *)
(* whether the message is complete, wrong, or goes on.  The tables of       *)
(* transitions and the functions that evaluate them (utils/parser.c) are    *)
(* one step: the event of a transition carries the name of the state it     *)
(* leaves, or is the error.                                                 *)
(*                                                                          *)
(* A connection uses a new parser for each message.  What its handlers do   *)
(* with a message is in Socks5.                                             *)
EXTENDS Naturals, Sequences

CONSTANTS Base,     \* 256, the number of values of a byte
          Ipv4Len,  \* 4 bytes
          Ipv6Len,  \* 16 bytes
          Data,     \* bytes that appear in names, addresses and ports
          MaxInput  \* bound on the bytes of a message

Byte == 0..(Base - 1)

ASSUME BaseAssumption == Base \in Nat /\ Base > 6
ASSUME LenAssumption == Ipv4Len \in 1..(Base - 1) /\ Ipv6Len \in 1..(Base - 1)
ASSUME DataAssumption == Data \subseteq Byte /\ MaxInput \in Nat

SOCKS5_VERSION == 5
SOCKS5_SUBNEGOTIATION_VERSION == 1
NO_AUTH == 0
USER_PASS == 2
Methods == 0..2  \* no authentication, GSSAPI, user and password
Commands == 1..3 \* CONNECT, BIND, UDP ASSOCIATE
IPV4 == 1
DOMAIN_NAME == 3
IPV6 == 4

VARIABLES kind,  \* which of the three parsers: "hello", "auth" or "req"
          state, \* its state
          p,     \* its fields
          res,   \* what the last feed returned, or "ABORTED" when it did not return
          input  \* the bytes it has been fed

vars == <<kind, state, p, res, input>>

(* The fields that the three *_parser_init functions set.  An array and the  *)
(* count of its bytes are one sequence.                                      *)
parser_init == [nmethods |-> 0, method_count |-> 0, no_auth |-> FALSE, user_pass_auth |-> FALSE,
                username_len |-> 0, username |-> << >>, password_len |-> 0, password |-> << >>,
                cmd |-> 0, atyp |-> 0, dst_addr_len |-> 0, dst_addr |-> << >>, dst_port |-> 0]

Fresh(k) == /\ kind' = k /\ state' = "VERSION"
            /\ p' = parser_init
            /\ res' = "MORE" /\ input' = << >>

Init == /\ kind = "hello" /\ state = "VERSION"
        /\ p = parser_init
        /\ res = "MORE" /\ input = << >>

-----------------------------------------------------------------------------
To(s) == state' = s /\ res' = "MORE"
Complete == state' = "DONE" /\ res' = "DONE"
Fail == state' = "ERROR" /\ res' = "ERROR" /\ UNCHANGED p
\* mutant of Expect: the byte is not looked at
ExpectAny(ok, s) == To(s)

Expect(ok, s) == IF ok THEN To(s) ELSE Fail

(* A counter of one byte. *)
Next1(n) == (n + 1) % Base

\* mutant of Filled: the last byte is not counted
FilledLate(n, len) == Next1(n) > len

(* Of an array that has n bytes, the one that is being stored is the last. *)
Filled(n, len) == Next1(n) >= len

Port(hi, lo) == ((hi * Base) % (Base * Base)) + lo

-----------------------------------------------------------------------------
\* mutant of HandshakeMethods: the test for the end comes before the method is noted
MethodsLastLost(c) ==
  LET n == Next1(p.method_count) IN
  IF c \notin Methods THEN Fail
  ELSE IF p.nmethods <= n
    THEN Complete /\ p' = [p EXCEPT !.method_count = n]
    ELSE /\ p' = [p EXCEPT !.method_count = n,
                           !.no_auth = @ \/ c = NO_AUTH,
                           !.user_pass_auth = @ \/ c = USER_PASS]
         /\ To("METHODS")

(* A method that the server does not know ends the handshake. *)
HandshakeMethods(c) ==
  LET n == Next1(p.method_count) IN
  IF c \notin Methods THEN Fail
  ELSE IF p.nmethods < n
    THEN Complete /\ p' = [p EXCEPT !.method_count = n]
    ELSE /\ p' = [p EXCEPT !.method_count = n,
                           !.no_auth = @ \/ c = NO_AUTH,
                           !.user_pass_auth = @ \/ c = USER_PASS]
         /\ IF p.nmethods = n THEN Complete ELSE To("METHODS")

handshake_parser_feed(c) ==
  /\ kind = "hello"
  /\ \/ state = "VERSION" /\ Expect(c = SOCKS5_VERSION, "NMETHODS") /\ UNCHANGED p
     \/ state = "NMETHODS" /\ To("METHODS") /\ p' = [p EXCEPT !.nmethods = c]
     \/ state = "METHODS" /\ HandshakeMethods(c)

-----------------------------------------------------------------------------
auth_parser_feed(c) ==
  /\ kind = "auth"
  /\ \/ state = "VERSION" /\ Expect(c = SOCKS5_SUBNEGOTIATION_VERSION, "USERNAME_LEN")
        /\ UNCHANGED p
     \/ state = "USERNAME_LEN" /\ c = 0 /\ Fail
     \/ state = "USERNAME_LEN" /\ c # 0 /\ To("USERNAME")
        /\ p' = [p EXCEPT !.username_len = c]
     \/ /\ state = "USERNAME"
        /\ p' = [p EXCEPT !.username = Append(@, c)]
        /\ IF Filled(Len(p.username), p.username_len) THEN To("PASSWORD_LEN") ELSE To("USERNAME")
     \/ state = "PASSWORD_LEN" /\ c = 0 /\ Fail
     \/ state = "PASSWORD_LEN" /\ c # 0 /\ To("PASSWORD")
        /\ p' = [p EXCEPT !.password_len = c]
     \/ /\ state = "PASSWORD"
        /\ p' = [p EXCEPT !.password = Append(@, c)]
        /\ IF Filled(Len(p.password), p.password_len) THEN Complete ELSE To("PASSWORD")

-----------------------------------------------------------------------------
\* mutant of RequestAddrType: the length that the type implies is left out
AddrTypeNoLength(c) ==
  IF c \in {IPV4, DOMAIN_NAME, IPV6}
    THEN /\ p' = [p EXCEPT !.atyp = c]
         /\ To(IF c = DOMAIN_NAME THEN "DOM_LEN" ELSE "DST_ADDR")
    ELSE Fail

RequestAddrType(c) ==
  IF c \in {IPV4, DOMAIN_NAME, IPV6}
    THEN /\ p' = [p EXCEPT !.atyp = c,
                           !.dst_addr_len = CASE c = IPV4 -> Ipv4Len
                                              [] c = IPV6 -> Ipv6Len
                                              [] OTHER -> @]
         /\ To(IF c = DOMAIN_NAME THEN "DOM_LEN" ELSE "DST_ADDR")
    ELSE Fail

conn_req_parser_feed(c) ==
  /\ kind = "req"
  /\ \/ state = "VERSION" /\ Expect(c = SOCKS5_VERSION, "CMD") /\ UNCHANGED p
     \/ state = "CMD" /\ c \in Commands /\ To("RSV") /\ p' = [p EXCEPT !.cmd = c]
     \/ state = "CMD" /\ c \notin Commands /\ Fail
     \/ state = "RSV" /\ Expect(c = 0, "ATYP") /\ UNCHANGED p
     \/ state = "ATYP" /\ RequestAddrType(c)
     \/ state = "DOM_LEN" /\ To("DST_ADDR") /\ p' = [p EXCEPT !.dst_addr_len = c]
     \/ /\ state = "DST_ADDR"
        /\ p' = [p EXCEPT !.dst_addr = Append(@, c)]
        /\ To(IF Filled(Len(p.dst_addr), p.dst_addr_len) THEN "PORT_BYTE1" ELSE "DST_ADDR")
     \/ state = "PORT_BYTE1" /\ To("PORT_BYTE2") /\ p' = [p EXCEPT !.dst_port = c]
     \/ state = "PORT_BYTE2" /\ Complete
        /\ p' = [p EXCEPT !.dst_port = Port(@, c)]

-----------------------------------------------------------------------------
(* Any byte may come at any time; where the tables do not look at it, a few  *)
(* values are enough.                                                        *)
Fed == IF state \in {"USERNAME", "PASSWORD", "DST_ADDR", "PORT_BYTE1", "PORT_BYTE2"}
         THEN Data ELSE Byte

(* classes[] has an entry less than there are bytes.  The value read for the  *)
(* last one is not used: a release build goes on, and the default build stops *)
(* the process.                                                               *)
ClassesOverrun(c) ==
  /\ res = "MORE" /\ c = Base - 1
  /\ res' = "ABORTED"
  /\ UNCHANGED <<kind, state, p, input>>

Feed(c) ==
  /\ res = "MORE" /\ Len(input) < MaxInput
  /\ handshake_parser_feed(c) \/ auth_parser_feed(c) \/ conn_req_parser_feed(c)
  /\ input' = Append(input, c)
  /\ UNCHANGED kind

(* The parser that the connection starts after a message: handshake_write    *)
(* and auth_write.                                                           *)
NextParser ==
  /\ res = "DONE"
  /\ \/ kind = "hello" /\ p.user_pass_auth /\ Fresh("auth")
     \/ kind = "hello" /\ p.no_auth /\ ~p.user_pass_auth /\ Fresh("req")
     \/ kind = "auth" /\ Fresh("req")

(* The connection ends, at any byte, and another one begins; after an abort   *)
(* the process is started again.                                              *)
NewConnection == Fresh("hello")

Next == (\E c \in Fed : Feed(c) \/ ClassesOverrun(c)) \/ NextParser \/ NewConnection

Spec == Init /\ [][Next]_vars

-----------------------------------------------------------------------------
TypeOK ==
  /\ kind \in {"hello", "auth", "req"}
  /\ state \in {"VERSION", "NMETHODS", "METHODS", "USERNAME_LEN", "USERNAME", "PASSWORD_LEN",
                "PASSWORD", "CMD", "RSV", "ATYP", "DOM_LEN", "DST_ADDR", "PORT_BYTE1",
                "PORT_BYTE2", "DONE", "ERROR"}
  /\ p \in [nmethods : Byte, method_count : Byte, no_auth : BOOLEAN, user_pass_auth : BOOLEAN,
            username_len : Byte, username : Seq(Byte), password_len : Byte, password : Seq(Byte),
            cmd : Byte, atyp : Byte, dst_addr_len : Byte, dst_addr : Seq(Byte),
            dst_port : 0..(Base * Base - 1)]
  /\ res \in {"MORE", "DONE", "ERROR", "ABORTED"}
  /\ input \in Seq(Byte)

(* The messages of RFC 1928 and RFC 1929.  A client may offer any method. *)
IsHello(m) == Len(m) > 2 /\ m[1] = 5 /\ m[2] > 0 /\ Len(m) = 2 + m[2]

IsAuth(m) ==
  /\ Len(m) > 3 /\ m[1] = 1 /\ m[2] > 0
  /\ LET pl == 3 + m[2] IN \* where PLEN is
       Len(m) > pl /\ m[pl] > 0 /\ Len(m) = pl + m[pl]

IsRequest(m) ==
  /\ Len(m) > 6 /\ m[1] = 5 /\ m[2] \in Commands /\ m[3] = 0
  /\ \/ m[4] = IPV4 /\ Len(m) = 4 + Ipv4Len + 2
     \/ m[4] = IPV6 /\ Len(m) = 4 + Ipv6Len + 2
     \/ m[4] = DOMAIN_NAME /\ m[5] > 0 /\ Len(m) = 5 + m[5] + 2

IsA(k, m) == CASE k = "hello" -> IsHello(m)
               [] k = "auth" -> IsAuth(m)
               [] k = "req" -> IsRequest(m)

IsMessage == IsA(kind, input)

(* What the messages say. *)
HelloSays(m) == /\ p.no_auth <=> \E i \in 3..Len(m) : m[i] = NO_AUTH
                /\ p.user_pass_auth <=> \E i \in 3..Len(m) : m[i] = USER_PASS

AuthSays(m) == /\ p.username = SubSeq(m, 3, 2 + m[2])
               /\ p.password = SubSeq(m, 4 + m[2], Len(m))

RequestSays(m) ==
  /\ p.cmd = m[2] /\ p.atyp = m[4]
  /\ p.dst_addr = SubSeq(m, IF m[4] = DOMAIN_NAME THEN 6 ELSE 5, Len(m) - 2)
  /\ p.dst_port = m[Len(m) - 1] * Base + m[Len(m)]

(* The fields that the handlers read after DONE are those of the message, for *)
(* every length of its parts.                                                 *)
FieldsAreRead ==
  res = "DONE" /\ IsMessage => CASE kind = "hello" -> HelloSays(input)
                                 [] kind = "auth" -> AuthSays(input)
                                 [] kind = "req" -> RequestSays(input)

(* Each field received so far has a value that it has in some message. *)
Promising(m) ==
  LET At(i, S) == Len(m) >= i => m[i] \in S IN
  CASE kind = "hello" -> At(1, {5}) /\ At(2, Byte \ {0})
    [] kind = "auth" -> /\ At(1, {1}) /\ At(2, Byte \ {0})
                        /\ Len(m) > 2 => At(3 + m[2], Byte \ {0})
    [] kind = "req" -> /\ At(1, {5}) /\ At(2, Commands) /\ At(3, {0})
                       /\ At(4, {IPV4, DOMAIN_NAME, IPV6})
                       /\ Len(m) > 4 /\ m[4] = DOMAIN_NAME => At(5, Byte \ {0})

(* The code leaves the two RFCs in two places.  It drops a client that offers *)
(* a method other than 0, 1 and 2, also one that offers it beside those.      *)
UnknownMethod == kind = "hello" /\ \E i \in 3..Len(input) : input[i] \notin Methods

(* And it goes on after a count of no methods or the length of an empty name. *)
ZeroLength == \/ kind = "hello" /\ Len(input) >= 2 /\ input[2] = 0
              \/ kind = "req" /\ Len(input) >= 5 /\ input[4] = DOMAIN_NAME /\ input[5] = 0

(* A message is complete at its last byte, neither before (the rest would be  *)
(* taken for the next message) nor later (the client would wait for ever).    *)
(* What is complete without being a message has a length of zero, for which   *)
(* one byte has been taken; a hello of this kind is answered with a refusal.  *)
DoneAtTheEnd == /\ IsMessage /\ ~UnknownMethod => res = "DONE"
                /\ res = "DONE" /\ ~IsMessage =>
                     ZeroLength /\ Len(input) = (IF kind = "hello" THEN 3 ELSE 8)
                /\ res = "DONE" /\ kind = "hello" /\ ZeroLength =>
                     ~p.no_auth /\ ~p.user_pass_auth

(* The connection is dropped at the first byte that no message of the RFCs    *)
(* has there, and for no other, but for the two deviations.                   *)
ErrorIsWrong == res = "ERROR" <=> UnknownMethod \/ (~Promising(input) /\ ~ZeroLength)

(* Every value of a byte can be fed to a parser: 255 is a legal byte of an    *)
(* address, a port, a name or a list of methods.                              *)
AnyByteIsRead == res # "ABORTED"

(* The arrays have 256 bytes and hold a terminating zero behind their bytes. *)
ArraysInBounds == /\ Len(p.username) <= Base - 1
                  /\ Len(p.password) <= Base - 1
                  /\ Len(p.dst_addr) <= Base - 1
=============================================================================
