---------------------------- MODULE Socks5Proofs ----------------------------
(* Proofs about Socks5, for every size of the buffers and sockets, every    *)
(* answer of getaddrinfo() and every behaviour of the environment.          *)
EXTENDS Socks5, TLAPS, SequenceTheorems, WellFoundedInduction

USE DEF buffer_read_adv

-----------------------------------------------------------------------------
(* Where the thread is, the state machine and the registrations agree. *)
Control ==
  /\ pc = "connection_req_read" => st = "CONN_REQ" /\ in # << >>
  /\ srv = "up" /\ pc = "copy_read" => st = "COPY"
  /\ pc = "socksv5_write" => ci = "WRITE"
  /\ pc = "select" => ret = "select"
  /\ ci = "READ" => st \in {"NONE", "HANDSHAKE", "AUTH", "CONN_REQ", "COPY"}
  /\ oh = "connecting" => st = "CONNECTING" /\ ci = "NOOP"
  /\ oh = "copy" => st = "COPY"
  /\ osock # "none" => st \in {"CONNECTING", "COPY"}

(* From the request to the block event the connection has no other event    *)
(* that could reach it: that is what the call that sets OP_NOOP is for.     *)
Resolution ==
  resolver # "idle" => /\ st = "CONNECTING" /\ ci = "NOOP" /\ pc = "select"
                       /\ oh = "none" /\ osock = "none"

Accepts == cmeth = NO_AUTH \/ (cmeth = USER_PASS /\ ccred = 1)

(* A reply of the negotiation is alone in out_buff, from when it is queued   *)
(* and the client's interest is OP_WRITE until it is sent.                   *)
Negotiation ==
  /\ st \notin {"COPY", "FREED"} =>
       IF ci = "WRITE" THEN Len(out) = 1 /\ IsReply(Head(out)) ELSE out = << >>
  /\ pc \in {"handshake_read", "auth_read", "connection_req_read"} => ci # "WRITE"
  /\ pc = "socksv5_write" /\ ret \in {"handshake_read", "auth_read"} =>
       st \in {"HANDSHAKE", "AUTH"}

(* What the client may have in flight, given what it has sent so far. *)
Sent == {m \in Message : /\ m.t = "hello" => m.v = cmeth
                         /\ m.t = "auth" => m.v = ccred /\ cstage \notin {"hello", "auth"}}

InFlight ==
  /\ c2s \in Seq(Sent) /\ in \in Seq(Sent)
  /\ cstage = "hello" => c2s = << >> /\ in = << >>

(* What the connection has made of the client's messages so far. *)
Credentials ==
  /\ cstage = "hello" => st \in {"NONE", "FREED"}
  /\ cstage \in {"hello", "auth"} => ccred = 0
  /\ st = "HANDSHAKE" /\ ci = "WRITE" => meth = cmeth /\ (~err => meth # NO_ACCEPTABLE)
  /\ st = "AUTH" => cmeth = USER_PASS
  /\ st = "AUTH" /\ ci = "WRITE" /\ ~err => ccred = 1
  /\ st \in {"CONN_REQ", "CONNECTING", "COPY"} => Accepts

(* The inductive invariant. *)
IndInv == TypeOK /\ Control /\ Resolution /\ Negotiation /\ InFlight /\ Credentials

-----------------------------------------------------------------------------
(* Sequences and messages. *)

(* The first n elements of a sequence and the others are sequences over the  *)
(* same set, for what recv() and send() take out of a queue or a buffer.     *)
LEMMA TakeDropType ==
  ASSUME NEW S, NEW s \in Seq(S), NEW n \in Int, 0 <= n, n <= Len(s)
  PROVE  /\ Take(s, n) \in Seq(S) /\ Len(Take(s, n)) = n
         /\ \A i \in 1..n : Take(s, n)[i] = s[i]
         /\ Drop(s, n) \in Seq(S) /\ Len(Drop(s, n)) = Len(s) - n
         /\ \A i \in 1..(Len(s) - n) : Drop(s, n)[i] = s[n + i]
<1>1. \A i \in 1..n : s[i] \in S
  BY ElementOfSeq
<1>2. /\ Take(s, n) \in Seq(S) /\ Len(Take(s, n)) = n
      /\ \A i \in 1..n : Take(s, n)[i] = s[i]
  BY <1>1, SubSeqProperties DEF Take
<1>3. Len(s) \in Nat
  BY LenProperties
<1>4. \A i \in (n + 1)..Len(s) : s[i] \in S
  BY <1>3, ElementOfSeq
<1>5. /\ Drop(s, n) \in Seq(S) /\ Len(Drop(s, n)) = Len(s) - n
      /\ \A i \in 1..(Len(s) - n) : Drop(s, n)[i] = s[n + i]
  BY <1>3, <1>4, SubSeqProperties DEF Drop
<1> QED BY <1>2, <1>5

(* recv() takes as much as there is and as fits. *)
LEMMA RecvType ==
  ASSUME NEW S, NEW q \in Seq(S), NEW b \in Seq(S), Room(b) > 0, q # << >>
  PROVE  LET n == Least(Len(q), Room(b)) IN
         /\ n \in Nat /\ 0 < n /\ n <= Len(q)
         /\ b \o Take(q, n) \in Seq(S) /\ b \o Take(q, n) # << >>
         /\ Drop(q, n) \in Seq(S)
<1> DEFINE n == Least(Len(q), Room(b))
<1>1. Len(q) \in Nat /\ Len(b) \in Nat /\ Len(q) # 0
  BY LenProperties, EmptySeq
<1>2. n \in Nat /\ 0 < n /\ n <= Len(q)
  BY <1>1, SizesAssumption DEF Least, Room
<1> HIDE DEF n
<1>3. Take(q, n) \in Seq(S) /\ Drop(q, n) \in Seq(S) /\ Len(Take(q, n)) = n
  BY <1>2, TakeDropType
<1>4. b \o Take(q, n) \in Seq(S) /\ Len(b \o Take(q, n)) = Len(b) + n
  BY <1>3, ConcatProperties
<1>5. b \o Take(q, n) # << >>
  BY <1>1, <1>2, <1>4, EmptySeq
<1> QED BY <1>2, <1>3, <1>4, <1>5 DEF n

(* send() takes no more than there is. *)
LEMMA SendType ==
  ASSUME NEW b \in Seq(Message), NEW q \in Seq(Message), Accepted(b, q) > 0
  PROVE  /\ Accepted(b, q) \in Nat /\ Accepted(b, q) <= Len(b)
         /\ q \o Take(b, Accepted(b, q)) \in Seq(Message)
         /\ Drop(b, Accepted(b, q)) \in Seq(Message)
<1> DEFINE n == Accepted(b, q)
<1>1. Len(q) \in Nat /\ Len(b) \in Nat
  BY LenProperties
<1>2. n \in Nat /\ n <= Len(b)
  BY <1>1, SizesAssumption DEF Accepted, Least
<1> HIDE DEF n
<1>3. Take(b, n) \in Seq(Message) /\ Drop(b, n) \in Seq(Message)
  BY <1>2, TakeDropType
<1>4. q \o Take(b, n) \in Seq(Message)
  BY <1>3, ConcatProperties
<1> QED BY <1>2, <1>3, <1>4 DEF n

(* The head and the tail of a queue. *)
LEMMA HeadTailType ==
  ASSUME NEW S, NEW q \in Seq(S), q # << >>
  PROVE  Head(q) \in S /\ Tail(q) \in Seq(S)
BY HeadTailProperties

(* The messages that are built are messages, and their values are what the   *)
(* type of the message says.                                                 *)
LEMMA MessageType ==
  /\ \A v \in {NO_AUTH, USER_PASS, NO_ACCEPTABLE} :
       Msg("hello", v) \in Message /\ Msg("method", v) \in Message
  /\ \A v \in {0, 1} : Msg("auth", v) \in Message /\ Msg("status", v) \in Message
  /\ \A v \in {CONNECT_IP, CONNECT_DOMAIN, BIND} : Msg("req", v) \in Message
  /\ \A v \in Codes : Msg("rep", v) \in Message
  /\ \A v \in Nat : Msg("data", v) \in Message /\ Msg("garbage", v) \in Message
BY DEF Msg, Message

(* The value of a message is what its type allows. *)
LEMMA MessageValue ==
  ASSUME NEW m \in Message
  PROVE  /\ m.t = "hello" => m.v \in {NO_AUTH, USER_PASS, NO_ACCEPTABLE}
         /\ m.t = "auth" => m.v \in {0, 1}
         /\ m.t = "rep" => m.v \in Codes
BY DEF Message

(* A buffer with a reply added to it. *)
LEMMA ReplyType ==
  ASSUME out \in Seq(Message), NEW m \in Message
  PROVE  WithReply(m) \in Seq(Message)
BY AppendProperties DEF WithReply

-----------------------------------------------------------------------------
(* Type correctness, one lemma per handler. *)

(* socksv5_close leaves values of the right types. *)
LEMMA CloseType ==
  ASSUME TypeOK, NEW e \in {0, 1}, NEW n \in Nat, socksv5_close(e, n)
  PROVE  /\ in' \in Seq(Message) /\ out' \in Seq(Message) /\ addr' \in Seq(AddrKind)
         /\ current' \in Nat /\ errors' \in Nat /\ bytes' \in Nat
<1>1. in' \in Seq(Message) /\ out' \in Seq(Message) /\ addr' \in Seq(AddrKind)
  BY EmptySeq DEF socksv5_close
<1>2. current' \in Nat /\ errors' \in Nat /\ bytes' \in Nat
  BY DEF TypeOK, socksv5_close
<1> QED BY <1>1, <1>2

(* So does closing both descriptors and going back to the selector. *)
LEMMA HangupType ==
  ASSUME TypeOK, NEW e \in {0, 1}, Hangup(e)
  PROVE  TypeOK'
<1>1. /\ in' \in Seq(Message) /\ out' \in Seq(Message) /\ addr' \in Seq(AddrKind)
      /\ current' \in Nat /\ errors' \in Nat /\ bytes' \in Nat
  BY CloseType DEF Hangup
<1> QED BY <1>1 DEF TypeOK, Hangup, socksv5_close, Goto, negot, cl, wire

(* socksv5_read preserves the type invariant. *)
LEMMA ReadType ==
  ASSUME TypeOK, Control, socksv5_read
  PROVE  TypeOK'
<1> USE DEF thread, sel, bufs, negot, metrics, cl, og, peers, wire
<1>1. CASE ReadFull
  BY <1>1 DEF ReadFull, TypeOK
<1>2. CASE ReadData
  <2>1. in' \in Seq(Message) /\ c2s' \in Seq(Message)
    BY <1>2, RecvType DEF ReadData, TypeOK
  <2>2. /\ st' \in {"HANDSHAKE", "AUTH", "CONN_REQ", "COPY"}
        /\ pc' \in {"handshake_read", "auth_read", "connection_req_read", "copy_read"}
    BY <1>2 DEF ReadData, Control, FirstState, on_read_ready, Goto, socksv5_read
  <2> QED BY <1>2, <2>1, <2>2 DEF ReadData, TypeOK, Goto
<1>3. CASE ReadClosed
  BY <1>3, HangupType DEF ReadClosed
<1> QED BY <1>1, <1>2, <1>3 DEF socksv5_read

(* socksv5_write does, from the selector and from the handlers that call it. *)
LEMMA WriteType ==
  ASSUME TypeOK, Control, socksv5_write
  PROVE  TypeOK'
<1> USE DEF thread, sel, bufs, negot, conn, metrics, cl, og, peers, wire
<1>1. CASE WriteSome
  <2> DEFINE n == Accepted(out, s2c)
  <2>1. /\ n \in Nat /\ s2c \o Take(out, n) \in Seq(Message)
        /\ Drop(out, n) \in Seq(Message)
    BY <1>1, SendType DEF WriteSome, TypeOK
  <2>2. /\ SendToClient(n) /\ Goto(ret) /\ UNCHANGED <<log, c2s, s2o, o2s>>
        /\ WriteLastReply(n) \/ WriteReply(n) \/ WriteRelayed(n)
    BY <1>1 DEF WriteSome
  <2> HIDE DEF n
  <2>3. /\ s2c' \in Seq(Message) /\ csock' \in {"open", "closed", "broken", "reset"}
        /\ UNCHANGED <<cstage, cwait, cmeth, ccred, csent, crecv, creps>>
    BY <2>1, <2>2 DEF SendToClient, TypeOK
  <2>4. srv' = srv /\ pc' = ret /\ ret' = "select"
    BY <2>2 DEF Goto
  <2>5. CASE WriteLastReply(n)
    <3>1. /\ in' \in Seq(Message) /\ out' \in Seq(Message) /\ addr' \in Seq(AddrKind)
          /\ current' \in Nat /\ errors' \in Nat /\ bytes' \in Nat
      BY <2>1, <2>5, CloseType DEF WriteLastReply
    <3> QED BY <2>2, <2>3, <2>4, <2>5, <3>1
            DEF TypeOK, WriteLastReply, WatchOrigin, socksv5_close
  <2>6. CASE WriteReply(n)
    <3>1. ci' \in {"READ", "WRITE"} /\ st' \in {"AUTH", "CONN_REQ", "COPY"}
      BY <2>6 DEF WriteReply, on_write_ready, InterestAfterWrite
    <3>2. /\ oh' \in {"none", "connecting", "copy"}
          /\ oi' \in {"READ", "WRITE", "NOOP", "UNREG"}
          /\ lis' \in {"READ", "WRITE"}
      BY <2>6 DEF TypeOK, WriteReply, WatchOrigin
    <3>3. bytes' \in Nat /\ out' \in Seq(Message)
      BY <2>1, <2>6 DEF TypeOK, WriteReply
    <3> QED BY <2>2, <2>3, <2>4, <2>6, <3>1, <3>2, <3>3, SMTT(30) DEF TypeOK, WriteReply
  <2>7. CASE WriteRelayed(n)
    <3>1. ci' \in {"READ", "WRITE"} /\ oi' \in {"READ", "WRITE", "NOOP", "UNREG"}
      BY <2>7 DEF TypeOK, WriteRelayed, InterestAfterWrite
    <3>2. /\ bytes' = bytes + n /\ out' = Drop(out, n)
          /\ UNCHANGED <<current, errors, st, oh, ofd, stale, lis, in, negot, addr, resolver, og>>
      BY <2>7, Zenon DEF WriteRelayed
    <3> QED BY <2>1, <2>2, <2>3, <2>4, <3>1, <3>2 DEF TypeOK
  <2> QED BY <2>2, <2>5, <2>6, <2>7
<1>2. CASE WriteAgain
  BY <1>2 DEF WriteAgain, Goto, TypeOK
<1>3. CASE WriteError
  <2>1. /\ in' \in Seq(Message) /\ out' \in Seq(Message) /\ addr' \in Seq(AddrKind)
        /\ current' \in Nat /\ errors' \in Nat /\ bytes' \in Nat
    BY <1>3, CloseType DEF WriteError
  <2> QED BY <1>3, <2>1 DEF TypeOK, WriteError, socksv5_close, Goto
<1>4. CASE WriteSigpipe
  BY <1>4 DEF WriteSigpipe, Crash, Ends, TypeOK
<1> QED BY <1>1, <1>2, <1>3, <1>4 DEF socksv5_write

(* handshake_read does. *)
LEMMA HandshakeType ==
  ASSUME TypeOK, handshake_read
  PROVE  TypeOK'
<1> USE DEF thread, sel, bufs, negot, conn, metrics, cl, og, peers, wire
<1>1. CASE st = "HANDSHAKE" /\ in # << >> /\ Head(in).t = "hello"
  <2>1. Head(in) \in Message /\ Tail(in) \in Seq(Message)
    BY <1>1, HeadTailType DEF TypeOK
  <2>2. Head(in).v \in {NO_AUTH, USER_PASS, NO_ACCEPTABLE}
    BY <1>1, <2>1, MessageValue
  <2>3. WithReply(Msg("method", Head(in).v)) \in Seq(Message)
    BY <2>2, MessageType, ReplyType DEF TypeOK
  <2>4. /\ in' = Tail(in) /\ meth' = Head(in).v /\ ci' = "WRITE"
        /\ out' = WithReply(Msg("method", Head(in).v))
        /\ err' = (Head(in).v = NO_ACCEPTABLE)
        /\ pc' = "socksv5_write" /\ ret' = "handshake_read" /\ srv' = srv
        /\ UNCHANGED <<st, oh, oi, ofd, stale, lis, user, addr, resolver,
                       log, metrics, peers, wire>>
    BY <1>1 DEF handshake_read, Call
  <2>5. err' \in BOOLEAN
    BY <2>4
  <2> QED BY <2>1, <2>2, <2>3, <2>4, <2>5 DEF TypeOK
<1>2. CASE Hangup(1)
  BY <1>2, HangupType
<1>3. CASE Return \/ Crash("aborted")
  BY <1>3 DEF Return, Goto, Crash, Ends, TypeOK
<1> QED BY <1>1, <1>2, <1>3 DEF handshake_read

(* auth_read does. *)
LEMMA AuthType ==
  ASSUME TypeOK, auth_read
  PROVE  TypeOK'
<1> USE DEF thread, sel, bufs, negot, conn, metrics, cl, og, peers, wire
<1>1. CASE st = "AUTH" /\ in # << >> /\ Head(in).t = "auth"
  <2>1. \A b \in {0, 1} : WithReply(Msg("status", b)) \in Seq(Message)
    BY MessageType, ReplyType DEF TypeOK
  <2>2. /\ in' = << >> /\ ci' = "WRITE"
        /\ out' = WithReply(Msg("status", IF Head(in).v = 1 THEN 0 ELSE 1))
        /\ err' = ~(Head(in).v = 1) /\ user' = (Head(in).v = 1)
        /\ pc' = "socksv5_write" /\ ret' = "auth_read" /\ srv' = srv
        /\ UNCHANGED <<st, oh, oi, ofd, stale, lis, meth, addr, resolver,
                       log, metrics, peers, wire>>
    BY <1>1 DEF auth_read, Call
  <2>3. out' \in Seq(Message) /\ in' \in Seq(Message) /\ err' \in BOOLEAN /\ user' \in BOOLEAN
    BY <2>1, <2>2, EmptySeq
  <2> QED BY <2>2, <2>3 DEF TypeOK
<1>2. CASE Hangup(1)
  BY <1>2, HangupType
<1>3. CASE Return \/ Crash("aborted")
  BY <1>3 DEF Return, Goto, Crash, Ends, TypeOK
<1> QED BY <1>1, <1>2, <1>3 DEF auth_read

(* connection_req_read does. *)
LEMMA RequestType ==
  ASSUME TypeOK, Control, connection_req_read
  PROVE  TypeOK'
<1> USE DEF thread, sel, bufs, negot, conn, metrics, cl, og, peers, wire
<1>1. /\ Tail(in) \in Seq(Message)
      /\ srv' = srv /\ pc' = "select" /\ ret' = "select"
      /\ UNCHANGED <<log, cl, wire>>
  BY HeadTailType DEF TypeOK, Control, connection_req_read, Running, Goto
<1>2. CASE RequestUnsupported
  <2>1. WithReply(Msg("rep", REP_COMMAND_NOT_SUPPORTED)) \in Seq(Message)
    BY MessageType, ReplyType DEF TypeOK, Codes
  <2> QED BY <1>1, <1>2, <2>1 DEF RequestUnsupported, TypeOK
<1>3. CASE RequestAddress
  <2>1. addr' \in Seq(AddrKind)
    BY <1>3, InputsAssumption DEF RequestAddress
  <2> QED BY <1>1, <1>3, <2>1 DEF RequestAddress, TypeOK
<1>4. CASE RequestDomain
  BY <1>1, <1>4 DEF RequestDomain, TypeOK
<1>5. CASE RequestError
  <2>1. /\ in' \in Seq(Message) /\ out' \in Seq(Message) /\ addr' \in Seq(AddrKind)
        /\ current' \in Nat /\ errors' \in Nat /\ bytes' \in Nat
    BY <1>5, CloseType DEF RequestError
  <2> QED BY <1>1, <1>5, <2>1 DEF RequestError, socksv5_close, TypeOK
<1> QED BY <1>2, <1>3, <1>4, <1>5 DEF connection_req_read

(* resolve_host_name does, in its thread. *)
LEMMA ResolveType ==
  ASSUME TypeOK, resolve_host_name
  PROVE  TypeOK'
<1> USE DEF thread, sel, bufs, negot, conn, metrics, cl, og, peers, wire
<1>1. addr' \in Seq(AddrKind)
  BY InputsAssumption DEF resolve_host_name, TypeOK
<1> QED BY <1>1 DEF resolve_host_name, Ends, TypeOK

(* connect_to_host leaves a shorter list and picks an address of it. *)
LEMMA ConnectType ==
  ASSUME TypeOK, ConnectInProgress \/ ConnectSuccess
  PROVE  /\ addr' \in Seq(AddrKind) /\ okind' \in AddrKind
         /\ osock' \in {"pending", "est"} /\ UNCHANGED <<osent, orecv>>
<1>1. CASE ConnectInProgress
  <2>1. PICK i \in 1..Len(addr) : /\ addr' = Drop(addr, i) /\ okind' = addr[i]
                                 /\ osock' = "pending" /\ UNCHANGED <<osent, orecv>>
    BY <1>1 DEF ConnectInProgress
  <2>2. addr \in Seq(AddrKind) /\ Len(addr) \in Nat
    BY LenProperties DEF TypeOK
  <2>3. Drop(addr, i) \in Seq(AddrKind) /\ addr[i] \in AddrKind
    BY <2>2, TakeDropType, ElementOfSeq
  <2> QED BY <2>1, <2>3
<1>2. CASE ConnectSuccess
  BY <1>2, EmptySeq DEF ConnectSuccess, AddrKind
<1> QED BY <1>1, <1>2

(* socksv5_block and the rest of connecting_on_block_ready do. *)
LEMMA BlockType ==
  ASSUME TypeOK, Control, socksv5_block
  PROVE  TypeOK'
<1> USE DEF thread, sel, bufs, negot, conn, metrics, cl, og, peers, wire
<1>1. /\ resolver' = "idle" /\ UNCHANGED <<cl, wire>>
      /\ BlockNoAddress \/ BlockInProgress \/ BlockSuccess \/ BlockFailed
  BY DEF socksv5_block
<1>2. \A c \in Codes : /\ Append(log, c) \in Seq(Codes)
                       /\ WithReply(Msg("rep", c)) \in Seq(Message)
  BY AppendProperties, MessageType, ReplyType DEF TypeOK
<1>3. CASE BlockNoAddress
  <2>1. log' \in Seq(Codes) /\ out' \in Seq(Message)
    BY <1>2, <1>3 DEF BlockNoAddress, Codes
  <2> QED BY <1>1, <1>3, <2>1 DEF BlockNoAddress, TypeOK
<1>4. CASE BlockInProgress
  <2>1. /\ addr' \in Seq(AddrKind) /\ okind' \in AddrKind
        /\ osock' \in {"pending", "est"} /\ UNCHANGED <<osent, orecv>>
    BY <1>4, ConnectType DEF BlockInProgress
  <2> QED BY <1>1, <1>4, <2>1 DEF BlockInProgress, TypeOK
<1>5. CASE BlockSuccess
  <2>1. /\ addr' \in Seq(AddrKind) /\ okind' \in AddrKind
        /\ osock' \in {"pending", "est"} /\ UNCHANGED <<osent, orecv>>
    BY <1>5, ConnectType DEF BlockSuccess
  <2>2. log' \in Seq(Codes) /\ out' \in Seq(Message) /\ in' \in Seq(Message)
    BY <1>2, <1>5, EmptySeq DEF BlockSuccess, Codes
  <2> QED BY <1>1, <1>5, <2>1, <2>2 DEF BlockSuccess, Call, TypeOK
<1>6. CASE BlockFailed
  <2>1. /\ in' \in Seq(Message) /\ out' \in Seq(Message) /\ addr' \in Seq(AddrKind)
        /\ current' \in Nat /\ errors' \in Nat /\ bytes' \in Nat
    BY <1>6, CloseType DEF BlockFailed
  <2>2. log' \in Seq(Codes)
    BY <1>2, <1>6 DEF BlockFailed, Codes, TypeOK
  <2> QED BY <1>1, <1>6, <2>1, <2>2 DEF BlockFailed, socksv5_close, Ends, TypeOK
<1> QED BY <1>1, <1>3, <1>4, <1>5, <1>6

(* handle_write_connecting does. *)
LEMMA ConnectingType ==
  ASSUME TypeOK, handle_write_connecting
  PROVE  TypeOK'
<1> USE DEF thread, sel, bufs, negot, conn, metrics, cl, og, peers, wire
<1>1. /\ UNCHANGED <<resolver, cl, wire>>
      /\ RetryInProgress \/ RetryNoSocket \/ RetryFailed \/ Connected
  BY DEF handle_write_connecting
<1>2. \A c \in Codes : /\ Append(log, c) \in Seq(Codes)
                       /\ WithReply(Msg("rep", c)) \in Seq(Message)
  BY AppendProperties, MessageType, ReplyType DEF TypeOK
<1>3. CASE RetryInProgress
  <2>1. /\ addr' \in Seq(AddrKind) /\ okind' \in AddrKind
        /\ osock' \in {"pending", "est"} /\ UNCHANGED <<osent, orecv>>
    BY <1>3, ConnectType DEF RetryInProgress
  <2>2. stale' \in BOOLEAN
    BY <1>3 DEF RetryInProgress, Reopened
  <2> QED BY <1>1, <1>3, <2>1, <2>2 DEF RetryInProgress, TypeOK
<1>4. CASE RetryFailed
  <2>1. log' \in Seq(Codes) /\ out' \in Seq(Message)
    BY <1>2, <1>4, InputsAssumption DEF RetryFailed, Codes, GetCodes
  <2>2. stale' \in BOOLEAN
    BY <1>4 DEF RetryFailed, Reopened, TypeOK
  <2>3. addr' \in Seq(AddrKind)
    BY <1>4, EmptySeq DEF RetryFailed
  <2> QED BY <1>1, <1>4, <2>1, <2>2, <2>3 DEF RetryFailed, TypeOK
<1>5. CASE Connected
  <2>1. log' \in Seq(Codes) /\ out' \in Seq(Message)
    BY <1>2, <1>5 DEF Connected, Codes
  <2>2. addr' \in Seq(AddrKind) /\ in' \in Seq(Message)
    BY <1>5, EmptySeq DEF Connected
  <2> QED BY <1>1, <1>5, <2>1, <2>2 DEF Connected, Goto, TypeOK
<1>6. CASE RetryNoSocket
  BY <1>1, <1>6 DEF RetryNoSocket, TypeOK
<1> QED BY <1>1, <1>3, <1>4, <1>5, <1>6

(* copy_read and copy_write_handler do. *)
LEMMA CopyType ==
  ASSUME TypeOK, CopyWrite
  PROVE  TypeOK'
<1> USE DEF thread, sel, bufs, negot, conn, metrics, cl, og, peers, wire
<1>1. CASE CopySome
  <2> DEFINE n == Accepted(in, s2o)
  <2>1. /\ n \in Nat /\ s2o \o Take(in, n) \in Seq(Message)
        /\ Drop(in, n) \in Seq(Message)
    BY <1>1, SendType DEF CopySome, TypeOK
  <2>2. s2o' \in Seq(Message) /\ in' \in Seq(Message)
    BY <1>1, <2>1 DEF CopySome, TypeOK
  <2>3. oi' \in {"READ", "WRITE"} /\ ci' \in {"READ", "WRITE", "NOOP", "UNREG"}
    BY <1>1 DEF CopySome, InterestAfterCopy, TypeOK
  <2>4. osock' \in {"none", "pending", "est", "failed", "closed", "broken", "reset"}
    BY <1>1 DEF CopySome, TypeOK
  <2> QED BY <1>1, <2>2, <2>3, <2>4 DEF CopySome, Goto, TypeOK
<1>2. CASE CopyAgain
  BY <1>2 DEF CopyAgain, Goto, TypeOK
<1>3. CASE CopyError
  <2>1. /\ in' \in Seq(Message) /\ out' \in Seq(Message) /\ addr' \in Seq(AddrKind)
        /\ current' \in Nat /\ errors' \in Nat /\ bytes' \in Nat
    BY <1>3, CloseType DEF CopyError
  <2> QED BY <1>3, <2>1 DEF CopyError, socksv5_close, Goto, Ends, TypeOK
<1>4. CASE CopySigpipe
  BY <1>4 DEF CopySigpipe, Crash, Ends, TypeOK
<1> QED BY <1>1, <1>2, <1>3, <1>4 DEF CopyWrite

(* copy_read_handler does. *)
LEMMA OriginReadType ==
  ASSUME TypeOK, copy_read_handler
  PROVE  TypeOK'
<1> USE DEF thread, sel, bufs, negot, conn, metrics, cl, og, peers, wire
<1>1. CASE OriginFull
  BY <1>1 DEF OriginFull, TypeOK
<1>2. CASE OriginData
  <2>1. out' \in Seq(Message) /\ o2s' \in Seq(Message)
    BY <1>2, RecvType DEF OriginData, TypeOK
  <2> QED BY <1>2, <2>1 DEF OriginData, Goto, TypeOK
<1>3. CASE OriginEof
  BY <1>3 DEF OriginEof, TypeOK
<1>4. CASE OriginError
  BY <1>4, HangupType DEF OriginError
<1> QED BY <1>1, <1>2, <1>3, <1>4 DEF copy_read_handler

(* The client, the kernel, the origin and the end of the process do. *)
LEMMA EnvironmentType ==
  ASSUME TypeOK, Client \/ ConnectEnds \/ Origin
  PROVE  TypeOK'
<1> USE DEF thread, sel, bufs, negot, conn, metrics, cl, og, peers, wire, server
<1>1. CASE ClientHello
  <2>1. PICK m \in Methods : /\ c2s' = Append(c2s, Msg("hello", m))
                             /\ cstage' = IF m = USER_PASS THEN "auth" ELSE "req"
                             /\ cmeth' = m
    BY <1>1 DEF ClientHello
  <2>2. m \in {NO_AUTH, USER_PASS, NO_ACCEPTABLE} /\ Msg("hello", m) \in Message
    BY InputsAssumption, MessageType
  <2>3. c2s' \in Seq(Message)
    BY <2>1, <2>2, AppendProperties DEF TypeOK
  <2> QED BY <1>1, <2>1, <2>2, <2>3 DEF ClientHello, TypeOK
<1>2. CASE ClientAuth
  <2>1. PICK v \in Creds : c2s' = Append(c2s, Msg("auth", v)) /\ ccred' = v
    BY <1>2 DEF ClientAuth
  <2>2. v \in {0, 1} /\ Msg("auth", v) \in Message
    BY InputsAssumption, MessageType
  <2>3. c2s' \in Seq(Message)
    BY <2>1, <2>2, AppendProperties DEF TypeOK
  <2> QED BY <1>2, <2>1, <2>2, <2>3 DEF ClientAuth, TypeOK
<1>3. CASE ClientRequest
  <2>1. PICK r \in Requests : c2s' = Append(c2s, Msg("req", r))
    BY <1>3 DEF ClientRequest
  <2>2. Msg("req", r) \in Message
    BY InputsAssumption, MessageType
  <2>3. c2s' \in Seq(Message)
    BY <2>1, <2>2, AppendProperties DEF TypeOK
  <2> QED BY <1>3, <2>3 DEF ClientRequest, TypeOK
<1>4. CASE ClientGarbage
  <2>1. Msg("garbage", 0) \in Message
    BY MessageType
  <2>2. c2s' \in Seq(Message)
    BY <1>4, <2>1, AppendProperties DEF ClientGarbage, TypeOK
  <2> QED BY <1>4, <2>2 DEF ClientGarbage, TypeOK
<1>5. CASE ClientData
  <2>1. Msg("data", csent + 1) \in Message /\ csent + 1 \in Nat
    BY MessageType DEF TypeOK
  <2>2. c2s' \in Seq(Message)
    BY <1>5, <2>1, AppendProperties DEF ClientData, TypeOK
  <2> QED BY <1>5, <2>1, <2>2 DEF ClientData, TypeOK
<1>6. CASE ClientRecv
  <2>1. Head(s2c) \in Message /\ s2c' \in Seq(Message)
    BY <1>6, HeadTailType DEF ClientRecv, TypeOK
  <2>2. crecv' \in Seq(Message) /\ creps' \in Seq(Codes)
    BY <1>6, <2>1, MessageValue, AppendProperties DEF ClientRecv, TypeOK
  <2>3. csock' \in {"open", "closed", "broken", "reset"} /\ cwait' \in Int
    BY <1>6 DEF ClientRecv, TypeOK
  <2> QED BY <1>6, <2>1, <2>2, <2>3 DEF ClientRecv, TypeOK
<1>7. CASE ClientSeesClose \/ ClientClose
  BY <1>7 DEF ClientSeesClose, ClientClose, TypeOK
<1>8. CASE ConnectEnds
  BY <1>8 DEF ConnectEnds, TypeOK
<1>9. CASE OriginRecv
  <2>1. Head(s2o) \in Message /\ s2o' \in Seq(Message)
    BY <1>9, HeadTailType DEF OriginRecv, TypeOK
  <2>2. orecv' \in Seq(Message)
    BY <1>9, <2>1, AppendProperties DEF OriginRecv, TypeOK
  <2> QED BY <1>9, <2>1, <2>2 DEF OriginRecv, TypeOK
<1>10. CASE OriginSend
  <2>1. Msg("data", osent + 1) \in Message /\ osent + 1 \in Nat
    BY MessageType DEF TypeOK
  <2>2. o2s' \in Seq(Message)
    BY <1>10, <2>1, AppendProperties DEF OriginSend, TypeOK
  <2> QED BY <1>10, <2>1, <2>2 DEF OriginSend, TypeOK
<1>11. CASE OriginClose
  BY <1>11 DEF OriginClose, TypeOK
<1> QED BY <1>1, <1>2, <1>3, <1>4, <1>5, <1>6, <1>7, <1>8, <1>9, <1>10, <1>11
        DEF Client, Origin

(* Every step keeps the types. *)
LEMMA TypeStep ==
  ASSUME TypeOK, Control, [Next]_vars
  PROVE  TypeOK'
<1>1. CASE socksv5_read \/ socksv5_write \/ socksv5_block
  BY <1>1, ReadType, WriteType, BlockType
<1>2. CASE handshake_read \/ auth_read \/ connection_req_read
  BY <1>2, HandshakeType, AuthType, RequestType
<1>3. CASE handle_write_connecting \/ copy_write_handler \/ copy_read_handler
  BY <1>3, ConnectingType, CopyType, OriginReadType DEF copy_write_handler
<1>4. CASE copy_read
  BY <1>4, HangupType, CopyType DEF copy_read, CopyNoOrigin
<1>5. CASE connecting_on_block_ready \/ selector_select_EBADF
  BY <1>5, ZenonT(30) DEF connecting_on_block_ready, selector_select_EBADF, Crash, Ends, Return, Goto,
              TypeOK, sel, bufs, negot, conn, metrics, cl, og, peers, wire
<1>6. CASE resolve_host_name
  BY <1>6, ResolveType
<1>7. CASE Client \/ ConnectEnds \/ Origin
  BY <1>7, EnvironmentType
<1>8. CASE UNCHANGED vars
  BY <1>8 DEF TypeOK, vars, thread, sel, bufs, negot, conn, metrics, cl, og, peers, wire
<1> QED BY <1>1, <1>2, <1>3, <1>4, <1>5, <1>6, <1>7, <1>8 DEF Next, MainThread

-----------------------------------------------------------------------------
(* Control and Resolution, one step per handler. *)

(* Every step preserves Control and Resolution. *)
LEMMA ControlStep ==
  ASSUME TypeOK, Control, Resolution, [Next]_vars
  PROVE  Control' /\ Resolution'
<1> USE DEF thread, sel, bufs, negot, conn, metrics, cl, og, peers, wire, server,
            Control, Resolution, Idle, Running, Goto, Call, Ends
<1>1. CASE socksv5_read
  <2>1. CASE ReadFull
    BY <1>1, <2>1 DEF socksv5_read, ReadFull
  <2>2. CASE ReadData
    <3>1. in' # << >>
      BY <2>2, RecvType DEF ReadData, TypeOK
    <3>2. /\ st' \in {"HANDSHAKE", "AUTH", "CONN_REQ", "COPY"}
          /\ pc' = on_read_ready[st'] /\ ret' = "select" /\ st \in {"NONE", st'}
      BY <1>1, <2>2 DEF socksv5_read, ReadData, FirstState
    <3>3. /\ pc' = "connection_req_read" => st' = "CONN_REQ"
          /\ pc' = "copy_read" => st' = "COPY"
          /\ pc' \notin {"socksv5_write", "select"}
      BY <3>2 DEF on_read_ready
    <3> QED BY <1>1, <2>2, <3>1, <3>2, <3>3 DEF socksv5_read, ReadData
  <2>3. CASE ReadClosed
    BY <1>1, <2>3 DEF socksv5_read, ReadClosed, Hangup, socksv5_close
  <2> QED BY <1>1, <2>1, <2>2, <2>3 DEF socksv5_read
<1>2. CASE socksv5_write
  <2>1. resolver = "idle" /\ ret \in {"select", "handshake_read", "auth_read", "connecting_on_block_ready"}
    BY <1>2 DEF socksv5_write, TypeOK
  <2>2. CASE WriteSome
    <3>1. PICK n : WriteLastReply(n) \/ WriteReply(n) \/ WriteRelayed(n)
      BY <2>2 DEF WriteSome
    <3>2. pc' = ret /\ ret' = "select" /\ srv' = srv
      BY <2>2 DEF WriteSome
    <3>3. CASE WriteLastReply(n)
      BY <2>1, <3>2, <3>3 DEF WriteLastReply, socksv5_close
    <3>4. CASE WriteReply(n)
      BY <2>1, <3>2, <3>4 DEF WriteReply, on_write_ready, InterestAfterWrite, has_write_handler
    <3>5. CASE WriteRelayed(n)
      <4>1. /\ st = "COPY" /\ ci' \in {"READ", "WRITE"}
            /\ UNCHANGED <<st, oh, resolver, osock>>
        BY <3>5, Zenon DEF WriteRelayed, InterestAfterWrite
      <4> QED BY <2>1, <3>2, <4>1
    <3> QED BY <3>1, <3>3, <3>4, <3>5
  <2>3. CASE WriteAgain
    BY <2>1, <2>3 DEF WriteAgain
  <2>4. CASE WriteError
    BY <2>1, <2>4 DEF WriteError, socksv5_close
  <2>5. CASE WriteSigpipe
    BY <2>5 DEF WriteSigpipe, Crash
  <2> QED BY <1>2, <2>2, <2>3, <2>4, <2>5 DEF socksv5_write
<1>3. CASE socksv5_block
  <2>1. /\ resolver' = "idle" /\ st = "CONNECTING" /\ pc = "select"
        /\ oh = "none" /\ osock = "none"
    BY <1>3 DEF socksv5_block
  <2>2. CASE BlockNoAddress
    BY <2>1, <2>2 DEF BlockNoAddress
  <2>3. CASE BlockInProgress
    BY <2>1, <2>3 DEF BlockInProgress, ConnectInProgress
  <2>4. CASE BlockSuccess
    BY <2>1, <2>4 DEF BlockSuccess, ConnectSuccess
  <2>5. CASE BlockFailed
    BY <2>1, <2>5 DEF BlockFailed, socksv5_close
  <2> QED BY <1>3, <2>2, <2>3, <2>4, <2>5 DEF socksv5_block
<1>4. CASE handshake_read
  BY <1>4 DEF handshake_read, Hangup, socksv5_close, Return, Crash
<1>5. CASE auth_read
  BY <1>5 DEF auth_read, Hangup, socksv5_close, Return, Crash
<1>6. CASE connection_req_read
  <2>1. st = "CONN_REQ" /\ oh = "none" /\ osock = "none" /\ resolver = "idle"
    BY <1>6 DEF connection_req_read, TypeOK
  <2> QED BY <1>6, <2>1 DEF connection_req_read, RequestUnsupported, RequestAddress, RequestDomain,
              RequestError, socksv5_close
<1>7. CASE resolve_host_name
  BY <1>7 DEF resolve_host_name
<1>8. CASE connecting_on_block_ready \/ selector_select_EBADF
  BY <1>8 DEF connecting_on_block_ready, selector_select_EBADF, Return, Crash
<1>9. CASE handle_write_connecting
  BY <1>9 DEF handle_write_connecting, RetryInProgress, RetryNoSocket, RetryFailed, Connected,
              ConnectInProgress
<1>10. CASE copy_read
  BY <1>10 DEF copy_read, CopyNoOrigin, Hangup, CopyWrite, CopySome, CopyAgain, CopyError,
               CopySigpipe, socksv5_close, Crash
<1>11. CASE copy_write_handler
  BY <1>11 DEF copy_write_handler, CopyWrite, CopySome, CopyAgain, CopyError, CopySigpipe,
               socksv5_close, Crash
<1>12. CASE copy_read_handler
  BY <1>12 DEF copy_read_handler, OriginFull, OriginData, OriginEof, OriginError, Hangup,
               socksv5_close
<1>13. CASE Client
  BY <1>13 DEF Client, ClientHello, ClientAuth, ClientRequest, ClientGarbage, ClientData,
               ClientRecv, ClientSeesClose, ClientClose
<1>14. CASE ConnectEnds \/ Origin
  BY <1>14 DEF ConnectEnds, Origin, OriginRecv, OriginSend, OriginClose
<1>15. CASE UNCHANGED vars
  BY <1>15 DEF vars
<1> QED BY <1>1, <1>2, <1>3, <1>4, <1>5, <1>6, <1>7, <1>8, <1>9, <1>10, <1>11, <1>12,
           <1>13, <1>14, <1>15 DEF Next, MainThread

-----------------------------------------------------------------------------
(* Negotiation. *)

(* A reply goes into an empty buffer, and is alone in it. *)
LEMMA EmptyTakesReply ==
  ASSUME out = << >>, NEW m
  PROVE  WithReply(m) = <<m>>
<1>1. Len(<< >>) = 0
  OBVIOUS
<1>2. Room(out) >= 1
  BY <1>1, SizesAssumption DEF Room
<1> QED BY <1>2 DEF WithReply

(* So a reply of the negotiation is. *)
LEMMA ReplyAlone ==
  ASSUME out = << >>, NEW m, IsReply(m)
  PROVE  Len(WithReply(m)) = 1 /\ IsReply(Head(WithReply(m)))
<1>1. WithReply(m) = <<m>>
  BY EmptyTakesReply
<1> QED BY <1>1

(* The whole buffer goes out when it holds a reply. *)
LEMMA ReplySent ==
  ASSUME out \in Seq(Message), Len(out) = 1, IsReply(Head(out))
  PROVE  Accepted(out, s2c) = Len(out) /\ Drop(out, Accepted(out, s2c)) = << >>
<1>1. Accepted(out, s2c) = 1
  BY DEF Accepted
<1>2. Drop(out, 1) \in Seq(Message) /\ Len(Drop(out, 1)) = Len(out) - 1
  <2>1. 1 \in Int /\ 0 <= 1 /\ 1 <= Len(out)
    OBVIOUS
  <2> QED BY <2>1, TakeDropType, ZenonT(30)
<1>3. Len(Drop(out, 1)) = 0
  BY <1>2
<1> QED BY <1>1, <1>2, <1>3, EmptySeq

(* Every step preserves Negotiation. *)
LEMMA NegotiationStep ==
  ASSUME TypeOK, Control, Resolution, Negotiation, [Next]_vars
  PROVE  Negotiation'
<1> USE DEF thread, sel, bufs, negot, conn, metrics, cl, og, peers, wire, server,
            Negotiation, Idle, Running, Goto, Call, Ends
<1>1. CASE socksv5_read
  BY <1>1 DEF socksv5_read, ReadFull, ReadData, ReadClosed, Hangup, socksv5_close, FirstState
<1>2. CASE socksv5_write
  <2>1. /\ ci = "WRITE"
        /\ ret \in {"select", "handshake_read", "auth_read", "connecting_on_block_ready"}
        /\ ret \in {"handshake_read", "auth_read"} => st \in {"HANDSHAKE", "AUTH"}
    BY <1>2 DEF socksv5_write, Control, TypeOK
  <2>2. CASE WriteSome
    <3>0. pc' = ret /\ ret' = "select"
      BY <2>2 DEF WriteSome
    <3> DEFINE n == Accepted(out, s2c)
    <3>1. WriteLastReply(n) \/ WriteReply(n) \/ WriteRelayed(n)
      BY <2>2 DEF WriteSome
    <3>2. CASE WriteReply(n)
      <4>1. n = Len(out) /\ Drop(out, n) = << >>
        BY <2>1, <3>2, ReplySent DEF WriteReply, has_write_handler, TypeOK
      <4>2. out' = << >> /\ ci' = "READ"
        BY <3>2, <4>1, SMT DEF WriteReply, InterestAfterWrite, TypeOK
      <4> QED BY <2>1, <3>0, <4>2
    <3>3. CASE WriteLastReply(n)
      BY <2>1, <3>0, <3>3 DEF WriteLastReply, socksv5_close
    <3>4. CASE WriteRelayed(n)
      <4>1. st = "COPY" /\ st' = "COPY"
        BY <3>4, Zenon DEF WriteRelayed
      <4> QED BY <2>1, <3>0, <4>1
    <3> QED BY <3>1, <3>2, <3>3, <3>4
  <2>3. CASE WriteAgain
    <3>1. st \in {"COPY", "FREED"}
      BY <2>1, <2>3, ReplySent DEF WriteAgain, TypeOK
    <3> QED BY <2>1, <2>3, <3>1 DEF WriteAgain
  <2>4. CASE WriteError
    BY <2>1, <2>4 DEF WriteError, socksv5_close
  <2>5. CASE WriteSigpipe
    BY <2>5 DEF WriteSigpipe, Crash
  <2> QED BY <1>2, <2>2, <2>3, <2>4, <2>5 DEF socksv5_write
<1>3. CASE socksv5_block
  <2>1. st = "CONNECTING" /\ out = << >> /\ pc = "select"
    BY <1>3 DEF socksv5_block, Resolution
  <2>2. CASE BlockNoAddress \/ BlockSuccess
    <3>1. PICK c \in Codes : out' = WithReply(Msg("rep", c)) /\ ci' = "WRITE"
      BY <2>2 DEF BlockNoAddress, BlockSuccess, Codes
    <3>2. IsReply(Msg("rep", c))
      BY DEF IsReply, Msg
    <3>3. Len(out') = 1 /\ IsReply(Head(out'))
      BY <2>1, <3>1, <3>2, ReplyAlone
    <3>4. pc' = "select" \/ (pc' = "socksv5_write" /\ ret' = "connecting_on_block_ready")
      BY <2>1, <2>2 DEF BlockNoAddress, BlockSuccess
    <3> QED BY <3>1, <3>3, <3>4 DEF IsReply
  <2>3. CASE BlockInProgress
    BY <2>1, <2>3 DEF BlockInProgress
  <2>4. CASE BlockFailed
    BY <2>1, <2>4 DEF BlockFailed, socksv5_close
  <2> QED BY <1>3, <2>2, <2>3, <2>4 DEF socksv5_block
<1>4. CASE handshake_read \/ auth_read
  <2>1. CASE pc' = "socksv5_write"
    <3>1. /\ st \in {"HANDSHAKE", "AUTH"} /\ st' = st /\ out = << >> /\ ci' = "WRITE"
          /\ \E m : IsReply(m) /\ out' = WithReply(m)
      BY <1>4, <2>1 DEF handshake_read, auth_read, Hangup, Return, Crash, IsReply, Msg
    <3>2. Len(out') = 1 /\ IsReply(Head(out'))
      BY <3>1, ReplyAlone
    <3> QED BY <2>1, <3>1, <3>2 DEF IsReply
  <2>2. CASE Hangup(1) \/ Return \/ Crash("aborted")
    BY <2>2 DEF Hangup, socksv5_close, Return, Crash
  <2> QED BY <1>4, <2>1, <2>2 DEF handshake_read, auth_read
<1>5. CASE connection_req_read
  <2>1. st = "CONN_REQ" /\ out = << >>
    BY <1>5 DEF connection_req_read, Control
  <2>2. CASE RequestUnsupported
    <3>1. IsReply(Msg("rep", REP_COMMAND_NOT_SUPPORTED))
      BY DEF IsReply, Msg
    <3>2. Len(out') = 1 /\ IsReply(Head(out'))
      BY <2>1, <2>2, <3>1, ReplyAlone DEF RequestUnsupported
    <3> QED BY <1>5, <2>2, <3>2 DEF RequestUnsupported, connection_req_read, IsReply
  <2>3. CASE RequestAddress \/ RequestDomain
    BY <1>5, <2>1, <2>3 DEF RequestAddress, RequestDomain, connection_req_read
  <2>4. CASE RequestError
    BY <1>5, <2>4 DEF RequestError, socksv5_close, connection_req_read
  <2> QED BY <1>5, <2>2, <2>3, <2>4 DEF connection_req_read
<1>6. CASE handle_write_connecting
  <2>1. st = "CONNECTING" /\ pc = "select" /\ out = << >>
    BY <1>6 DEF handle_write_connecting, Control
  <2>2. CASE RetryInProgress \/ RetryNoSocket
    BY <2>1, <2>2 DEF RetryInProgress, RetryNoSocket
  <2>3. CASE RetryFailed
    <3>1. ci' = "WRITE" /\ \E m : IsReply(m) /\ out' = WithReply(m)
      BY <2>3 DEF RetryFailed, IsReply, Msg
    <3>2. Len(out') = 1 /\ IsReply(Head(out'))
      BY <2>1, <3>1, ReplyAlone
    <3> QED BY <2>1, <2>3, <3>1, <3>2 DEF RetryFailed, IsReply
  <2>4. CASE Connected
    BY <2>4 DEF Connected
  <2> QED BY <1>6, <2>2, <2>3, <2>4 DEF handle_write_connecting
<1>7. CASE copy_read \/ copy_write_handler \/ copy_read_handler
  <2>1. st = "COPY"
    BY <1>7 DEF copy_read, copy_write_handler, copy_read_handler, Control
  <2>2. CASE CopyWrite \/ CopyNoOrigin
    BY <2>1, <2>2 DEF CopyWrite, CopySome, CopyAgain, CopyError, CopySigpipe, CopyNoOrigin,
                      Hangup, socksv5_close, Crash
  <2>3. CASE copy_read_handler
    BY <2>1, <2>3 DEF copy_read_handler, OriginFull, OriginData, OriginEof, OriginError,
                      Hangup, socksv5_close
  <2> QED BY <1>7, <2>2, <2>3 DEF copy_read, copy_write_handler
<1>8. CASE connecting_on_block_ready \/ selector_select_EBADF \/ resolve_host_name
  BY <1>8 DEF connecting_on_block_ready, selector_select_EBADF, resolve_host_name, Return, Crash
<1>9. CASE Client
  BY <1>9 DEF Client, ClientHello, ClientAuth, ClientRequest, ClientGarbage, ClientData,
              ClientRecv, ClientSeesClose, ClientClose
<1>10. CASE ConnectEnds \/ Origin
  BY <1>10 DEF ConnectEnds, Origin, OriginRecv, OriginSend, OriginClose
<1>11. CASE UNCHANGED vars
  BY <1>11 DEF vars
<1> QED BY <1>1, <1>2, <1>3, <1>4, <1>5, <1>6, <1>7, <1>8, <1>9, <1>10, <1>11
        DEF Next, MainThread

-----------------------------------------------------------------------------
(* InFlight and Credentials. *)

(* The handlers take messages out of c2s and in_buff and add none. *)
LEMMA InFlightServer ==
  ASSUME TypeOK, Control, InFlight, MainThread \/ resolve_host_name
  PROVE  InFlight'
<1> USE DEF thread, sel, bufs, negot, conn, metrics, cl, og, peers, wire
<1>1. UNCHANGED <<cstage, cmeth, ccred>>
  <2>1. CASE socksv5_read \/ handshake_read \/ auth_read \/ connection_req_read
    BY <2>1 DEF socksv5_read, ReadFull, ReadData, ReadClosed, Hangup, handshake_read, auth_read,
                connection_req_read, Return, Crash
  <2>2. CASE socksv5_write
    BY <2>2 DEF socksv5_write, WriteSome, SendToClient, WriteAgain, WriteError, WriteSigpipe, Crash
  <2>3. CASE socksv5_block \/ connecting_on_block_ready \/ handle_write_connecting
             \/ selector_select_EBADF \/ resolve_host_name
    BY <2>3 DEF socksv5_block, connecting_on_block_ready, handle_write_connecting,
                selector_select_EBADF, resolve_host_name, Return, Crash
  <2>4. CASE copy_read \/ copy_write_handler \/ copy_read_handler
    BY <2>4 DEF copy_read, copy_write_handler, copy_read_handler, CopyNoOrigin, CopyWrite,
                CopySome, CopyAgain, CopyError, CopySigpipe, OriginFull, OriginData,
                OriginEof, OriginError, Hangup, Crash
  <2> QED BY <2>1, <2>2, <2>3, <2>4 DEF MainThread
<1>2. Sent' = Sent
  BY <1>1 DEF Sent
<1> DEFINE Shrinks == c2s' = c2s /\ (in' \in {in, << >>} \/ (in # << >> /\ in' = Tail(in)))
<1>3. (socksv5_read /\ ReadData) \/ CopySome \/ Shrinks
  <2>1. CASE socksv5_read \/ handshake_read \/ auth_read
    BY <2>1 DEF socksv5_read, ReadFull, ReadClosed, Hangup, socksv5_close,
                handshake_read, auth_read, Return, Crash
  <2>2. CASE connection_req_read
    BY <2>2 DEF connection_req_read, RequestUnsupported, RequestAddress, RequestDomain,
                RequestError, socksv5_close, Control, Running
  <2>3. CASE socksv5_write
    <3>1. CASE WriteSome
      <4>1. PICK n : WriteLastReply(n) \/ WriteReply(n) \/ WriteRelayed(n)
        BY <3>1 DEF WriteSome
      <4>2. in' \in {in, << >>}
        <5>1. CASE WriteRelayed(n)
          BY <5>1, Zenon DEF WriteRelayed
        <5> QED BY <4>1, <5>1 DEF WriteLastReply, WriteReply, socksv5_close
      <4> QED BY <3>1, <4>2 DEF WriteSome
    <3> QED BY <2>3, <3>1 DEF socksv5_write, WriteAgain, WriteError, WriteSigpipe,
                              socksv5_close, Crash
  <2>4. CASE socksv5_block \/ connecting_on_block_ready \/ handle_write_connecting
             \/ selector_select_EBADF \/ resolve_host_name
    BY <2>4 DEF socksv5_block, BlockNoAddress, BlockInProgress, BlockSuccess, BlockFailed,
                socksv5_close, connecting_on_block_ready, handle_write_connecting,
                RetryInProgress, RetryNoSocket, RetryFailed, Connected, selector_select_EBADF,
                resolve_host_name, Return, Crash
  <2>5. CASE copy_read \/ copy_write_handler \/ copy_read_handler
    BY <2>5 DEF copy_read, copy_write_handler, copy_read_handler, CopyNoOrigin, CopyWrite,
                CopyAgain, CopyError, CopySigpipe, OriginFull, OriginData,
                OriginEof, OriginError, Hangup, socksv5_close, Crash
  <2> QED BY <2>1, <2>2, <2>3, <2>4, <2>5 DEF MainThread
<1>4. CASE ReadData
  <2>1. in' \in Seq(Sent) /\ c2s' \in Seq(Sent) /\ c2s # << >>
    BY <1>4, RecvType DEF ReadData, InFlight
  <2> QED BY <1>1, <1>2, <2>1 DEF InFlight
<1>5. CASE CopySome
  <2> DEFINE n == Accepted(in, s2o)
  <2>1. n \in Nat /\ n <= Len(in) /\ 0 < n /\ in' = Drop(in, n) /\ c2s' = c2s
    BY <1>5, SendType DEF CopySome, TypeOK
  <2> HIDE DEF n
  <2>2. in' \in Seq(Sent)
    BY <2>1, TakeDropType DEF InFlight
  <2>3. in # << >>
    BY <2>1, EmptySeq
  <2> QED BY <1>1, <1>2, <2>1, <2>2, <2>3 DEF InFlight
<1>6. CASE Shrinks
  <2>1. in' \in Seq(Sent)
    BY <1>6, EmptySeq, HeadTailType DEF InFlight
  <2> QED BY <1>1, <1>2, <1>6, <2>1 DEF InFlight
<1> QED BY <1>3, <1>4, <1>5, <1>6

(* What the client adds is what it has just sent, and what is in flight      *)
(* stays so: only the first message is a greeting, and the credentials are   *)
(* presented at most once.                                                   *)
LEMMA InFlightEnvironment ==
  ASSUME TypeOK, InFlight, Client \/ ConnectEnds \/ Origin
  PROVE  InFlight'
<1> USE DEF thread, sel, bufs, negot, conn, metrics, cl, og, peers, wire, server
<1> DEFINE Adds == \E m \in Sent' : c2s' = Append(c2s, m)
<1>1. /\ in' = in
      /\ \/ ClientHello
         \/ Sent \subseteq Sent' /\ cstage' # "hello" /\ Adds
         \/ UNCHANGED <<c2s, cstage, cmeth, ccred>>
  <2>1. CASE ClientHello
    BY <2>1 DEF ClientHello
  <2>2. CASE ClientAuth
    <3>1. PICK v \in Creds : c2s' = Append(c2s, Msg("auth", v)) /\ ccred' = v
      BY <2>2 DEF ClientAuth
    <3>2. Msg("auth", v) \in Message
      BY MessageType, InputsAssumption
    <3>3. Msg("auth", v) \in Sent'
      BY <2>2, <3>1, <3>2 DEF ClientAuth, Sent, Msg
    <3>4. Sent \subseteq Sent'
      BY <2>2 DEF ClientAuth, Sent
    <3> QED BY <2>2, <3>1, <3>3, <3>4 DEF ClientAuth
  <2>3. CASE ClientRequest
    <3>1. PICK r \in Requests : c2s' = Append(c2s, Msg("req", r))
      BY <2>3 DEF ClientRequest
    <3>2. Msg("req", r) \in Message
      BY MessageType, InputsAssumption
    <3>3. Msg("req", r) \in Sent' /\ Sent \subseteq Sent'
      BY <2>3, <3>2 DEF ClientRequest, Sent, Msg
    <3> QED BY <2>3, <3>1, <3>3 DEF ClientRequest
  <2>4. CASE ClientGarbage
    <3>1. Msg("garbage", 0) \in Message
      BY MessageType
    <3>2. Msg("garbage", 0) \in Sent' /\ Sent \subseteq Sent'
      BY <2>4, <3>1 DEF ClientGarbage, Sent, Msg
    <3> QED BY <2>4, <3>2 DEF ClientGarbage
  <2>5. CASE ClientData
    <3>1. Msg("data", csent + 1) \in Message
      BY MessageType DEF TypeOK
    <3>2. Msg("data", csent + 1) \in Sent' /\ Sent \subseteq Sent'
      BY <2>5, <3>1 DEF ClientData, Sent, Msg
    <3> QED BY <2>5, <3>2 DEF ClientData
  <2>6. CASE ClientRecv \/ ClientSeesClose \/ ClientClose \/ ConnectEnds \/ Origin
    BY <2>6 DEF ClientRecv, ClientSeesClose, ClientClose, ConnectEnds, Origin, OriginRecv,
                OriginSend, OriginClose
  <2> QED BY <2>1, <2>2, <2>3, <2>4, <2>5, <2>6 DEF Client
<1>2. CASE ClientHello
  <2>1. PICK m \in Methods : c2s' = Append(c2s, Msg("hello", m)) /\ cmeth' = m
    BY <1>2 DEF ClientHello
  <2>2. Msg("hello", m) \in Message
    BY MessageType, InputsAssumption
  <2>3. Msg("hello", m) \in Sent'
    BY <2>1, <2>2 DEF Sent, Msg
  <2>4. c2s = << >> /\ in = << >> /\ in' = in /\ cstage' # "hello"
    BY <1>2 DEF ClientHello, InFlight
  <2>5. << >> \in Seq(Sent')
    BY EmptySeq
  <2>6. c2s' \in Seq(Sent')
    BY <2>1, <2>3, <2>4, <2>5, AppendProperties
  <2> QED BY <2>4, <2>5, <2>6 DEF InFlight
<1>3. CASE Sent \subseteq Sent' /\ cstage' # "hello" /\ Adds
  <2>1. c2s \in Seq(Sent') /\ in \in Seq(Sent')
    BY <1>3, SeqMonotonic DEF InFlight
  <2>2. c2s' \in Seq(Sent')
    BY <1>3, <2>1, AppendProperties
  <2> QED BY <1>1, <1>3, <2>1, <2>2 DEF InFlight
<1>4. CASE UNCHANGED <<c2s, cstage, cmeth, ccred>>
  <2>1. Sent' = Sent
    BY <1>4 DEF Sent
  <2> QED BY <1>1, <1>4, <2>1 DEF InFlight
<1> QED BY <1>1, <1>2, <1>3, <1>4

(* The state machine moves on to a request only with what the client has     *)
(* presented, and the client cannot take back what it has presented.         *)
LEMMA CredentialsStep ==
  ASSUME IndInv, [Next]_vars
  PROVE  Credentials'
<1> USE DEF thread, sel, bufs, negot, conn, metrics, cl, og, peers, wire, server,
            Credentials, Accepts, Idle, Running, Goto, Call, Ends
<1> USE DEF IndInv
<1>1. CASE socksv5_read
  <2>1. ci = "READ" /\ UNCHANGED <<cstage, cmeth, ccred>>
    BY <1>1 DEF socksv5_read, ReadFull, ReadData, ReadClosed, Hangup
  <2>2. CASE ReadFull
    BY <2>1, <2>2 DEF ReadFull
  <2>3. CASE ReadData
    <3>1. cstage # "hello" /\ ci' = "READ" /\ (st' = st \/ (st = "NONE" /\ st' = "HANDSHAKE"))
      BY <2>1, <2>3 DEF ReadData, FirstState, InFlight
    <3> QED BY <2>1, <3>1
  <2>4. CASE ReadClosed
    BY <2>1, <2>4 DEF ReadClosed, Hangup, socksv5_close
  <2> QED BY <1>1, <2>2, <2>3, <2>4 DEF socksv5_read
<1>2. CASE socksv5_write
  <2>1. ci = "WRITE"
    BY <1>2 DEF socksv5_write, Control
  <2>2. CASE WriteSome
    <3> DEFINE n == Accepted(out, s2c)
    <3>1. /\ UNCHANGED <<cstage, cmeth, ccred>>
          /\ WriteLastReply(n) \/ WriteReply(n) \/ WriteRelayed(n)
      BY <2>2 DEF WriteSome, SendToClient
    <3>2. CASE WriteReply(n)
      <4>1. n = Len(out)
        BY <2>1, <3>2, ReplySent DEF WriteReply, has_write_handler, Negotiation, TypeOK
      <4>2. ci' = "READ"
        BY <3>2, <4>1, SMT DEF WriteReply, InterestAfterWrite, TypeOK
      <4>3. ~err /\ st \in {"HANDSHAKE", "AUTH", "CONN_REQ", "CONNECTING"} /\ st' = on_write_ready
        BY <3>2, Zenon DEF WriteReply, has_write_handler
      <4>4. CASE st = "HANDSHAKE"
        <5>1. st' = IF meth = USER_PASS THEN "AUTH" ELSE "CONN_REQ"
          BY <4>3, <4>4 DEF on_write_ready
        <5>2. meth = cmeth /\ meth \in {USER_PASS, NO_AUTH}
          BY <2>1, <4>3, <4>4 DEF TypeOK
        <5> QED BY <3>1, <4>2, <4>4, <5>1, <5>2
      <4>5. CASE st # "HANDSHAKE"
        <5>1. st' \in {"CONN_REQ", "COPY"}
          BY <4>3, <4>5 DEF on_write_ready
        <5>2. Accepts
          BY <2>1, <4>3, <4>5
        <5> QED BY <3>1, <4>2, <4>3, <4>5, <5>1, <5>2
      <4> QED BY <4>4, <4>5
    <3>3. CASE WriteLastReply(n)
      BY <3>1, <3>3 DEF WriteLastReply, socksv5_close
    <3>4. CASE WriteRelayed(n)
      <4>1. st = "COPY" /\ st' = "COPY"
        BY <3>4, Zenon DEF WriteRelayed
      <4> QED BY <3>1, <4>1
    <3> QED BY <3>1, <3>2, <3>3, <3>4
  <2>3. CASE WriteAgain \/ WriteSigpipe
    BY <2>3 DEF WriteAgain, WriteSigpipe, Crash
  <2>4. CASE WriteError
    BY <2>4 DEF WriteError, socksv5_close
  <2> QED BY <1>2, <2>2, <2>3, <2>4 DEF socksv5_write
<1>3. CASE socksv5_block
  <2>1. st = "CONNECTING" /\ UNCHANGED <<cstage, cmeth, ccred>>
    BY <1>3 DEF socksv5_block, Resolution
  <2>2. st' \in {"CONN_REQ", "CONNECTING", "FREED"}
    BY <1>3, <2>1 DEF socksv5_block, BlockNoAddress, BlockInProgress, BlockSuccess,
                      BlockFailed, socksv5_close
  <2> QED BY <2>1, <2>2
<1>4. CASE handshake_read
  <2>1. CASE st = "HANDSHAKE" /\ in # << >> /\ Head(in).t = "hello"
    <3>1. Head(in) \in Sent
      BY <2>1, HeadTailType DEF InFlight
    <3>2. Head(in).v = cmeth
      BY <2>1, <3>1 DEF Sent
    <3>3. /\ meth' = Head(in).v /\ st' = st
          /\ err' = (Head(in).v = NO_ACCEPTABLE) /\ UNCHANGED <<cstage, cmeth, ccred>>
      BY <1>4, <2>1 DEF handshake_read
    <3> QED BY <2>1, <3>2, <3>3
  <2>2. CASE Hangup(1)
    BY <2>2 DEF Hangup, socksv5_close
  <2>3. CASE Return \/ Crash("aborted")
    BY <2>3 DEF Return, Crash
  <2> QED BY <1>4, <2>1, <2>2, <2>3 DEF handshake_read
<1>5. CASE auth_read
  <2>1. CASE st = "AUTH" /\ in # << >> /\ Head(in).t = "auth"
    <3>1. Head(in) \in Sent
      BY <2>1, HeadTailType DEF InFlight
    <3>2. Head(in).v = ccred
      BY <2>1, <3>1 DEF Sent
    <3>3. /\ st' = st /\ err' = ~(Head(in).v = 1) /\ UNCHANGED <<cstage, cmeth, ccred>>
      BY <1>5, <2>1 DEF auth_read
    <3> QED BY <2>1, <3>2, <3>3
  <2>2. CASE Hangup(1)
    BY <2>2 DEF Hangup, socksv5_close
  <2>3. CASE Return \/ Crash("aborted")
    BY <2>3 DEF Return, Crash
  <2> QED BY <1>5, <2>1, <2>2, <2>3 DEF auth_read
<1>6. CASE connection_req_read
  <2>1. st = "CONN_REQ" /\ UNCHANGED <<cstage, cmeth, ccred>>
    BY <1>6 DEF connection_req_read, Control
  <2>2. st' \in {"CONN_REQ", "CONNECTING", "FREED"}
    BY <1>6, <2>1 DEF connection_req_read, RequestUnsupported, RequestAddress,
                      RequestDomain, RequestError, socksv5_close
  <2> QED BY <2>1, <2>2
<1>7. CASE handle_write_connecting
  <2>1. st = "CONNECTING" /\ UNCHANGED <<cstage, cmeth, ccred>>
    BY <1>7 DEF handle_write_connecting, Control
  <2>2. st' \in {"CONNECTING", "COPY"}
    BY <1>7, <2>1 DEF handle_write_connecting, RetryInProgress, RetryNoSocket, RetryFailed, Connected
  <2> QED BY <2>1, <2>2
<1>8. CASE copy_read \/ copy_write_handler \/ copy_read_handler
  <2>1. st = "COPY"
    BY <1>8 DEF copy_read, copy_write_handler, copy_read_handler, Control
  <2>2. st' \in {"COPY", "FREED"} /\ UNCHANGED <<cstage, cmeth, ccred>>
    BY <1>8, <2>1 DEF copy_read, copy_write_handler, copy_read_handler, CopyNoOrigin,
                      CopyWrite, CopySome, CopyAgain, CopyError, CopySigpipe, OriginFull,
                      OriginData, OriginEof, OriginError, Hangup, socksv5_close, Crash
  <2> QED BY <2>1, <2>2
<1>9. CASE connecting_on_block_ready \/ selector_select_EBADF \/ resolve_host_name
  BY <1>9 DEF connecting_on_block_ready, selector_select_EBADF, resolve_host_name, Return, Crash
<1>10. CASE ClientHello
  <2>1. st \in {"NONE", "FREED"} /\ st' = st /\ ccred' = ccred /\ cstage' # "hello"
    BY <1>10 DEF ClientHello
  <2> QED BY <1>10, <2>1 DEF ClientHello
<1>11. CASE ClientAuth
  <2>1. ccred = 0 /\ cstage' = "req" /\ cmeth' = cmeth /\ UNCHANGED <<st, ci, err, meth>>
    BY <1>11 DEF ClientAuth
  <2> QED BY <1>11, <2>1 DEF ClientAuth
<1>12. CASE \/ ClientRequest \/ ClientGarbage \/ ClientData \/ ClientRecv
            \/ ClientSeesClose \/ ClientClose
  BY <1>12 DEF ClientRequest, ClientGarbage, ClientData, ClientRecv, ClientSeesClose, ClientClose
<1>13. CASE ConnectEnds \/ Origin
  BY <1>13 DEF ConnectEnds, Origin, OriginRecv, OriginSend, OriginClose
<1>14. CASE UNCHANGED vars
  BY <1>14 DEF vars
<1> QED BY <1>1, <1>2, <1>3, <1>4, <1>5, <1>6, <1>7, <1>8, <1>9, <1>10, <1>11, <1>12,
           <1>13, <1>14 DEF Next, MainThread, Client

-----------------------------------------------------------------------------
(* The theorems. *)

(* The invariant holds of a connection that has just been accepted. *)
LEMMA InitInv == Init => IndInv
<1> SUFFICES ASSUME Init PROVE IndInv
  OBVIOUS
<1>1. \A S : << >> \in Seq(S)
  BY EmptySeq
<1>2. TypeOK
  <2>1. addr \in Seq(AddrKind) /\ log \in Seq(Codes) /\ creps \in Seq(Codes)
    BY <1>1 DEF Init
  <2>2. /\ in \in Seq(Message) /\ out \in Seq(Message)
        /\ c2s \in Seq(Message) /\ s2c \in Seq(Message)
        /\ s2o \in Seq(Message) /\ o2s \in Seq(Message)
        /\ crecv \in Seq(Message) /\ orecv \in Seq(Message)
    BY <1>1 DEF Init
  <2>3. /\ srv = "up" /\ pc = "select" /\ ret = "select" /\ st = "NONE"
        /\ ci = "READ" /\ oh = "none" /\ oi = "UNREG" /\ ofd = "zero"
        /\ stale = FALSE /\ lis = "READ" /\ err = FALSE /\ user = FALSE
        /\ meth = NO_ACCEPTABLE /\ resolver = "idle" /\ cstage = "hello"
        /\ csock = "open" /\ cmeth = NO_ACCEPTABLE /\ osock = "none" /\ okind = "none"
    BY DEF Init
  <2>4. /\ current \in Nat /\ errors \in Nat /\ bytes \in Nat
        /\ cwait \in Int /\ ccred \in {0, 1} /\ csent \in Nat /\ osent \in Nat
    BY DEF Init
  <2>5. stale \in BOOLEAN /\ err \in BOOLEAN /\ user \in BOOLEAN
    BY <2>3
  <2> QED BY <2>1, <2>2, <2>3, <2>4, <2>5 DEF TypeOK
<1>3. InFlight
  BY <1>1 DEF Init, InFlight
<1> QED BY <1>2, <1>3 DEF Init, IndInv, Control, Resolution, Negotiation, Credentials

(* Every step of a handler, of the resolver thread or of a peer keeps it. *)
LEMMA NextInv == IndInv /\ [Next]_vars => IndInv'
<1> SUFFICES ASSUME IndInv, [Next]_vars PROVE IndInv'
  OBVIOUS
<1>1. TypeOK'
  BY TypeStep DEF IndInv
<1>2. Control' /\ Resolution'
  BY ControlStep DEF IndInv
<1>3. Negotiation'
  BY NegotiationStep DEF IndInv
<1>4. InFlight'
  <2>1. CASE UNCHANGED vars
    <3>1. UNCHANGED <<c2s, in, cstage, cmeth, ccred>>
      BY <2>1 DEF vars, conn, bufs, peers, cl, wire
    <3>2. Sent' = Sent
      BY <3>1 DEF Sent
    <3> QED BY <3>1, <3>2 DEF IndInv, InFlight
  <2> QED BY <2>1, InFlightServer, InFlightEnvironment DEF IndInv, Next
<1>5. Credentials'
  BY CredentialsStep
<1> QED BY <1>1, <1>2, <1>3, <1>4, <1>5 DEF IndInv

(* The inductive invariant holds in every reachable state, whatever the      *)
(* environment of the connection does.                                       *)
THEOREM Invariance == Spec => []IndInv
BY InitInv, NextInv, PTL DEF Spec

(* Every variable of the connection keeps its type: in particular every      *)
(* event finds a handler in the table of the state machine.                  *)
THEOREM TypeCorrect == Spec => []TypeOK
<1>1. IndInv => TypeOK
  BY DEF IndInv
<1> QED BY <1>1, Invariance, PTL

(* Between pthread_create in conn_req.c and the block event, the connection  *)
(* that the resolver thread writes to exists and waits for the event.        *)
THEOREM ResolverIsSafe == Spec => []ResolverSafe
<1>1. IndInv => ResolverSafe
  BY DEF IndInv, Resolution, ResolverSafe
<1> QED BY <1>1, Invariance, PTL

(* No origin is contacted for a client that did not ask for no               *)
(* authentication or present valid credentials.                              *)
THEOREM AuthenticatedBeforeRelay == Spec => []AuthBeforeRelay
<1>1. IndInv => AuthBeforeRelay
  BY DEF IndInv, Control, Credentials, Accepts, AuthBeforeRelay
<1> QED BY <1>1, Invariance, PTL
-----------------------------------------------------------------------------
(* The second inductive invariant: the relay and the answer to the request. *)

(* What the kernel reports of a socket that has been connected. *)
HasConnected == osock \in {"est", "closed", "broken", "reset"}

(* A freed connection is watched for nothing, and an error reply is on its   *)
(* way out.                                                                  *)
Ending ==
  /\ st = "FREED" => ci = "UNREG"
  /\ err /\ st # "FREED" => ci = "WRITE" /\ st # "COPY"
  /\ st = "CONN_REQ" /\ ci = "WRITE" => err

(* In the relay one buffer is empty, the other one is matched by an interest *)
(* that empties it, and between the handlers a peer is left alone only while *)
(* the buffer it would fill is full.                                         *)
Directions ==
  st = "COPY" =>
    /\ in = << >> \/ out = << >>
    /\ ci = "WRITE" <=> out # << >>
    /\ oh = "copy" /\ oi = "WRITE" => in # << >>
    /\ oi = "READ" /\ pc # "copy_read" => in = << >>
    /\ pc = "copy_read" => in # << >>
    /\ pc # "copy_read" /\ in # << >> => oi = "WRITE"
    /\ ci = "NOOP" => Room(in) = 0
    /\ oh = "none" => oi = "UNREG"
    /\ oi = "NOOP" => Room(out) = 0 \/ (orecv = << >> /\ s2o = << >>)

(* Before the relay nothing has reached the origin, and the client has been  *)
(* told the results of the negotiation only.                                 *)
BeforeRelay ==
  st \notin {"COPY", "FREED"} =>
    /\ orecv = << >> /\ s2o = << >>
    /\ crecv = << >> /\ creps = << >>
    /\ \A i \in 1..Len(s2c) : s2c[i].t \in {"method", "status"}
    /\ st \in {"NONE", "HANDSHAKE", "AUTH"} /\ ci = "WRITE" => Head(out).t # "rep"

(* The result of the connection attempt is logged when its reply is queued,  *)
(* and nothing is before.                                                    *)
Answer ==
  /\ st \in {"NONE", "HANDSHAKE", "AUTH"} => log = << >>
  /\ st \in {"CONN_REQ", "CONNECTING"} /\ ci # "WRITE" => log = << >>
  /\ st \in {"CONN_REQ", "CONNECTING"} /\ ci = "WRITE" /\ err => log # <<REP_SUCCEEDED>>
  /\ st = "CONNECTING" /\ ci = "WRITE" /\ ~err =>
       /\ log = <<REP_SUCCEEDED>> /\ HasConnected
       /\ in = << >> /\ out = <<Msg("rep", REP_SUCCEEDED)>>
  /\ st = "COPY" => log = <<REP_SUCCEEDED>> /\ HasConnected

(* What the client has received and what is on its way to it: in the relay k *)
(* replies, the last of which answers the request, and then the data.        *)
ToClient(k, q, rest, data, reps, sent) ==
  /\ \A i \in 1..k : IsReply(q[i]) /\ (q[i].t = "rep" <=> i = k)
  /\ reps = IF k = 0 THEN <<REP_SUCCEEDED>> ELSE << >>
  /\ k # 0 => data = << >> /\ q[k].v = REP_SUCCEEDED
  /\ data \o Drop(q, k) \o rest = Data(sent)

Downstream ==
  /\ \A i \in 1..Len(o2s) : o2s[i].t = "data"
  /\ st \notin {"COPY", "FREED"} => o2s = Data(osent)
  /\ st = "COPY" /\ csock = "open" =>
       \E k \in 0..Len(s2c \o out) : ToClient(k, s2c \o out, o2s, crecv, creps, osent)

RelayInv == Ending /\ Directions /\ BeforeRelay /\ Answer /\ Downstream /\ ReplyMatchesLog

(* Every step preserves Ending. *)
LEMMA EndingStep ==
  ASSUME IndInv, Ending, [Next]_vars
  PROVE  Ending'
<1> USE DEF thread, sel, bufs, negot, conn, metrics, cl, og, peers, wire, server,
            Ending, Idle, Running, Goto, Call, Ends
<1>0. TypeOK /\ Control /\ Resolution /\ Negotiation
  BY DEF IndInv
<1>1. CASE socksv5_read
  BY <1>1 DEF socksv5_read, ReadFull, ReadData, ReadClosed, Hangup, socksv5_close, FirstState
<1>2. CASE socksv5_write
  <2>1. ci = "WRITE"
    BY <1>0, <1>2 DEF socksv5_write, Control
  <2>2. CASE WriteSome
    <3> DEFINE n == Accepted(out, s2c)
    <3>1. WriteLastReply(n) \/ WriteReply(n) \/ WriteRelayed(n)
      BY <2>2 DEF WriteSome
    <3>2. CASE WriteReply(n)
      <4>1. n = Len(out)
        BY <1>0, <2>1, <3>2, ReplySent DEF WriteReply, has_write_handler, Negotiation, TypeOK
      <4>2. ci' = "READ"
        BY <1>0, <3>2, <4>1, SMT DEF WriteReply, InterestAfterWrite, TypeOK
      <4> QED BY <3>2, <4>2 DEF WriteReply, on_write_ready
    <3>3. CASE WriteLastReply(n)
      BY <3>3 DEF WriteLastReply, socksv5_close
    <3>4. CASE WriteRelayed(n)
      <4>1. st = "COPY" /\ st' = "COPY" /\ err' = err
        BY <3>4, Zenon DEF WriteRelayed
      <4> QED BY <4>1
    <3> QED BY <3>1, <3>2, <3>3, <3>4
  <2>3. CASE WriteAgain \/ WriteError \/ WriteSigpipe
    BY <2>3 DEF WriteAgain, WriteError, WriteSigpipe, socksv5_close, Crash
  <2> QED BY <1>2, <2>2, <2>3 DEF socksv5_write
<1>3. CASE socksv5_block
  <2>1. st = "CONNECTING" /\ ci = "NOOP"
    BY <1>0, <1>3 DEF socksv5_block, Resolution
  <2> QED BY <1>3, <2>1 DEF socksv5_block, BlockNoAddress, BlockInProgress, BlockSuccess,
                            BlockFailed, ConnectInProgress, ConnectSuccess, socksv5_close
<1>4. CASE handshake_read \/ auth_read
  BY <1>4 DEF handshake_read, auth_read, Hangup, socksv5_close, Return, Crash
<1>5. CASE connection_req_read
  <2>1. st = "CONN_REQ" /\ ci # "WRITE"
    BY <1>0, <1>5 DEF connection_req_read, Control, Negotiation
  <2> QED BY <1>5, <2>1 DEF connection_req_read, RequestUnsupported, RequestAddress,
                            RequestDomain, RequestError, socksv5_close
<1>6. CASE handle_write_connecting
  <2>1. st = "CONNECTING" /\ ci = "NOOP"
    BY <1>0, <1>6 DEF handle_write_connecting, Control
  <2> QED BY <1>6, <2>1 DEF handle_write_connecting, RetryInProgress, RetryNoSocket, RetryFailed,
                            Connected
<1>7. CASE copy_read \/ copy_write_handler \/ copy_read_handler
  <2>1. st = "COPY"
    BY <1>0, <1>7 DEF copy_read, copy_write_handler, copy_read_handler, Control
  <2> QED BY <1>7, <2>1 DEF copy_read, copy_write_handler, copy_read_handler, CopyNoOrigin,
                      CopyWrite, CopySome, CopyAgain, CopyError, CopySigpipe, OriginFull,
                      OriginData, OriginEof, OriginError, Hangup, socksv5_close, Crash
<1>8. CASE connecting_on_block_ready \/ selector_select_EBADF \/ resolve_host_name
  BY <1>8 DEF connecting_on_block_ready, selector_select_EBADF, resolve_host_name, Return, Crash
<1>9. CASE Client
  BY <1>9 DEF Client, ClientHello, ClientAuth, ClientRequest, ClientGarbage, ClientData,
              ClientRecv, ClientSeesClose, ClientClose
<1>10. CASE ConnectEnds \/ Origin
  BY <1>10 DEF ConnectEnds, Origin, OriginRecv, OriginSend, OriginClose
<1>11. CASE UNCHANGED vars
  BY <1>11 DEF vars
<1> QED BY <1>1, <1>2, <1>3, <1>4, <1>5, <1>6, <1>7, <1>8, <1>9, <1>10, <1>11
        DEF Next, MainThread

(* Every step preserves BeforeRelay.  Replies of the request are not read    *)
(* before the relay: writing one ends the connection or enters COPY.         *)
LEMMA BeforeRelayStep ==
  ASSUME IndInv, Ending, BeforeRelay, [Next]_vars
  PROVE  BeforeRelay'
<1> USE DEF thread, sel, bufs, negot, conn, metrics, cl, og, peers, wire, server,
            BeforeRelay, Idle, Running, Goto, Call, Ends
<1>0. TypeOK /\ Control /\ Resolution /\ Negotiation
  BY DEF IndInv
<1>1. CASE socksv5_read
  BY <1>1 DEF socksv5_read, ReadFull, ReadData, ReadClosed, Hangup, socksv5_close, FirstState
<1>2. CASE socksv5_write
  <2>1. ci = "WRITE"
    BY <1>0, <1>2 DEF socksv5_write, Control
  <2>2. CASE WriteSome
    <3> DEFINE n == Accepted(out, s2c)
    <3>1. /\ WriteLastReply(n) \/ WriteReply(n) \/ WriteRelayed(n)
          /\ UNCHANGED <<s2o, o2s>> /\ SendToClient(n)
      BY <2>2 DEF WriteSome
    <3>2. CASE WriteReply(n)
      <4>1. n = 1 /\ Len(out) = 1 /\ out \in Seq(Message) /\ IsReply(Head(out))
        BY <1>0, <2>1, <3>2, ReplySent DEF WriteReply, has_write_handler, Negotiation, TypeOK
      <4>2. ci' = "READ"
        BY <1>0, <3>2, <4>1, SMT DEF WriteReply, InterestAfterWrite, TypeOK
      <4>3. CASE st \in {"HANDSHAKE", "AUTH"}
        <5>1. out[1].t \in {"method", "status"}
          BY <2>1, <4>1, <4>3 DEF IsReply
        <5>2. Take(out, n) = out
          BY <4>1, SubSeqFull DEF Take
        <5>3. \A i \in 1..Len(s2c') : s2c'[i].t \in {"method", "status"}
          <6>1. s2c' = s2c \/ s2c' = s2c \o out
            BY <3>1, <5>2 DEF SendToClient
          <6>2. s2c \in Seq(Message) /\ Len(s2c) \in Nat
            BY <1>0, LenProperties DEF TypeOK
          <6>3. /\ Len(s2c \o out) = Len(s2c) + Len(out)
                /\ \A i \in 1..Len(s2c) + Len(out) :
                     (s2c \o out)[i] = IF i <= Len(s2c) THEN s2c[i] ELSE out[i - Len(s2c)]
            BY <4>1, <6>2, ConcatProperties
          <6>4. \A i \in 1..Len(s2c) : s2c[i].t \in {"method", "status"}
            BY <4>3
          <6>5. \A i \in 1..Len(s2c) + Len(out) : (s2c \o out)[i].t \in {"method", "status"}
            BY <4>1, <5>1, <6>2, <6>3, <6>4
          <6> QED BY <6>1, <6>3, <6>4, <6>5
        <5>4. UNCHANGED <<orecv, s2o, crecv, creps>>
          BY <3>1, <3>2 DEF WriteReply, SendToClient
        <5> QED BY <4>2, <4>3, <5>3, <5>4
      <4>4. CASE st \in {"CONN_REQ", "CONNECTING"}
        <5>1. st' = "COPY"
          BY <3>2, <4>4, Zenon DEF WriteReply, on_write_ready
        <5> QED BY <5>1
      <4> QED BY <3>2, <4>3, <4>4 DEF WriteReply, has_write_handler
    <3>3. CASE WriteLastReply(n)
      BY <3>3 DEF WriteLastReply, socksv5_close
    <3>4. CASE WriteRelayed(n)
      <4>1. st' = "COPY"
        BY <3>4, Zenon DEF WriteRelayed
      <4> QED BY <4>1
    <3> QED BY <3>1, <3>2, <3>3, <3>4
  <2>3. CASE WriteAgain \/ WriteError \/ WriteSigpipe
    BY <2>3 DEF WriteAgain, WriteError, WriteSigpipe, socksv5_close, Crash
  <2> QED BY <1>2, <2>2, <2>3 DEF socksv5_write
<1>3. CASE socksv5_block
  <2>1. st = "CONNECTING" /\ ci = "NOOP"
    BY <1>0, <1>3 DEF socksv5_block, Resolution
  <2> QED BY <1>3, <2>1 DEF socksv5_block, BlockNoAddress, BlockInProgress, BlockSuccess,
                            BlockFailed, ConnectInProgress, ConnectSuccess, socksv5_close
<1>4. CASE handshake_read \/ auth_read
  <2>1. CASE pc' = "socksv5_write"
    <3>1. /\ st \in {"HANDSHAKE", "AUTH"} /\ st' = st /\ out = << >>
          /\ UNCHANGED <<orecv, s2o, s2c, crecv, creps>>
          /\ \E m : m.t \in {"method", "status"} /\ out' = WithReply(m)
      BY <1>0, <1>4, <2>1 DEF handshake_read, auth_read, Hangup, Return, Crash, Msg, Negotiation
    <3>2. PICK m : m.t \in {"method", "status"} /\ out' = WithReply(m)
      BY <3>1
    <3>3. out' = <<m>>
      BY <3>1, <3>2, EmptyTakesReply
    <3> QED BY <3>1, <3>2, <3>3
  <2>2. CASE Hangup(1) \/ Return \/ Crash("aborted")
    BY <2>2 DEF Hangup, socksv5_close, Return, Crash
  <2> QED BY <1>4, <2>1, <2>2 DEF handshake_read, auth_read
<1>5. CASE connection_req_read
  <2>1. st = "CONN_REQ"
    BY <1>0, <1>5 DEF connection_req_read, Control
  <2> QED BY <1>5, <2>1 DEF connection_req_read, RequestUnsupported, RequestAddress,
                            RequestDomain, RequestError, socksv5_close
<1>6. CASE handle_write_connecting
  <2>1. st = "CONNECTING"
    BY <1>0, <1>6 DEF handle_write_connecting, Control
  <2> QED BY <1>6, <2>1 DEF handle_write_connecting, RetryInProgress, RetryNoSocket, RetryFailed,
                            Connected, ConnectInProgress
<1>7. CASE copy_read \/ copy_write_handler \/ copy_read_handler
  <2>1. st = "COPY"
    BY <1>0, <1>7 DEF copy_read, copy_write_handler, copy_read_handler, Control
  <2>2. st' \in {"COPY", "FREED"}
    BY <1>7, <2>1 DEF copy_read, copy_write_handler, copy_read_handler, CopyNoOrigin,
                      CopyWrite, CopySome, CopyAgain, CopyError, CopySigpipe, OriginFull,
                      OriginData, OriginEof, OriginError, Hangup, socksv5_close, Crash
  <2> QED BY <2>2
<1>8. CASE connecting_on_block_ready \/ selector_select_EBADF \/ resolve_host_name
  BY <1>8 DEF connecting_on_block_ready, selector_select_EBADF, resolve_host_name, Return, Crash
<1>9. CASE Client
  <2>1. CASE ClientRecv
    <3>1. CASE st \notin {"COPY", "FREED"}
      <4>1. s2c \in Seq(Message) /\ s2c # << >> /\ s2c' = Tail(s2c)
        BY <1>0, <2>1 DEF ClientRecv, TypeOK
      <4>2. Head(s2c).t \in {"method", "status"}
        BY <3>1, <4>1
      <4>3. \A i \in 1..Len(s2c') : s2c'[i].t \in {"method", "status"}
        BY <3>1, <4>1, HeadTailProperties
      <4>4. crecv' = crecv /\ creps' = creps
        BY <2>1, <4>2 DEF ClientRecv
      <4> QED BY <2>1, <3>1, <4>3, <4>4 DEF ClientRecv
    <3> QED BY <2>1, <3>1 DEF ClientRecv
  <2> QED BY <1>9, <2>1 DEF Client, ClientHello, ClientAuth, ClientRequest, ClientGarbage, ClientData,
              ClientSeesClose, ClientClose
<1>10. CASE ConnectEnds \/ Origin
  BY <1>0, <1>10 DEF ConnectEnds, Origin, OriginRecv, OriginSend, OriginClose, Control
<1>11. CASE UNCHANGED vars
  BY <1>11 DEF vars
<1> QED BY <1>1, <1>2, <1>3, <1>4, <1>5, <1>6, <1>7, <1>8, <1>9, <1>10, <1>11
        DEF Next, MainThread

(* What is left in a buffer after send() has taken n pieces of it. *)
LEMMA DropEmpty ==
  ASSUME NEW b \in Seq(Message), NEW n \in Nat, 0 < n, n <= Len(b)
  PROVE  /\ b # << >>
         /\ n < Len(b) => Drop(b, n) # << >>
         /\ n = Len(b) => Drop(b, n) = << >>
<1>1. Drop(b, n) \in Seq(Message) /\ Len(Drop(b, n)) = Len(b) - n
  <2>1. n \in Int /\ 0 <= n
    OBVIOUS
  <2> QED BY <2>1, TakeDropType
<1>2. Len(b) \in Nat
  BY LenProperties
<1>3. Drop(b, n) # << >> => Len(Drop(b, n)) \in Nat \ {0}
  BY <1>1, EmptySeq
<1>4. b # << >>
  BY EmptySeq
<1>5. ASSUME n < Len(b) PROVE Drop(b, n) # << >>
  <2>1. Len(Drop(b, n)) # 0
    BY <1>1, <1>2, <1>5
  <2> QED BY <2>1, EmptySeq
<1>6. ASSUME n = Len(b) PROVE Drop(b, n) = << >>
  <2>1. Len(Drop(b, n)) = 0
    BY <1>1, <1>2, <1>6
  <2> QED BY <1>3, <2>1
<1> QED BY <1>4, <1>5, <1>6

(* A buffer without room is not empty. *)
LEMMA FullNotEmpty ==
  ASSUME NEW b, Room(b) = 0
  PROVE  b # << >>
<1>1. Len(<< >>) = 0
  OBVIOUS
<1> QED BY <1>1, SizesAssumption DEF Room

(* Every step preserves Directions. *)
LEMMA DirectionsStep ==
  ASSUME IndInv, Ending, Directions, BeforeRelay, Answer, [Next]_vars
  PROVE  Directions'
<1> USE DEF thread, sel, bufs, negot, conn, metrics, cl, og, peers, wire, server,
            Idle, Running, Goto, Call, Ends
<1>0. TypeOK /\ Control /\ Resolution /\ Negotiation
  BY DEF IndInv
<1>1. CASE socksv5_read
  <2>1. CASE ReadFull
    <3>1. in # << >>
      BY <2>1, FullNotEmpty DEF ReadFull
    <3> QED BY <1>1, <2>1, <3>1 DEF socksv5_read, ReadFull, Directions
  <2>2. CASE ReadData
    <3>1. in' # << >>
      BY <1>0, <2>2, RecvType DEF ReadData, TypeOK
    <3>2. CASE st = "COPY"
      <4>1. st' = "COPY" /\ pc' = "copy_read" /\ out = << >> /\ ci' = "READ"
        BY <1>1, <2>2, <3>2 DEF socksv5_read, ReadData, FirstState, on_read_ready, Directions
      <4> QED BY <2>2, <3>1, <3>2, <4>1 DEF ReadData, Directions
    <3> QED BY <2>2, <3>2 DEF ReadData, FirstState, Directions
  <2>3. CASE ReadClosed
    BY <2>3 DEF ReadClosed, Hangup, socksv5_close, Directions
  <2> QED BY <1>1, <2>1, <2>2, <2>3 DEF socksv5_read
<1>2. CASE socksv5_write
  <2>1. ci = "WRITE"
    BY <1>0, <1>2 DEF socksv5_write, Control
  <2>2. CASE WriteSome
    <3> DEFINE n == Accepted(out, s2c)
    <3>1. /\ WriteLastReply(n) \/ WriteReply(n) \/ WriteRelayed(n)
          /\ UNCHANGED <<s2o, o2s>> /\ pc' = ret /\ n > 0
      BY <2>2 DEF WriteSome
    <3>2. CASE WriteReply(n)
      <4>1. n = Len(out) /\ Drop(out, n) = << >>
        BY <1>0, <2>1, <3>2, ReplySent DEF WriteReply, has_write_handler, Negotiation, TypeOK
      <4>2. out' = << >> /\ ci' = "READ"
        BY <1>0, <3>2, <4>1, SMT DEF WriteReply, InterestAfterWrite, TypeOK
      <4>3. CASE st' = "COPY"
        <5>1. on_write_ready = "COPY" /\ ~err /\ has_write_handler
          BY <3>2, <4>3, Zenon DEF WriteReply
        <5>2. st = "CONNECTING"
          BY <2>1, <5>1 DEF on_write_ready, has_write_handler, Ending
        <5>3. in = << >> /\ orecv = << >> /\ s2o = << >>
          BY <2>1, <5>1, <5>2 DEF Answer, BeforeRelay
        <5>4. in' = << >> /\ orecv' = << >> /\ s2o' = << >> /\ oh' = "copy" /\ oi' = "NOOP"
          BY <3>1, <3>2, <5>1, <5>3, Zenon DEF WriteReply
        <5>5. pc' # "copy_read"
          BY <1>0, <3>1 DEF TypeOK
        <5> QED BY <4>2, <5>4, <5>5 DEF Directions
      <4> QED BY <4>3 DEF Directions
    <3>3. CASE WriteLastReply(n)
      BY <3>3 DEF WriteLastReply, socksv5_close, Directions
    <3>4. CASE WriteRelayed(n)
      <4>1. /\ st = "COPY" /\ st' = st /\ out' = Drop(out, n)
            /\ ci' = InterestAfterWrite(n)
            /\ oi' = CASE oh = "none" -> oi
                       [] oh # "none" /\ Room(out) = 0 -> "READ"
                       [] OTHER -> IF in # << >> THEN "WRITE" ELSE oi
            /\ oh' = oh /\ in' = in /\ orecv' = orecv /\ s2o' = s2o
        BY <3>1, <3>4, Zenon DEF WriteRelayed
      <4>2. n \in Nat /\ 0 < n /\ n <= Len(out) /\ out \in Seq(Message) /\ Len(out) \in Nat
        BY <1>0, <3>1, SendType, LenProperties DEF TypeOK
      <4>3. in = << >>
        BY <2>1, <4>1 DEF Directions
      <4>4. ci' = "WRITE" <=> out' # << >>
        <5>1. CASE n < Len(out)
          BY <4>1, <4>2, <5>1, DropEmpty DEF InterestAfterWrite
        <5>2. CASE n = Len(out)
          <6>1. Drop(out, n) = << >> /\ ~(n < Len(out))
            BY <4>2, <5>2, DropEmpty
          <6> QED BY <4>1, <6>1 DEF InterestAfterWrite
        <5> QED BY <4>2, <5>1, <5>2
      <4>5. ci' \in {"READ", "WRITE"}
        BY <4>1 DEF InterestAfterWrite
      <4>6. /\ oi' \in {oi, "READ"} /\ (oh = "none" => oi' = oi)
            /\ oi' = "NOOP" => oi = "NOOP" /\ (oh = "none" \/ Room(out) # 0)
        BY <4>1, <4>3
      <4>7. pc' # "copy_read"
        BY <1>0, <3>1 DEF TypeOK
      <4> QED BY <4>1, <4>3, <4>4, <4>5, <4>6, <4>7 DEF Directions
    <3> QED BY <3>1, <3>2, <3>3, <3>4
  <2>3. CASE WriteAgain
    <3>1. pc' # "copy_read" /\ (st = "COPY" => in = << >>)
      BY <1>0, <2>1, <2>3 DEF TypeOK, WriteAgain, Directions
    <3> QED BY <2>3, <3>1 DEF WriteAgain, Directions
  <2>4. CASE WriteError \/ WriteSigpipe
    BY <2>4 DEF WriteError, WriteSigpipe, socksv5_close, Crash, Directions
  <2> QED BY <1>2, <2>2, <2>3, <2>4 DEF socksv5_write
<1>3. CASE socksv5_block
  <2>1. st = "CONNECTING"
    BY <1>0, <1>3 DEF socksv5_block, Resolution
  <2> QED BY <1>3, <2>1 DEF socksv5_block, BlockNoAddress, BlockInProgress, BlockSuccess,
                            BlockFailed, socksv5_close, Directions
<1>4. CASE handshake_read \/ auth_read
  <2>1. CASE pc' = "socksv5_write"
    BY <1>4, <2>1 DEF handshake_read, auth_read, Hangup, Return, Crash, Directions
  <2>2. CASE Return
    BY <1>4, <2>2 DEF Return, Directions, handshake_read, auth_read
  <2>3. CASE Hangup(1) \/ Crash("aborted")
    BY <2>3 DEF Hangup, socksv5_close, Crash, Directions
  <2> QED BY <1>4, <2>1, <2>2, <2>3 DEF handshake_read, auth_read
<1>5. CASE connection_req_read
  <2>1. st = "CONN_REQ"
    BY <1>0, <1>5 DEF connection_req_read, Control
  <2> QED BY <1>5, <2>1 DEF connection_req_read, RequestUnsupported, RequestAddress,
                            RequestDomain, RequestError, socksv5_close, Directions
<1>6. CASE handle_write_connecting
  <2>1. st = "CONNECTING" /\ out = << >>
    BY <1>0, <1>6 DEF handle_write_connecting, Control, Negotiation
  <2>2. CASE Connected
    <3>1. out' # << >>
      <4>1. PICK m : out' = WithReply(m)
        BY <2>2 DEF Connected
      <4>2. out' = <<m>>
        BY <2>1, <4>1, EmptyTakesReply
      <4> QED BY <4>2
    <3>2. orecv = << >> /\ s2o = << >>
      BY <2>1 DEF BeforeRelay
    <3> QED BY <1>6, <2>2, <3>1, <3>2 DEF handle_write_connecting, Connected, Directions
  <2> QED BY <1>6, <2>1, <2>2 DEF handle_write_connecting, RetryInProgress, RetryNoSocket,
                                  RetryFailed, Directions
<1>7. CASE (copy_read \/ copy_write_handler) /\ oh = "copy" /\ CopyWrite
  <2>1. st = "COPY" /\ oh = "copy" /\ in # << >> /\ out = << >> /\ ci # "WRITE"
    BY <1>0, <1>7 DEF copy_read, copy_write_handler, Control, Directions
  <2>2. CASE CopySome
    <3> DEFINE n == Accepted(in, s2o)
    <3>1. n \in Nat /\ 0 < n /\ n <= Len(in) /\ in \in Seq(Message) /\ Len(in) \in Nat
      BY <1>0, <2>2, SendType, LenProperties DEF CopySome, TypeOK
    <3>2. /\ in' = Drop(in, n) /\ oi' = InterestAfterCopy(n)
          /\ ci' = IF Room(in) = 0 THEN "READ" ELSE ci
          /\ pc' = "select" /\ UNCHANGED <<st, oh, out>>
      BY <2>2 DEF CopySome
    <3>3. /\ oi' \in {"READ", "WRITE"}
          /\ oi' = "READ" <=> in' = << >>
      <4>1. CASE n = Len(in)
        BY <3>1, <3>2, <4>1, DropEmpty DEF InterestAfterCopy
      <4>2. CASE n < Len(in)
        <5>1. Drop(in, n) # << >> /\ n # Len(in)
          BY <3>1, <4>2, DropEmpty
        <5> QED BY <3>2, <5>1 DEF InterestAfterCopy
      <4> QED BY <3>1, <4>1, <4>2
    <3> HIDE DEF n
    <3>4. ci' # "WRITE" /\ ci' # "NOOP"
      BY <2>1, <3>2 DEF Directions
    <3> QED BY <2>1, <3>2, <3>3, <3>4 DEF Directions
  <2>3. CASE CopyAgain
    BY <2>1, <2>3 DEF CopyAgain, Directions
  <2>4. CASE CopyError \/ CopySigpipe
    BY <2>4 DEF CopyError, CopySigpipe, socksv5_close, Crash, Directions
  <2> QED BY <1>7, <2>2, <2>3, <2>4 DEF CopyWrite
<1>8. CASE copy_read /\ CopyNoOrigin
  BY <1>8 DEF CopyNoOrigin, Hangup, socksv5_close, Directions
<1>9. CASE copy_read_handler
  <2>1. st = "COPY" /\ in = << >> /\ pc = "select" /\ oi = "READ"
    BY <1>0, <1>9 DEF copy_read_handler, Control, Directions
  <2>2. CASE OriginFull
    <3>1. out # << >>
      BY <2>2, FullNotEmpty DEF OriginFull
    <3> QED BY <1>9, <2>1, <2>2, <3>1 DEF copy_read_handler, OriginFull, Directions
  <2>3. CASE OriginData
    <3>1. out' # << >>
      BY <1>0, <2>3, RecvType DEF OriginData, TypeOK
    <3> QED BY <1>9, <2>1, <2>3, <3>1 DEF copy_read_handler, OriginData, Directions
  <2>4. CASE OriginEof
    BY <2>1, <2>4 DEF OriginEof, Directions
  <2>5. CASE OriginError
    BY <2>5 DEF OriginError, Hangup, socksv5_close, Directions
  <2> QED BY <1>9, <2>2, <2>3, <2>4, <2>5 DEF copy_read_handler
<1>10. CASE connecting_on_block_ready
  BY <1>10 DEF connecting_on_block_ready, Return, Crash, Directions
<1>11. CASE selector_select_EBADF \/ resolve_host_name
  BY <1>11 DEF selector_select_EBADF, resolve_host_name, Crash, Directions
<1>12. CASE Client
  <2>1. UNCHANGED <<server, orecv, s2o>>
    BY <1>12 DEF Client, ClientHello, ClientAuth, ClientRequest, ClientGarbage, ClientData,
                 ClientRecv, ClientSeesClose, ClientClose
  <2> QED BY <2>1 DEF Directions
<1>13. CASE ConnectEnds \/ OriginSend \/ OriginClose
  <2>1. UNCHANGED <<server, orecv, s2o>>
    BY <1>13 DEF ConnectEnds, OriginSend, OriginClose
  <2> QED BY <2>1 DEF Directions
<1>14. CASE OriginRecv
  BY <1>14 DEF OriginRecv, Directions
<1>15. CASE UNCHANGED vars
  BY <1>15 DEF vars, Directions
<1> QED BY <1>1, <1>2, <1>3, <1>4, <1>5, <1>6, <1>7, <1>8, <1>9, <1>10, <1>11, <1>12, <1>13,
           <1>14, <1>15 DEF Next, MainThread, Origin, copy_read, copy_write_handler

(* Every step preserves Answer: the log is written once, with the reply. *)
LEMMA AnswerStep ==
  ASSUME IndInv, Ending, BeforeRelay, Answer, [Next]_vars
  PROVE  Answer'
<1> USE DEF thread, sel, bufs, negot, conn, metrics, cl, og, peers, wire, server,
            Idle, Running, Goto, Call, Ends
<1>0. TypeOK /\ Control /\ Resolution /\ Negotiation
  BY DEF IndInv
<1>1. CASE socksv5_read
  <2>1. ci = "READ" /\ st # "CONNECTING"
    BY <1>0, <1>1 DEF socksv5_read, Control
  <2>2. CASE ReadFull \/ ReadClosed
    BY <2>1, <2>2 DEF ReadFull, ReadClosed, Hangup, socksv5_close, Answer, HasConnected
  <2>3. CASE ReadData
    <3>1. /\ st' = st \/ (st = "NONE" /\ st' = "HANDSHAKE")
          /\ UNCHANGED <<ci, log, osock>>
      BY <2>3 DEF ReadData, FirstState
    <3> QED BY <2>1, <3>1 DEF Answer, HasConnected
  <2> QED BY <1>1, <2>2, <2>3 DEF socksv5_read
<1>2. CASE socksv5_write
  <2>1. ci = "WRITE"
    BY <1>0, <1>2 DEF socksv5_write, Control
  <2>2. CASE WriteSome
    <3> DEFINE n == Accepted(out, s2c)
    <3>1. /\ WriteLastReply(n) \/ WriteReply(n) \/ WriteRelayed(n)
          /\ log' = log
      BY <2>2 DEF WriteSome
    <3>2. CASE WriteReply(n)
      <4>1. n = Len(out)
        BY <1>0, <2>1, <3>2, ReplySent DEF WriteReply, has_write_handler, Negotiation, TypeOK
      <4>2. ci' = "READ" /\ osock' = osock /\ st' = on_write_ready /\ has_write_handler /\ ~err
        BY <1>0, <3>2, <4>1, SMT DEF WriteReply, InterestAfterWrite, TypeOK
      <4>3. CASE st \in {"HANDSHAKE", "AUTH"}
        <5>1. st' \in {"AUTH", "CONN_REQ"}
          BY <4>2, <4>3 DEF on_write_ready
        <5> QED BY <3>1, <4>2, <4>3, <5>1 DEF Answer
      <4>4. CASE st = "CONNECTING"
        <5>1. st' = "COPY" /\ HasConnected'
          BY <2>1, <4>2, <4>4 DEF on_write_ready, Answer, HasConnected
        <5> QED BY <2>1, <3>1, <4>2, <4>4, <5>1 DEF Answer
      <4>5. CASE st = "CONN_REQ"
        BY <2>1, <4>2, <4>5 DEF Ending
      <4> QED BY <4>2, <4>3, <4>4, <4>5 DEF has_write_handler
    <3>3. CASE WriteLastReply(n)
      BY <3>3 DEF WriteLastReply, socksv5_close, Answer
    <3>4. CASE WriteRelayed(n)
      <4>1. st = "COPY" /\ st' = st /\ osock' = osock
        BY <3>4, Zenon DEF WriteRelayed
      <4> QED BY <3>1, <4>1 DEF Answer, HasConnected
    <3> QED BY <3>1, <3>2, <3>3, <3>4
  <2>3. CASE WriteAgain \/ WriteError \/ WriteSigpipe
    BY <2>3 DEF WriteAgain, WriteError, WriteSigpipe, socksv5_close, Crash, Answer, HasConnected
  <2> QED BY <1>2, <2>2, <2>3 DEF socksv5_write
<1>3. CASE socksv5_block
  <2>1. st = "CONNECTING" /\ ci = "NOOP" /\ pc = "select" /\ log = << >> /\ out = << >> /\ ~err
    BY <1>0, <1>3 DEF socksv5_block, Resolution, Negotiation, Answer, Ending
  <2>2. \A c : Append(log, c) = <<c>>
    BY <2>1
  <2>3. CASE BlockNoAddress
    <3>1. /\ st' = "CONN_REQ" /\ ci' = "WRITE" /\ err' = TRUE
          /\ log' = Append(log, REP_HOST_UNREACHABLE)
      BY <2>3 DEF BlockNoAddress
    <3>2. log' = <<4>> /\ <<4>> # <<0>>
      BY <2>2, <3>1 DEF REP_HOST_UNREACHABLE
    <3> QED BY <3>1, <3>2 DEF Answer, REP_SUCCEEDED
  <2>4. CASE BlockInProgress
    BY <2>1, <2>4 DEF BlockInProgress, Answer
  <2>5. CASE BlockSuccess
    <3>1. out' = WithReply(Msg("rep", REP_SUCCEEDED)) /\ log' = Append(log, REP_SUCCEEDED)
      BY <2>5 DEF BlockSuccess
    <3>2. out' = <<Msg("rep", REP_SUCCEEDED)>> /\ log' = <<REP_SUCCEEDED>>
      BY <2>1, <2>2, <3>1, EmptyTakesReply
    <3>3. st' = "CONNECTING" /\ ci' = "WRITE" /\ ~err' /\ in' = << >> /\ HasConnected'
      BY <2>1, <2>5 DEF BlockSuccess, ConnectSuccess, HasConnected
    <3> QED BY <3>2, <3>3 DEF Answer
  <2>6. CASE BlockFailed
    BY <2>6 DEF BlockFailed, socksv5_close, Answer
  <2> QED BY <1>3, <2>3, <2>4, <2>5, <2>6 DEF socksv5_block
<1>4. CASE handshake_read \/ auth_read
  <2>1. CASE pc' = "socksv5_write"
    BY <1>4, <2>1 DEF handshake_read, auth_read, Hangup, Return, Crash, Answer
  <2>2. CASE Hangup(1) \/ Return \/ Crash("aborted")
    BY <2>2 DEF Hangup, socksv5_close, Return, Crash, Answer, HasConnected
  <2> QED BY <1>4, <2>1, <2>2 DEF handshake_read, auth_read
<1>5. CASE connection_req_read
  <2>1. st = "CONN_REQ" /\ log = << >> /\ log' = log /\ log' # <<REP_SUCCEEDED>>
    BY <1>0, <1>5 DEF connection_req_read, Control, Negotiation, Answer
  <2>2. \/ st' = "CONN_REQ" /\ ci' = "WRITE" /\ err' = TRUE
        \/ st' = "CONNECTING" /\ ci' = "NOOP"
        \/ st' = "FREED"
    BY <1>5, <2>1 DEF connection_req_read, RequestUnsupported, RequestAddress,
                      RequestDomain, RequestError, socksv5_close
  <2> QED BY <2>1, <2>2 DEF Answer
<1>6. CASE handle_write_connecting
  <2>1. st = "CONNECTING" /\ ci = "NOOP" /\ log = << >>
    BY <1>0, <1>6 DEF handle_write_connecting, Control, Answer
  <2>2. CASE RetryInProgress \/ RetryNoSocket
    BY <2>1, <2>2 DEF RetryInProgress, RetryNoSocket, Answer
  <2>3. CASE RetryFailed
    <3>1. PICK c \in GetCodes : log' = Append(log, c)
      BY <2>3, InputsAssumption DEF RetryFailed, GetCodes
    <3>2. log' = <<c>> /\ c # 0 /\ <<c>> # <<0>>
      BY <2>1, <3>1 DEF GetCodes, REP_NETWORK_UNREACHABLE, REP_HOST_UNREACHABLE,
                        REP_CONNECTION_REFUSED, REP_TTL_EXPIRED
    <3> QED BY <2>1, <2>3, <3>2 DEF RetryFailed, Answer, REP_SUCCEEDED
  <2>4. CASE Connected
    <3>1. log' = <<REP_SUCCEEDED>>
      BY <2>1, <2>4 DEF Connected
    <3>2. HasConnected'
      BY <1>6, <2>4 DEF handle_write_connecting, Connected, HasConnected,
                        RetryInProgress, RetryNoSocket, RetryFailed, ConnectInProgress
    <3> QED BY <2>4, <3>1, <3>2 DEF Connected, Answer
  <2> QED BY <1>6, <2>2, <2>3, <2>4 DEF handle_write_connecting
<1>7. CASE copy_read \/ copy_write_handler \/ copy_read_handler
  <2>1. st = "COPY" /\ log = <<REP_SUCCEEDED>> /\ HasConnected
    BY <1>0, <1>7 DEF copy_read, copy_write_handler, copy_read_handler, Control, Answer
  <2>2. \/ st' = "FREED"
        \/ st' = "COPY" /\ log' = log /\ osock' \in {osock, "broken"}
    BY <1>7, <2>1 DEF copy_read, copy_write_handler, copy_read_handler, CopyNoOrigin,
                      CopyWrite, CopySome, CopyAgain, CopyError, CopySigpipe, OriginFull,
                      OriginData, OriginEof, OriginError, Hangup, socksv5_close, Crash
  <2> QED BY <2>1, <2>2 DEF Answer, HasConnected
<1>8. CASE connecting_on_block_ready \/ selector_select_EBADF \/ resolve_host_name
  BY <1>8 DEF connecting_on_block_ready, selector_select_EBADF, resolve_host_name, Return, Crash,
              Answer, HasConnected
<1>9. CASE Client
  BY <1>9 DEF Client, ClientHello, ClientAuth, ClientRequest, ClientGarbage, ClientData,
              ClientRecv, ClientSeesClose, ClientClose, Answer, HasConnected
<1>10. CASE ConnectEnds \/ Origin
  BY <1>10 DEF ConnectEnds, Origin, OriginRecv, OriginSend, OriginClose, Answer, HasConnected
<1>11. CASE UNCHANGED vars
  BY <1>11 DEF vars, Answer, HasConnected
<1> QED BY <1>1, <1>2, <1>3, <1>4, <1>5, <1>6, <1>7, <1>8, <1>9, <1>10, <1>11
        DEF Next, MainThread

(* The data that a peer sends is a sequence of messages, one for each piece. *)
LEMMA DataIs ==
  ASSUME NEW n \in Nat
  PROVE  /\ Data(n) \in Seq(Message) /\ Len(Data(n)) = n
         /\ \A i \in 1..n : Data(n)[i] = Msg("data", i)
         /\ Data(n + 1) = Append(Data(n), Msg("data", n + 1))
<1>1. \A m \in Nat : /\ Data(m) \in Seq(Message) /\ Len(Data(m)) = m
                     /\ \A i \in 1..m : Data(m)[i] = Msg("data", i)
  <2> SUFFICES ASSUME NEW m \in Nat
               PROVE  /\ Data(m) \in Seq(Message) /\ Len(Data(m)) = m
                      /\ \A i \in 1..m : Data(m)[i] = Msg("data", i)
    OBVIOUS
  <2>1. \A i \in 1..m : Msg("data", i) \in Message
    BY MessageType
  <2>2. Data(m) \in [1..m -> Message]
    BY <2>1 DEF Data
  <2>3. Data(m) \in Seq(Message)
    BY <2>2, SeqDef
  <2> QED BY <2>2, <2>3, LenProperties DEF Data
<1>2. Data(n + 1) = Append(Data(n), Msg("data", n + 1))
  <2> DEFINE d == Msg("data", n + 1)
  <2> DEFINE s == Append(Data(n), d)
  <2>1. d \in Message /\ Data(n) \in Seq(Message) /\ Len(Data(n)) = n
    BY <1>1, MessageType
  <2>2. /\ s \in Seq(Message) /\ Len(s) = n + 1
        /\ \A i \in 1..n : s[i] = Data(n)[i]
        /\ s[n + 1] = d
    BY <2>1, AppendProperties
  <2>3. /\ Data(n + 1) \in Seq(Message) /\ Len(Data(n + 1)) = n + 1
        /\ \A i \in 1..(n + 1) : Data(n + 1)[i] = Msg("data", i)
    BY <1>1
  <2>4. \A i \in 1..n : Data(n)[i] = Msg("data", i)
    BY <1>1
  <2> HIDE DEF s
  <2>5. \A i \in 1..(n + 1) : Data(n + 1)[i] = s[i]
    BY <2>2, <2>3, <2>4
  <2>6. Data(n + 1) = s
    BY <2>2, <2>3, <2>5, SeqEqual
  <2> QED BY <2>6 DEF s
<1> QED BY <1>1, <1>2

(* What send() and recv() take and what they leave is the whole queue. *)
LEMMA TakeThenDrop ==
  ASSUME NEW S, NEW q \in Seq(S), NEW n \in Nat, n <= Len(q)
  PROVE  Take(q, n) \o Drop(q, n) = q
<1>1. Len(q) \in Nat
  BY LenProperties
<1>2. 1 \in 1..(Len(q) + 1) /\ n \in (1 - 1)..Len(q) /\ Len(q) \in n..Len(q)
  BY <1>1
<1>3. SubSeq(q, 1, n) \o SubSeq(q, n + 1, Len(q)) = SubSeq(q, 1, Len(q))
  BY <1>2, ConcatAdjacentSubSeq, ZenonT(30)
<1> QED BY <1>3, SubSeqFull DEF Take, Drop

(* What is added at the end of a queue does not change what is dropped from  *)
(* its beginning.                                                            *)
LEMMA DropOfConcat ==
  ASSUME NEW S, NEW q \in Seq(S), NEW r \in Seq(S), NEW k \in Nat, k <= Len(q)
  PROVE  Drop(q \o r, k) = Drop(q, k) \o r
<1>1. Len(q) \in Nat /\ Len(r) \in Nat
  BY LenProperties
<1> DEFINE s == q \o r
<1>2. /\ s \in Seq(S) /\ Len(s) = Len(q) + Len(r)
      /\ \A i \in 1..Len(q) + Len(r) : s[i] = IF i <= Len(q) THEN q[i] ELSE r[i - Len(q)]
  BY ConcatProperties
<1> HIDE DEF s
<1>3. k \in Int /\ 0 <= k /\ k <= Len(s)
  BY <1>1, <1>2
<1> DEFINE d == Drop(s, k)
<1>4. /\ d \in Seq(S) /\ Len(d) = Len(s) - k
      /\ \A i \in 1..(Len(s) - k) : d[i] = s[k + i]
  BY <1>2, <1>3, TakeDropType, ZenonT(60)
<1> DEFINE e == Drop(q, k)
<1>5. /\ e \in Seq(S) /\ Len(e) = Len(q) - k
      /\ \A i \in 1..(Len(q) - k) : e[i] = q[k + i]
  BY <1>3, TakeDropType
<1> HIDE DEF d, e
<1> DEFINE f == e \o r
<1>6. /\ f \in Seq(S) /\ Len(f) = Len(e) + Len(r)
      /\ \A i \in 1..Len(e) + Len(r) : f[i] = IF i <= Len(e) THEN e[i] ELSE r[i - Len(e)]
  BY <1>5, ConcatProperties
<1> HIDE DEF f
<1>7. Len(d) = Len(f)
  BY <1>1, <1>2, <1>4, <1>5, <1>6
<1>8. \A i \in 1..Len(d) : d[i] = f[i]
  <2> SUFFICES ASSUME NEW i \in 1..Len(d) PROVE d[i] = f[i]
    OBVIOUS
  <2>1. k + i \in 1..Len(q) + Len(r) /\ i \in 1..(Len(s) - k) /\ i \in 1..Len(e) + Len(r)
    BY <1>1, <1>2, <1>3, <1>4, <1>5
  <2>2. d[i] = IF k + i <= Len(q) THEN q[k + i] ELSE r[k + i - Len(q)]
    <3>1. d[i] = s[k + i]
      BY <1>4, <2>1
    <3>2. s[k + i] = IF k + i <= Len(q) THEN q[k + i] ELSE r[k + i - Len(q)]
      BY <1>2, <2>1
    <3> QED BY <3>1, <3>2
  <2>3. f[i] = IF i <= Len(e) THEN e[i] ELSE r[i - Len(e)]
    BY <1>6, <2>1
  <2>4. CASE k + i <= Len(q)
    <3>1. i \in 1..(Len(q) - k) /\ i <= Len(e)
      BY <1>1, <1>3, <1>4, <1>5, <2>1, <2>4
    <3> QED BY <1>5, <2>2, <2>3, <2>4, <3>1
  <2>5. CASE ~(k + i <= Len(q))
    <3>1. ~(i <= Len(e)) /\ k + i - Len(q) = i - Len(e)
      BY <1>1, <1>3, <1>4, <1>5, <2>1, <2>5
    <3> QED BY <2>2, <2>3, <2>5, <3>1
  <2> QED BY <2>4, <2>5
<1>9. d = f
  BY <1>4, <1>6, <1>7, <1>8, SeqEqual
<1> QED BY <1>9 DEF d, e, f, s

(* Dropping the head and then k - 1 elements drops k elements. *)
LEMMA DropOfTail ==
  ASSUME NEW S, NEW q \in Seq(S), q # << >>, NEW k \in Nat, 1 <= k, k <= Len(q)
  PROVE  Drop(Tail(q), k - 1) = Drop(q, k)
<1>1. Len(q) \in Nat
  BY LenProperties
<1> DEFINE u == Tail(q)
<1>2. u \in Seq(S) /\ Len(u) = Len(q) - 1 /\ \A i \in 1..Len(u) : u[i] = q[i + 1]
  BY HeadTailProperties
<1> HIDE DEF u
<1>3. k - 1 \in Int /\ 0 <= k - 1 /\ k - 1 <= Len(u) /\ k \in Int /\ 0 <= k
  BY <1>1, <1>2
<1> DEFINE d == Drop(u, k - 1)
<1>4. /\ d \in Seq(S) /\ Len(d) = Len(u) - (k - 1)
      /\ \A i \in 1..(Len(u) - (k - 1)) : d[i] = u[k - 1 + i]
  BY <1>2, <1>3, TakeDropType, ZenonT(60)
<1> DEFINE e == Drop(q, k)
<1>5. /\ e \in Seq(S) /\ Len(e) = Len(q) - k
      /\ \A i \in 1..(Len(q) - k) : e[i] = q[k + i]
  BY <1>3, TakeDropType
<1> HIDE DEF d, e
<1>6. Len(d) = Len(e)
  BY <1>1, <1>2, <1>4, <1>5
<1>7. \A i \in 1..Len(d) : d[i] = e[i]
  <2> SUFFICES ASSUME NEW i \in 1..Len(d) PROVE d[i] = e[i]
    OBVIOUS
  <2>1. /\ i \in 1..(Len(u) - (k - 1)) /\ i \in 1..(Len(q) - k)
        /\ k - 1 + i \in 1..Len(u) /\ k - 1 + i + 1 = k + i
    <3>1. i \in Nat /\ 1 <= i /\ Len(d) = Len(q) - k /\ Len(u) - (k - 1) = Len(q) - k
      BY <1>1, <1>2, <1>4
    <3>2. i <= Len(q) - k
      BY <3>1
    <3>3. k - 1 + i <= Len(q) - 1 /\ 1 <= k - 1 + i
      BY <1>1, <3>1, <3>2
    <3> QED BY <1>1, <1>2, <3>1, <3>2, <3>3
  <2>2. d[i] = u[k - 1 + i] /\ e[i] = q[k + i]
    BY <1>4, <1>5, <2>1
  <2>3. u[k - 1 + i] = q[k + i]
    BY <1>2, <2>1
  <2> QED BY <2>2, <2>3
<1>8. d = e
  BY <1>4, <1>5, <1>6, <1>7, SeqEqual
<1> QED BY <1>8 DEF d, e, u

(* Dropping all or nothing of a queue. *)
LEMMA DropEnds ==
  ASSUME NEW S, NEW q \in Seq(S)
  PROVE  Drop(q, 0) = q /\ Drop(q, Len(q)) = << >>
<1>1. Len(q) \in Nat
  BY LenProperties
<1>2. SubSeq(q, 1, Len(q)) = q
  BY SubSeqFull
<1>3. SubSeq(q, Len(q) + 1, Len(q)) = << >>
  BY <1>1, SubSeqEmpty
<1> QED BY <1>2, <1>3 DEF Drop

(* Queues are joined in any grouping. *)
LEMMA Regroup ==
  \A a, b, c \in Seq(Message) : (a \o b) \o c = a \o (b \o c)
BY ConcatAssociative

(* The stream to the client when the relay starts: the last reply is the one *)
(* to the request, and no data has been read from the origin.                *)
LEMMA StreamStarts ==
  ASSUME NEW r \in Seq(Message), \A i \in 1..Len(r) : r[i].t \in {"method", "status"},
         NEW sent \in Nat,
         NEW q, q = r \o <<Msg("rep", REP_SUCCEEDED)>>
  PROVE  \E k \in 0..Len(q) : ToClient(k, q, Data(sent), << >>, << >>, sent)
<1> DEFINE m == Msg("rep", REP_SUCCEEDED)
<1>1. m \in Message /\ m.t = "rep" /\ m.v = REP_SUCCEEDED
  <2>1. REP_SUCCEEDED \in Codes
    BY DEF Codes
  <2> QED BY <2>1, MessageType DEF Msg
<1> HIDE DEF m
<1>2. Len(r) \in Nat
  BY LenProperties
<1>3. q = Append(r, m)
  BY <1>1, AppendIsConcat DEF m
<1>4. /\ q \in Seq(Message) /\ Len(q) = Len(r) + 1
      /\ \A i \in 1..Len(r) : q[i] = r[i]
      /\ q[Len(r) + 1] = m
  BY <1>1, <1>3, AppendProperties
<1>5. Drop(q, Len(q)) = << >>
  BY <1>4, DropEnds
<1>6. \A i \in 1..Len(q) : IsReply(q[i]) /\ (q[i].t = "rep" <=> i = Len(q))
  <2> SUFFICES ASSUME NEW i \in 1..Len(q)
               PROVE  IsReply(q[i]) /\ (q[i].t = "rep" <=> i = Len(q))
    OBVIOUS
  <2>1. CASE i = Len(q)
    BY <1>1, <1>4, <2>1 DEF IsReply
  <2>2. CASE i # Len(q)
    <3>1. i \in 1..Len(r)
      BY <1>2, <1>4, <2>2
    <3>2. q[i].t \in {"method", "status"}
      BY <1>4, <3>1
    <3> QED BY <2>2, <3>2 DEF IsReply
  <2> QED BY <2>1, <2>2
<1>7. << >> \o Drop(q, Len(q)) \o Data(sent) = Data(sent)
  <2>1. << >> \o << >> = << >>
    OBVIOUS
  <2>2. << >> \o Data(sent) = Data(sent)
    BY DataIs, ConcatEmptySeq
  <2> QED BY <1>5, <2>1, <2>2
<1>8. Len(q) # 0 /\ Len(q) \in 0..Len(q)
  BY <1>2, <1>4
<1>9. ToClient(Len(q), q, Data(sent), << >>, << >>, sent)
  BY <1>1, <1>4, <1>6, <1>7, <1>8 DEF ToClient
<1> QED BY <1>8, <1>9

(* The server moves data from the origin's queue to the end of the stream.   *)
LEMMA StreamGrows ==
  ASSUME NEW q \in Seq(Message), NEW rest \in Seq(Message), NEW data \in Seq(Message),
         NEW reps, NEW sent \in Nat, NEW n \in Nat, n <= Len(rest),
         NEW k \in 0..Len(q), ToClient(k, q, rest, data, reps, sent)
  PROVE  /\ k \in 0..Len(q \o Take(rest, n))
         /\ ToClient(k, q \o Take(rest, n), Drop(rest, n), data, reps, sent)
<1> DEFINE a == Take(rest, n)
<1> DEFINE b == Drop(rest, n)
<1>1. a \in Seq(Message) /\ b \in Seq(Message)
  <2>1. n \in Int /\ 0 <= n
    OBVIOUS
  <2> QED BY <2>1, TakeDropType
<1>2. a \o b = rest
  BY TakeThenDrop
<1> HIDE DEF a, b
<1>3. k \in Nat /\ k <= Len(q) /\ Len(q) \in Nat /\ Len(a) \in Nat
  BY <1>1, LenProperties
<1>4. /\ q \o a \in Seq(Message) /\ Len(q \o a) = Len(q) + Len(a)
      /\ \A i \in 1..Len(q) + Len(a) : (q \o a)[i] = IF i <= Len(q) THEN q[i] ELSE a[i - Len(q)]
  BY <1>1, ConcatProperties
<1>5. \A i \in 1..k : (q \o a)[i] = q[i]
  BY <1>3, <1>4
<1>6. Drop(q \o a, k) = Drop(q, k) \o a
  BY <1>1, <1>3, DropOfConcat
<1> DEFINE d == Drop(q, k)
<1>7. d \in Seq(Message)
  BY <1>3, TakeDropType
<1>8. data \o d \o rest = Data(sent)
  BY DEF ToClient
<1> HIDE DEF d
<1>9. data \o (d \o a) \o b = data \o d \o rest
  <2>1. data \o (d \o a) = (data \o d) \o a
    BY <1>1, <1>7, Regroup, ZenonT(60)
  <2>2. data \o d \in Seq(Message)
    BY <1>7, ConcatProperties
  <2>3. ((data \o d) \o a) \o b = (data \o d) \o (a \o b)
    BY <1>1, <2>2, Regroup
  <2> QED BY <1>2, <2>1, <2>3
<1>10. /\ \A i \in 1..k : IsReply(q[i]) /\ (q[i].t = "rep" <=> i = k)
       /\ reps = IF k = 0 THEN <<REP_SUCCEEDED>> ELSE << >>
       /\ k # 0 => data = << >> /\ q[k].v = REP_SUCCEEDED
  BY DEF ToClient
<1>11. k # 0 => k \in 1..k
  BY <1>3
<1>12. /\ \A i \in 1..k : IsReply((q \o a)[i]) /\ ((q \o a)[i].t = "rep" <=> i = k)
       /\ k # 0 => (q \o a)[k].v = REP_SUCCEEDED
  BY <1>5, <1>10, <1>11
<1>13. data \o Drop(q \o a, k) \o b = Data(sent)
  BY <1>6, <1>8, <1>9 DEF d
<1>14. k \in 0..Len(q \o a)
  BY <1>3, <1>4
<1>15. ToClient(k, q \o a, b, data, reps, sent)
  BY <1>10, <1>12, <1>13 DEF ToClient
<1> QED BY <1>14, <1>15 DEF a, b

(* The origin sends a piece more. *)
LEMMA StreamFed ==
  ASSUME NEW q \in Seq(Message), NEW rest \in Seq(Message), NEW data \in Seq(Message),
         NEW reps, NEW sent \in Nat, NEW k \in 0..Len(q),
         ToClient(k, q, rest, data, reps, sent)
  PROVE  ToClient(k, q, Append(rest, Msg("data", sent + 1)), data, reps, sent + 1)
<1> DEFINE d == Drop(q, k)
<1> DEFINE m == Msg("data", sent + 1)
<1>1. d \in Seq(Message) /\ m \in Message
  <2>1. k \in Int /\ 0 <= k /\ k <= Len(q)
    BY LenProperties
  <2>2. sent + 1 \in Nat
    OBVIOUS
  <2> QED BY <2>1, <2>2, TakeDropType, MessageType
<1>2. data \o d \o rest = Data(sent) /\ Data(sent + 1) = Append(Data(sent), m)
  BY DataIs DEF ToClient
<1> HIDE DEF d, m
<1> DEFINE s == data \o d
<1>3. s \in Seq(Message)
  BY <1>1, ConcatProperties
<1> HIDE DEF s
<1>4. s \o Append(rest, m) = Append(s \o rest, m)
  <2>1. Append(rest, m) = rest \o <<m>> /\ <<m>> \in Seq(Message)
    BY <1>1, AppendIsConcat
  <2>2. s \o rest \in Seq(Message)
    BY <1>3, ConcatProperties
  <2>3. Append(s \o rest, m) = (s \o rest) \o <<m>>
    BY <1>1, <2>2, AppendIsConcat
  <2>4. (s \o rest) \o <<m>> = s \o (rest \o <<m>>)
    BY <1>3, <2>1, Regroup
  <2> QED BY <2>1, <2>3, <2>4
<1>5. data \o d \o Append(rest, m) = Data(sent + 1)
  BY <1>2, <1>4 DEF s
<1> QED BY <1>5 DEF ToClient, d, m

(* The client reads the head of the stream: a reply or a piece of data. *)
LEMMA StreamRead ==
  ASSUME NEW q \in Seq(Message), q # << >>, NEW rest \in Seq(Message),
         NEW data \in Seq(Message), NEW reps, NEW sent \in Nat,
         NEW k \in 0..Len(q), ToClient(k, q, rest, data, reps, sent)
  PROVE  LET m == Head(q) IN
         \E j \in 0..Len(Tail(q)) :
           ToClient(j, Tail(q), rest, IF m.t = "data" THEN Append(data, m) ELSE data,
                    IF m.t = "rep" THEN Append(reps, m.v) ELSE reps, sent)
<1> DEFINE u == Tail(q)
<1> DEFINE m == q[1]
<1>1. Len(q) \in Nat /\ Len(q) # 0 /\ Head(q) = m
  BY LenProperties, EmptySeq
<1>2. /\ m \in Message /\ u \in Seq(Message) /\ Len(u) = Len(q) - 1
      /\ \A i \in 1..Len(u) : u[i] = q[i + 1]
  BY <1>1, HeadTailProperties
<1>3. k \in Nat /\ k <= Len(q)
  BY <1>1
<1>4. /\ \A i \in 1..k : IsReply(q[i]) /\ (q[i].t = "rep" <=> i = k)
      /\ reps = IF k = 0 THEN <<REP_SUCCEEDED>> ELSE << >>
      /\ k # 0 => data = << >> /\ q[k].v = REP_SUCCEEDED
      /\ data \o Drop(q, k) \o rest = Data(sent)
  BY DEF ToClient
<1>5. k # 0 => Drop(u, k - 1) = Drop(q, k)
  BY <1>1, <1>3, DropOfTail
<1>6. CASE k = 0
  <2>1. Drop(q, 0) = q /\ Drop(u, 0) = u
    BY <1>2, DropEnds
  <2>2. (data \o q) \o rest = Data(sent)
    BY <1>4, <1>6, <2>1
  <2>3. m.t = "data"
    <3>1. Len(data) \in Nat /\ Len(rest) \in Nat
      BY LenProperties
    <3>2. /\ data \o q \in Seq(Message) /\ Len(data \o q) = Len(data) + Len(q)
          /\ \A i \in 1..Len(data) + Len(q) :
               (data \o q)[i] = IF i <= Len(data) THEN data[i] ELSE q[i - Len(data)]
      BY ConcatProperties
    <3> DEFINE s == data \o q
    <3> HIDE DEF s
    <3>3. /\ Len(s \o rest) = Len(s) + Len(rest)
          /\ \A i \in 1..Len(s) + Len(rest) :
               (s \o rest)[i] = IF i <= Len(s) THEN s[i] ELSE rest[i - Len(s)]
      BY <3>2, ConcatProperties DEF s
    <3>4. s \o rest = Data(sent)
      BY <2>2 DEF s
    <3>5. Len(Data(sent)) = sent /\ \A i \in 1..sent : Data(sent)[i] = Msg("data", i)
      BY DataIs
    <3> DEFINE i == Len(data) + 1
    <3>6. /\ i \in 1..Len(data) + Len(q) /\ i \in 1..Len(s) + Len(rest) /\ i \in 1..sent
          /\ i <= Len(s) /\ ~(i <= Len(data)) /\ i - Len(data) = 1
      BY <1>1, <3>1, <3>2, <3>3, <3>4, <3>5 DEF s
    <3> HIDE DEF i
    <3>7. s[i] = m
      BY <3>2, <3>6 DEF s
    <3>8. Data(sent)[i] = m
      BY <3>3, <3>4, <3>6, <3>7
    <3>9. m = Msg("data", i)
      BY <3>5, <3>6, <3>8
    <3> QED BY <3>9 DEF Msg
  <2>4. Append(data, m) \o u = data \o q
    <3>1. Append(data, m) = data \o <<m>> /\ <<m>> \in Seq(Message)
      BY <1>2, AppendIsConcat
    <3>2. q = <<m>> \o u
      <4>1. 1 \in 1..Len(q) /\ Len(q) \in 1..Len(q)
        BY <1>1
      <4>2. SubSeq(q, 1, Len(q)) = <<q[1]>> \o SubSeq(q, 2, Len(q))
        BY <4>1, SubSeqRecursiveFirst
      <4>3. u = SubSeq(q, 2, Len(q))
        BY TailIsSubSeq
      <4> QED BY <4>2, <4>3, SubSeqFull
    <3>3. (data \o <<m>>) \o u = data \o (<<m>> \o u)
      <4>1. u \in Seq(Message)
        BY <1>2
      <4> QED BY <3>1, <4>1, Regroup
    <3> QED BY <3>1, <3>2, <3>3
  <2>5. Append(data, m) \o Drop(u, 0) \o rest = Data(sent)
    BY <2>1, <2>2, <2>4
  <2>6. ToClient(0, u, rest, Append(data, m), reps, sent)
    <3>1. (\A i \in 1..0 : IsReply(u[i]) /\ (u[i].t = "rep" <=> i = 0)) /\ 0 = 0
      OBVIOUS
    <3>2. reps = IF 0 = 0 THEN <<REP_SUCCEEDED>> ELSE << >>
      BY <1>4, <1>6
    <3> QED BY <2>5, <3>1, <3>2, Zenon DEF ToClient
  <2>7. 0 \in 0..Len(u)
    BY <1>1, <1>2
  <2>8. m.t # "rep"
    BY <2>3
  <2> QED BY <1>1, <2>3, <2>6, <2>7, <2>8
<1>7. CASE k # 0
  <2>1. 1 \in 1..k /\ k - 1 \in 0..Len(u)
    BY <1>1, <1>2, <1>3, <1>7
  <2>2. IsReply(m) /\ (m.t = "rep" <=> 1 = k) /\ data = << >>
    BY <1>4, <1>7, <2>1
  <2>3. m.t # "data"
    BY <2>2 DEF IsReply
  <2>4. data \o Drop(u, k - 1) \o rest = Data(sent)
    BY <1>4, <1>5, <1>7
  <2>5. CASE k = 1
    <3>1. m.t = "rep" /\ m.v = REP_SUCCEEDED
      BY <1>4, <2>2, <2>5
    <3>2. Append(reps, m.v) = <<REP_SUCCEEDED>>
      BY <1>4, <1>7, <3>1
    <3>3. ToClient(0, u, rest, data, Append(reps, m.v), sent)
      BY <2>4, <2>5, <3>2 DEF ToClient
    <3>4. 0 \in 0..Len(u)
      BY <2>1, <2>5
    <3> QED BY <1>1, <2>3, <3>1, <3>3, <3>4
  <2>6. CASE k # 1
    <3>1. m.t # "rep"
      BY <2>2, <2>6
    <3>2. \A i \in 1..(k - 1) : IsReply(u[i]) /\ (u[i].t = "rep" <=> i = k - 1)
      <4> SUFFICES ASSUME NEW i \in 1..(k - 1)
                   PROVE  IsReply(u[i]) /\ (u[i].t = "rep" <=> i = k - 1)
        OBVIOUS
      <4>1. i + 1 \in 1..k /\ i \in 1..Len(u) /\ (i + 1 = k <=> i = k - 1)
        BY <1>1, <1>2, <1>3
      <4>2. u[i] = q[i + 1]
        BY <1>2, <4>1
      <4>3. IsReply(q[i + 1]) /\ (q[i + 1].t = "rep" <=> i + 1 = k)
        BY <1>4, <4>1
      <4> QED BY <4>1, <4>2, <4>3
    <3>3. u[k - 1] = q[k] /\ k - 1 # 0
      <4>1. k - 1 \in 1..Len(u) /\ k - 1 + 1 = k
        BY <1>1, <1>2, <1>3, <1>7, <2>6
      <4> QED BY <1>2, <2>6, <4>1
    <3>4. ToClient(k - 1, u, rest, data, reps, sent)
      BY <1>4, <1>7, <2>4, <3>2, <3>3 DEF ToClient
    <3> QED BY <1>1, <2>1, <2>3, <3>1, <3>4
  <2> QED BY <2>5, <2>6
<1> QED BY <1>6, <1>7

(* The head and the tail of two queues that are joined. *)
LEMMA HeadTailOfConcat ==
  ASSUME NEW s \in Seq(Message), s # << >>, NEW t \in Seq(Message)
  PROVE  Head(s \o t) = Head(s) /\ Tail(s \o t) = Tail(s) \o t
<1>1. /\ Head(s) \in Message /\ Tail(s) \in Seq(Message)
      /\ s \o t \in Seq(Message) /\ s \o t # << >>
  BY HeadTailProperties, ConcatProperties, ConcatEqualIffEmpty
<1>2. Len(s) \in Nat /\ Len(s) # 0 /\ Len(t) \in Nat
  BY LenProperties, EmptySeq
<1>3. (s \o t)[1] = s[1]
  <2>1. 1 \in 1..Len(s) + Len(t) /\ 1 <= Len(s)
    BY <1>2
  <2> QED BY <2>1, ConcatProperties
<1>4. Tail(s \o t) = Drop(s \o t, 1) /\ Tail(s) = Drop(s, 1)
  BY <1>1, TailIsSubSeq DEF Drop
<1>5. Drop(s \o t, 1) = Drop(s, 1) \o t
  <2>1. 1 \in Nat /\ 1 <= Len(s)
    BY <1>2
  <2> QED BY <2>1, DropOfConcat
<1> QED BY <1>3, <1>4, <1>5

(* Every step preserves Downstream. *)
LEMMA DownstreamStep ==
  ASSUME IndInv, Ending, BeforeRelay, Answer, Downstream, [Next]_vars
  PROVE  Downstream'
<1> USE DEF thread, sel, bufs, negot, conn, metrics, cl, og, peers, wire, server,
            Idle, Running, Goto, Call, Ends
<1> DEFINE Same == UNCHANGED <<o2s, crecv, creps, osent>>
<1>0. TypeOK /\ Control /\ Resolution /\ Negotiation
  BY DEF IndInv
<1>a. /\ s2c \in Seq(Message) /\ out \in Seq(Message) /\ o2s \in Seq(Message)
      /\ crecv \in Seq(Message) /\ s2c \o out \in Seq(Message) /\ osent \in Nat
  BY <1>0, ConcatProperties DEF TypeOK
<1>b. ASSUME Same, UNCHANGED <<s2c, out>>, csock' = "open" => csock = "open", st' = st
      PROVE  Downstream'
  BY <1>b DEF Downstream
<1>c. ASSUME Same, st' = "FREED" \/ (st' \notin {"COPY", "FREED"} /\ st \notin {"COPY", "FREED"})
      PROVE  Downstream'
  BY <1>c DEF Downstream
<1>1. CASE socksv5_read
  <2>1. CASE ReadFull
    BY <1>b, <2>1 DEF ReadFull
  <2>2. CASE ReadData
    BY <1>b, <1>c, <2>2 DEF ReadData, FirstState
  <2>3. CASE ReadClosed
    BY <1>c, <2>3 DEF ReadClosed, Hangup, socksv5_close
  <2> QED BY <1>1, <2>1, <2>2, <2>3 DEF socksv5_read
<1>2. CASE socksv5_write
  <2>1. ci = "WRITE"
    BY <1>0, <1>2 DEF socksv5_write, Control
  <2>2. CASE WriteSome
    <3> DEFINE n == Accepted(out, s2c)
    <3>1. /\ WriteLastReply(n) \/ WriteReply(n) \/ WriteRelayed(n)
          /\ SendToClient(n) /\ o2s' = o2s /\ UNCHANGED <<crecv, creps>> /\ n > 0
      BY <2>2 DEF WriteSome, SendToClient
    <3>2. CASE WriteReply(n)
      <4>1. n = Len(out) /\ Drop(out, n) = << >>
        BY <1>0, <2>1, <3>2, ReplySent DEF WriteReply, has_write_handler, Negotiation, TypeOK
      <4>2. out' = << >> /\ osent' = osent /\ ~err /\ has_write_handler /\ st' = on_write_ready
        BY <3>2, <4>1, Zenon DEF WriteReply, buffer_read_adv
      <4>3. CASE st \in {"HANDSHAKE", "AUTH"}
        BY <1>c, <3>1, <4>2, <4>3 DEF on_write_ready
      <4>4. CASE st = "CONNECTING"
        <5>1. st' = "COPY"
          BY <4>2, <4>4 DEF on_write_ready
        <5>2. /\ out = <<Msg("rep", REP_SUCCEEDED)>> /\ crecv = << >> /\ creps = << >>
              /\ \A i \in 1..Len(s2c) : s2c[i].t \in {"method", "status"}
              /\ o2s = Data(osent)
          BY <2>1, <4>2, <4>4 DEF Answer, BeforeRelay, Downstream
        <5>3. ASSUME csock' = "open" PROVE s2c' \o out' = s2c \o out
          <6>1. Take(out, n) = out
            BY <1>a, <4>1, SubSeqFull DEF Take
          <6>2. csock = "open"
            BY <3>1, <5>3 DEF SendToClient
          <6>3. s2c' = s2c \o out
            BY <3>1, <6>1, <6>2 DEF SendToClient
          <6> QED BY <1>a, <4>2, <6>3, ConcatEmptySeq
        <5>4. \E k \in 0..Len(s2c \o out) : ToClient(k, s2c \o out, o2s, crecv, creps, osent)
          BY <1>a, <5>2, StreamStarts
        <5>5. \A i \in 1..Len(o2s) : o2s[i].t = "data"
          BY DEF Downstream
        <5> QED BY <3>1, <4>2, <5>1, <5>3, <5>4, <5>5 DEF Downstream
      <4>5. CASE st = "CONN_REQ"
        BY <2>1, <4>2, <4>5 DEF Ending
      <4> QED BY <4>2, <4>3, <4>4, <4>5 DEF has_write_handler
    <3>3. CASE WriteLastReply(n)
      BY <1>c, <3>1, <3>3 DEF WriteLastReply, socksv5_close
    <3>4. CASE WriteRelayed(n)
      <4>1. st = "COPY" /\ st' = st /\ out' = Drop(out, n) /\ osent' = osent
        BY <3>4, Zenon DEF WriteRelayed, buffer_read_adv
      <4>2. ASSUME csock' = "open" PROVE s2c' \o out' = s2c \o out /\ csock = "open"
        <5>1. csock = "open" /\ s2c' = s2c \o Take(out, n)
          BY <3>1, <4>2 DEF SendToClient
        <5>2. n \in Nat /\ n <= Len(out)
          BY <1>a, <3>1, SendType
        <5> HIDE DEF n
        <5>3. Take(out, n) \o Drop(out, n) = out
          BY <1>a, <5>2, TakeThenDrop
        <5>4. Take(out, n) \in Seq(Message) /\ Drop(out, n) \in Seq(Message)
          <6>1. n \in Int /\ 0 <= n
            BY <5>2
          <6> QED BY <1>a, <5>2, <6>1, TakeDropType
        <5> DEFINE a == Take(out, n)
        <5> DEFINE b == Drop(out, n)
        <5>5. /\ a \in Seq(Message) /\ b \in Seq(Message) /\ a \o b = out
              /\ s2c' = s2c \o a /\ out' = b
          BY <4>1, <5>1, <5>3, <5>4
        <5> HIDE DEF a, b
        <5>6. (s2c \o a) \o b = s2c \o (a \o b)
          <6>1. s2c \in Seq(Message) /\ a \in Seq(Message) /\ b \in Seq(Message)
            BY <1>a, <5>5
          <6> QED BY <6>1, Regroup, Zenon
        <5> QED BY <5>1, <5>5, <5>6
      <4> QED BY <3>1, <4>1, <4>2 DEF Downstream
    <3> QED BY <3>1, <3>2, <3>3, <3>4
  <2>3. CASE WriteAgain \/ WriteSigpipe
    BY <1>b, <2>3 DEF WriteAgain, WriteSigpipe, Crash
  <2>4. CASE WriteError
    BY <1>c, <2>4 DEF WriteError, socksv5_close
  <2> QED BY <1>2, <2>2, <2>3, <2>4 DEF socksv5_write
<1>3. CASE socksv5_block
  <2>1. st = "CONNECTING"
    BY <1>0, <1>3 DEF socksv5_block, Resolution
  <2> QED BY <1>3, <1>c, <2>1 DEF socksv5_block, BlockNoAddress, BlockInProgress, BlockSuccess,
                            BlockFailed, ConnectInProgress, ConnectSuccess, socksv5_close
<1>4. CASE handshake_read \/ auth_read
  <2>1. CASE pc' = "socksv5_write"
    <3>1. st \in {"HANDSHAKE", "AUTH"} /\ st' = st /\ Same
      BY <1>4, <2>1 DEF handshake_read, auth_read, Hangup, Return, Crash
    <3> QED BY <1>c, <3>1
  <2>2. CASE Hangup(1)
    BY <1>c, <2>2 DEF Hangup, socksv5_close
  <2>3. CASE Return \/ Crash("aborted")
    BY <1>b, <2>3 DEF Return, Crash
  <2> QED BY <1>4, <2>1, <2>2, <2>3 DEF handshake_read, auth_read
<1>5. CASE connection_req_read
  <2>1. st = "CONN_REQ"
    BY <1>0, <1>5 DEF connection_req_read, Control
  <2> QED BY <1>5, <1>c, <2>1 DEF connection_req_read, RequestUnsupported, RequestAddress,
                            RequestDomain, RequestError, socksv5_close
<1>6. CASE handle_write_connecting
  <2>1. st = "CONNECTING" /\ out = << >>
    BY <1>0, <1>6 DEF handle_write_connecting, Control, Negotiation
  <2>2. CASE Connected
    <3>1. /\ crecv = << >> /\ creps = << >> /\ o2s = Data(osent)
          /\ \A i \in 1..Len(s2c) : s2c[i].t \in {"method", "status"}
          /\ \A i \in 1..Len(o2s) : o2s[i].t = "data"
      BY <2>1 DEF BeforeRelay, Downstream
    <3>2. out' = WithReply(Msg("rep", REP_SUCCEEDED)) /\ st' = "COPY" /\ Same /\ s2c' = s2c
      BY <1>6, <2>2 DEF handle_write_connecting, Connected
    <3>3. out' = <<Msg("rep", REP_SUCCEEDED)>>
      BY <2>1, <3>2, EmptyTakesReply
    <3>4. \E k \in 0..Len(s2c \o out') : ToClient(k, s2c \o out', o2s, crecv, creps, osent)
      BY <1>a, <3>1, <3>3, StreamStarts
    <3> QED BY <3>1, <3>2, <3>4 DEF Downstream
  <2> QED BY <1>6, <1>c, <2>1, <2>2 DEF handle_write_connecting, RetryInProgress, RetryNoSocket,
                                        RetryFailed, ConnectInProgress
<1>7. CASE copy_read \/ copy_write_handler
  <2>1. CASE CopyNoOrigin
    BY <1>c, <2>1 DEF CopyNoOrigin, Hangup, socksv5_close
  <2>2. CASE CopySome \/ CopyAgain \/ CopySigpipe
    BY <1>b, <2>2 DEF CopySome, CopyAgain, CopySigpipe, Crash
  <2>3. CASE CopyError
    BY <1>c, <2>3 DEF CopyError, socksv5_close
  <2> QED BY <1>7, <2>1, <2>2, <2>3 DEF copy_read, copy_write_handler, CopyWrite
<1>8. CASE copy_read_handler
  <2>1. CASE OriginFull \/ OriginEof
    BY <1>b, <2>1 DEF OriginFull, OriginEof
  <2>2. CASE OriginError
    BY <1>c, <2>2 DEF OriginError, Hangup, socksv5_close
  <2>3. CASE OriginData
    <3> DEFINE n == Least(Len(o2s), Room(out))
    <3>1. /\ out' = out \o Take(o2s, n) /\ o2s' = Drop(o2s, n)
          /\ UNCHANGED <<st, csock, crecv, creps, osent, s2c>>
      BY <2>3 DEF OriginData
    <3>2. n \in Nat /\ 0 < n /\ n <= Len(o2s)
      BY <1>a, <2>3, RecvType DEF OriginData
    <3> HIDE DEF n
    <3>3. n \in Int /\ 0 <= n /\ Len(o2s) \in Nat
      BY <1>a, <3>2, LenProperties
    <3>4. /\ Take(o2s, n) \in Seq(Message)
          /\ Len(Drop(o2s, n)) = Len(o2s) - n
          /\ \A i \in 1..(Len(o2s) - n) : Drop(o2s, n)[i] = o2s[n + i]
      BY <1>a, <3>2, <3>3, TakeDropType
    <3>5. \A i \in 1..Len(o2s') : o2s'[i].t = "data"
      <4> SUFFICES ASSUME NEW i \in 1..Len(o2s') PROVE o2s'[i].t = "data"
        OBVIOUS
      <4>1. i \in 1..(Len(o2s) - n) /\ n + i \in 1..Len(o2s)
        BY <3>1, <3>2, <3>3, <3>4
      <4> QED BY <3>1, <3>4, <4>1 DEF Downstream
    <3>6. s2c \o out' = (s2c \o out) \o Take(o2s, n)
      <4> DEFINE a == Take(o2s, n)
      <4>1. a \in Seq(Message) /\ out' = out \o a
        BY <3>1, <3>4
      <4> HIDE DEF a
      <4>2. (s2c \o out) \o a = s2c \o (out \o a)
        BY <1>a, <4>1, Regroup, ZenonT(60)
      <4>3. s2c \o out' = (s2c \o out) \o a
        BY <4>1, <4>2
      <4> QED BY <4>3 DEF a
    <3>7. st = "COPY"
      BY <1>0, <1>8 DEF copy_read_handler, Control
    <3>8. ASSUME csock = "open"
          PROVE  \E k \in 0..Len(s2c \o out') :
                   ToClient(k, s2c \o out', Drop(o2s, n), crecv, creps, osent)
      <4>1. PICK k \in 0..Len(s2c \o out) : ToClient(k, s2c \o out, o2s, crecv, creps, osent)
        BY <3>7, <3>8 DEF Downstream
      <4> DEFINE q == s2c \o out
      <4>2. q \in Seq(Message) /\ k \in 0..Len(q) /\ ToClient(k, q, o2s, crecv, creps, osent)
        BY <1>a, <4>1
      <4> HIDE DEF q
      <4>3. /\ k \in 0..Len(q \o Take(o2s, n))
            /\ ToClient(k, q \o Take(o2s, n), Drop(o2s, n), crecv, creps, osent)
        BY <1>a, <3>2, <4>2, StreamGrows
      <4> QED BY <3>6, <4>3 DEF q
    <3> QED BY <3>1, <3>5, <3>7, <3>8 DEF Downstream
  <2> QED BY <1>8, <2>1, <2>2, <2>3 DEF copy_read_handler
<1>9. CASE connecting_on_block_ready \/ selector_select_EBADF \/ resolve_host_name
  BY <1>b, <1>9 DEF connecting_on_block_ready, selector_select_EBADF, resolve_host_name, Return, Crash
<1>10. CASE ClientRecv
  <2>1. /\ s2c # << >> /\ s2c' = Tail(s2c) /\ csock = "open"
        /\ UNCHANGED <<st, out, o2s, osent>>
        /\ crecv' = IF Head(s2c).t = "data" THEN Append(crecv, Head(s2c)) ELSE crecv
        /\ creps' = IF Head(s2c).t = "rep" THEN Append(creps, Head(s2c).v) ELSE creps
    BY <1>10 DEF ClientRecv
  <2>2. CASE st = "COPY"
    <3> DEFINE q == s2c \o out
    <3>1. q \in Seq(Message) /\ q # << >>
      BY <1>a, <2>1, ConcatEqualIffEmpty
    <3>2. Head(q) = Head(s2c) /\ Tail(q) = s2c' \o out
      BY <1>a, <2>1, HeadTailOfConcat
    <3>3. PICK k \in 0..Len(q) : ToClient(k, q, o2s, crecv, creps, osent)
      BY <2>1, <2>2 DEF Downstream
    <3> HIDE DEF q
    <3>4. \E j \in 0..Len(Tail(q)) : ToClient(j, Tail(q), o2s, crecv', creps', osent)
      BY <1>a, <2>1, <3>1, <3>2, <3>3, StreamRead
    <3> QED BY <2>1, <2>2, <3>2, <3>4 DEF Downstream
  <2>3. CASE st # "COPY"
    BY <2>1, <2>3 DEF Downstream
  <2> QED BY <2>2, <2>3
<1>11. CASE ClientHello \/ ClientAuth \/ ClientRequest \/ ClientGarbage \/ ClientData
            \/ ClientSeesClose \/ ClientClose
  BY <1>b, <1>11 DEF ClientHello, ClientAuth, ClientRequest, ClientGarbage, ClientData,
                     ClientSeesClose, ClientClose
<1>12. CASE ConnectEnds \/ OriginRecv \/ OriginClose
  BY <1>b, <1>12 DEF ConnectEnds, OriginRecv, OriginClose
<1>13. CASE OriginSend
  <2>1. /\ o2s' = Append(o2s, Msg("data", osent + 1)) /\ osent' = osent + 1
        /\ UNCHANGED <<st, csock, s2c, out, crecv, creps>>
    BY <1>13 DEF OriginSend
  <2>2. Msg("data", osent + 1) \in Message
    BY <1>a, MessageType
  <2>3. \A i \in 1..Len(o2s') : o2s'[i].t = "data"
    <3>1. /\ Len(o2s') = Len(o2s) + 1 /\ o2s'[Len(o2s) + 1] = Msg("data", osent + 1)
          /\ \A i \in 1..Len(o2s) : o2s'[i] = o2s[i]
      BY <1>a, <2>1, <2>2, AppendProperties
    <3>2. Len(o2s) \in Nat
      BY <1>a, LenProperties
    <3> SUFFICES ASSUME NEW i \in 1..Len(o2s') PROVE o2s'[i].t = "data"
      OBVIOUS
    <3>3. i \in 1..Len(o2s) \/ i = Len(o2s) + 1
      BY <3>1, <3>2
    <3> QED BY <3>1, <3>3 DEF Downstream, Msg
  <2>4. Data(osent + 1) = Append(Data(osent), Msg("data", osent + 1))
    BY <1>a, DataIs
  <2>5. ASSUME st = "COPY", csock = "open"
        PROVE  \E k \in 0..Len(s2c \o out) :
                 ToClient(k, s2c \o out, o2s', crecv, creps, osent')
    BY <1>a, <2>1, <2>5, StreamFed DEF Downstream
  <2> QED BY <2>1, <2>3, <2>4, <2>5 DEF Downstream
<1>14. CASE UNCHANGED vars
  BY <1>b, <1>14 DEF vars
<1> QED BY <1>1, <1>2, <1>3, <1>4, <1>5, <1>6, <1>7, <1>8, <1>9, <1>10, <1>11, <1>12, <1>13,
           <1>14 DEF Next, MainThread, Client, Origin

-----------------------------------------------------------------------------
(* The codes that the client is told. *)

(* The reply codes in a queue: of an empty one, of the parts that send() and *)
(* recv() make of it, and of one without a reply to the request.             *)
LEMMA RepsOf ==
  ASSUME NEW q \in Seq(Message)
  PROVE  /\ RepsIn(<< >>) = {}
         /\ \A n \in Nat : n <= Len(q) => /\ RepsIn(Take(q, n)) \subseteq RepsIn(q)
                                          /\ RepsIn(Drop(q, n)) \subseteq RepsIn(q)
         /\ (\A i \in 1..Len(q) : q[i].t # "rep") => RepsIn(q) = {}
<1>1. \A p, c : c \in RepsIn(p) <=> \E i \in 1..Len(p) : p[i].t = "rep" /\ p[i].v = c
  BY DEF RepsIn
<1>2. RepsIn(<< >>) = {}
  <2>1. 1..Len(<< >>) = {}
    OBVIOUS
  <2> QED BY <1>1, <2>1
<1>3. (\A i \in 1..Len(q) : q[i].t # "rep") => RepsIn(q) = {}
  BY <1>1
<1>4. ASSUME NEW n \in Nat, n <= Len(q)
      PROVE  /\ RepsIn(Take(q, n)) \subseteq RepsIn(q)
             /\ RepsIn(Drop(q, n)) \subseteq RepsIn(q)
  <2>1. n \in Int /\ 0 <= n /\ Len(q) \in Nat
    BY LenProperties
  <2> DEFINE a == Take(q, n)
  <2> DEFINE b == Drop(q, n)
  <2>2. /\ Len(a) = n /\ \A i \in 1..n : a[i] = q[i]
        /\ Len(b) = Len(q) - n /\ \A i \in 1..(Len(q) - n) : b[i] = q[n + i]
    BY <1>4, <2>1, TakeDropType
  <2> HIDE DEF a, b
  <2>3. \A i \in 1..Len(a) : i \in 1..Len(q) /\ a[i] = q[i]
    BY <1>4, <2>1, <2>2
  <2>4. \A i \in 1..Len(b) : n + i \in 1..Len(q) /\ b[i] = q[n + i]
    BY <1>4, <2>1, <2>2
  <2>5. RepsIn(a) \subseteq RepsIn(q)
    BY <1>1, <2>3
  <2>6. RepsIn(b) \subseteq RepsIn(q)
    <3> SUFFICES ASSUME NEW c \in RepsIn(b) PROVE c \in RepsIn(q)
      OBVIOUS
    <3>1. PICK i \in 1..Len(b) : b[i].t = "rep" /\ b[i].v = c
      BY <1>1
    <3>2. n + i \in 1..Len(q) /\ q[n + i].t = "rep" /\ q[n + i].v = c
      BY <2>4, <3>1
    <3> QED BY <1>1, <3>2
  <2> QED BY <2>5, <2>6 DEF a, b
<1> QED BY <1>2, <1>3, <1>4

(* The reply codes in two queues that are joined are those of the one and    *)
(* those of the other.                                                       *)
LEMMA RepsOfConcat ==
  ASSUME NEW a \in Seq(Message), NEW b \in Seq(Message)
  PROVE  RepsIn(a \o b) \subseteq RepsIn(a) \cup RepsIn(b)
<1>1. \A p, c : c \in RepsIn(p) <=> \E i \in 1..Len(p) : p[i].t = "rep" /\ p[i].v = c
  BY DEF RepsIn
<1> DEFINE s == a \o b
<1>2. /\ Len(s) = Len(a) + Len(b)
      /\ \A i \in 1..Len(a) + Len(b) : s[i] = IF i <= Len(a) THEN a[i] ELSE b[i - Len(a)]
  BY ConcatProperties
<1>3. Len(a) \in Nat /\ Len(b) \in Nat
  BY LenProperties
<1> HIDE DEF s
<1>4. \A i \in 1..Len(s) : \/ i \in 1..Len(a) /\ s[i] = a[i]
                           \/ i - Len(a) \in 1..Len(b) /\ s[i] = b[i - Len(a)]
  BY <1>2, <1>3
<1>5. RepsIn(s) \subseteq RepsIn(a) \cup RepsIn(b)
  BY <1>1, <1>4, SMTT(60)
<1> QED BY <1>5 DEF s

(* One reply alone. *)
LEMMA RepsOfOne ==
  ASSUME NEW type, NEW c
  PROVE  RepsIn(<<Msg(type, c)>>) = IF type = "rep" THEN {c} ELSE {}
<1> DEFINE q == <<Msg(type, c)>>
<1>1. Len(q) = 1 /\ q[1].t = type /\ q[1].v = c
  BY DEF Msg
<1> HIDE DEF q
<1>2. 1..Len(q) = {1}
  BY <1>1
<1>3. RepsIn(q) = IF type = "rep" THEN {c} ELSE {}
  BY <1>1, <1>2 DEF RepsIn
<1> QED BY <1>3 DEF q

(* Until the reply is queued the client has been told nothing of its request. *)
LEMMA NothingTold ==
  ASSUME TypeOK, BeforeRelay, st \notin {"COPY", "FREED"}, out = << >>
  PROVE  Replies = {} /\ creps = << >> /\ RepsIn(s2c) = {}
<1>1. RepsIn(s2c) = {}
  <2>1. \A i \in 1..Len(s2c) : s2c[i].t # "rep"
    BY DEF BeforeRelay
  <2> QED BY <2>1, RepsOf DEF TypeOK
<1>2. RepsIn(out) = {}
  BY RepsOf DEF TypeOK
<1>3. creps = << >> /\ 1..Len(<< >>) = {}
  BY DEF BeforeRelay
<1> QED BY <1>1, <1>2, <1>3 DEF Replies

(* Every step preserves ReplyMatchesLog. *)
LEMMA ReplyMatchesLogStep ==
  ASSUME IndInv, Ending, BeforeRelay, Answer, Downstream, ReplyMatchesLog, [Next]_vars
  PROVE  ReplyMatchesLog'
<1> USE DEF thread, sel, bufs, negot, conn, metrics, cl, og, peers, wire, server,
            Idle, Running, Goto, Call, Ends
<1>0. TypeOK /\ Control /\ Resolution /\ Negotiation
  BY DEF IndInv
<1>a. s2c \in Seq(Message) /\ out \in Seq(Message) /\ o2s \in Seq(Message)
  BY <1>0 DEF TypeOK
<1>b. ASSUME log' = log, UNCHANGED creps,
             RepsIn(s2c') \cup RepsIn(out') \subseteq RepsIn(s2c) \cup RepsIn(out)
      PROVE  ReplyMatchesLog'
  BY <1>b DEF ReplyMatchesLog, Replies
<1>c. ASSUME UNCHANGED <<log, creps, s2c, out>>
      PROVE  ReplyMatchesLog'
  BY <1>c DEF ReplyMatchesLog, Replies
<1>d. ASSUME UNCHANGED <<log, creps, s2c>>, out' = << >>
      PROVE  ReplyMatchesLog'
  <2>1. RepsIn(out') = {}
    BY <1>a, <1>d, RepsOf
  <2> QED BY <1>b, <1>d, <2>1
<1>e. ASSUME st \notin {"COPY", "FREED"}, out = << >>, UNCHANGED <<creps, s2c>>,
             NEW type, NEW c, out' = WithReply(Msg(type, c)),
             type = "rep" => log' = <<c>> \/ c = REP_COMMAND_NOT_SUPPORTED
      PROVE  ReplyMatchesLog'
  <2>1. creps = << >> /\ RepsIn(s2c) = {}
    BY <1>0, <1>e, NothingTold
  <2>2. out' = <<Msg(type, c)>>
    BY <1>e, EmptyTakesReply
  <2>3. RepsIn(out') = IF type = "rep" THEN {c} ELSE {}
    BY <2>2, RepsOfOne
  <2>4. {creps'[i] : i \in 1..Len(creps')} = {}
    BY <1>e, <2>1
  <2> QED BY <1>e, <2>1, <2>3, <2>4 DEF ReplyMatchesLog, Replies
<1>1. CASE socksv5_read
  <2>1. CASE ReadFull \/ ReadData
    BY <1>c, <2>1 DEF ReadFull, ReadData
  <2>2. CASE ReadClosed
    BY <1>d, <2>2 DEF ReadClosed, Hangup, socksv5_close
  <2> QED BY <1>1, <2>1, <2>2 DEF socksv5_read
<1>2. CASE socksv5_write
  <2>1. CASE WriteSome
    <3> DEFINE n == Accepted(out, s2c)
    <3>1. /\ WriteLastReply(n) \/ WriteReply(n) \/ WriteRelayed(n)
          /\ SendToClient(n) /\ UNCHANGED <<log, creps>> /\ n > 0
      BY <2>1 DEF WriteSome, SendToClient
    <3>2. out' \in {<< >>, Drop(out, n)}
      <4>1. CASE WriteLastReply(n)
        BY <4>1 DEF WriteLastReply, socksv5_close
      <4>2. CASE WriteReply(n) \/ WriteRelayed(n)
        BY <4>2, Zenon DEF WriteReply, WriteRelayed, buffer_read_adv
      <4> QED BY <3>1, <4>1, <4>2
    <3>3. s2c' \in {s2c, s2c \o Take(out, n)}
      BY <3>1 DEF SendToClient
    <3>4. n \in Nat /\ n <= Len(out)
      BY <1>a, <3>1, SendType
    <3> HIDE DEF n
    <3>5. /\ RepsIn(Take(out, n)) \subseteq RepsIn(out)
          /\ RepsIn(Drop(out, n)) \subseteq RepsIn(out) /\ RepsIn(<< >>) = {}
      BY <1>a, <3>4, RepsOf
    <3>6. Take(out, n) \in Seq(Message)
      <4>1. n \in Int /\ 0 <= n
        BY <3>4
      <4> QED BY <1>a, <3>4, <4>1, TakeDropType
    <3>7. RepsIn(s2c \o Take(out, n)) \subseteq RepsIn(s2c) \cup RepsIn(Take(out, n))
      BY <1>a, <3>6, RepsOfConcat
    <3>8. RepsIn(s2c') \cup RepsIn(out') \subseteq RepsIn(s2c) \cup RepsIn(out)
      BY <3>2, <3>3, <3>5, <3>7
    <3> QED BY <1>b, <3>1, <3>8
  <2>2. CASE WriteAgain \/ WriteSigpipe
    BY <1>c, <2>2 DEF WriteAgain, WriteSigpipe, Crash
  <2>3. CASE WriteError
    BY <1>d, <2>3 DEF WriteError, socksv5_close
  <2> QED BY <1>2, <2>1, <2>2, <2>3 DEF socksv5_write
<1>3. CASE socksv5_block
  <2>1. /\ st = "CONNECTING" /\ out = << >> /\ log = << >>
        /\ UNCHANGED <<creps, s2c>>
    BY <1>0, <1>3 DEF socksv5_block, Resolution, Negotiation, Answer
  <2>2. \A c : Append(log, c) = <<c>>
    BY <2>1
  <2>3. CASE BlockNoAddress
    <3>1. out' = WithReply(Msg("rep", REP_HOST_UNREACHABLE)) /\ log' = <<REP_HOST_UNREACHABLE>>
      BY <2>2, <2>3 DEF BlockNoAddress
    <3> QED BY <1>e, <2>1, <3>1
  <2>4. CASE BlockInProgress
    BY <1>c, <2>1, <2>4 DEF BlockInProgress
  <2>5. CASE BlockSuccess
    <3>1. out' = WithReply(Msg("rep", REP_SUCCEEDED)) /\ log' = <<REP_SUCCEEDED>>
      BY <2>2, <2>5 DEF BlockSuccess
    <3> QED BY <1>e, <2>1, <3>1
  <2>6. CASE BlockFailed
    <3>1. out' = << >>
      BY <2>6 DEF BlockFailed, socksv5_close
    <3>2. Replies = {}
      BY <1>0, <2>1, NothingTold
    <3>3. Replies' = {}
      BY <2>1, <3>1, <3>2 DEF Replies
    <3> QED BY <3>3 DEF ReplyMatchesLog
  <2> QED BY <1>3, <2>3, <2>4, <2>5, <2>6 DEF socksv5_block
<1>4. CASE handshake_read \/ auth_read
  <2>1. CASE pc' = "socksv5_write"
    <3>1. /\ st \in {"HANDSHAKE", "AUTH"} /\ out = << >> /\ UNCHANGED <<log, creps, s2c>>
      BY <1>0, <1>4, <2>1 DEF handshake_read, auth_read, Hangup, Return, Crash, Negotiation
    <3>2. \/ \E c : out' = WithReply(Msg("method", c))
          \/ \E c : out' = WithReply(Msg("status", c))
      BY <1>4, <2>1 DEF handshake_read, auth_read, Hangup, Return, Crash
    <3>3. PICK type, c : out' = WithReply(Msg(type, c)) /\ type # "rep"
      BY <3>2
    <3> QED BY <1>e, <3>1, <3>3
  <2>2. CASE Hangup(1)
    BY <1>d, <2>2 DEF Hangup, socksv5_close
  <2>3. CASE Return \/ Crash("aborted")
    BY <1>c, <2>3 DEF Return, Crash
  <2> QED BY <1>4, <2>1, <2>2, <2>3 DEF handshake_read, auth_read
<1>5. CASE connection_req_read
  <2>1. st = "CONN_REQ" /\ out = << >> /\ UNCHANGED <<log, creps, s2c>>
    BY <1>0, <1>5 DEF connection_req_read, Control, Negotiation
  <2>2. CASE RequestUnsupported
    BY <1>e, <2>1, <2>2 DEF RequestUnsupported
  <2>3. CASE RequestAddress \/ RequestDomain
    BY <1>c, <2>1, <2>3 DEF RequestAddress, RequestDomain
  <2>4. CASE RequestError
    BY <1>d, <2>1, <2>4 DEF RequestError, socksv5_close
  <2> QED BY <1>5, <2>2, <2>3, <2>4 DEF connection_req_read
<1>6. CASE handle_write_connecting
  <2>1. /\ st = "CONNECTING" /\ out = << >> /\ log = << >>
        /\ UNCHANGED <<creps, s2c>>
    BY <1>0, <1>6 DEF handle_write_connecting, Control, Negotiation, Answer
  <2>2. \A c : Append(log, c) = <<c>>
    BY <2>1
  <2>3. CASE RetryInProgress \/ RetryNoSocket
    BY <1>c, <2>1, <2>3 DEF RetryInProgress, RetryNoSocket
  <2>4. CASE RetryFailed
    <3>1. PICK c : log' = Append(log, c) /\ out' = WithReply(Msg("rep", c))
      BY <2>4 DEF RetryFailed
    <3> QED BY <1>e, <2>1, <2>2, <3>1
  <2>5. CASE Connected
    <3>1. out' = WithReply(Msg("rep", REP_SUCCEEDED)) /\ log' = <<REP_SUCCEEDED>>
      BY <2>2, <2>5 DEF Connected
    <3> QED BY <1>e, <2>1, <3>1
  <2> QED BY <1>6, <2>3, <2>4, <2>5 DEF handle_write_connecting
<1>7. CASE copy_read \/ copy_write_handler
  <2>1. CASE CopyNoOrigin
    BY <1>d, <2>1 DEF CopyNoOrigin, Hangup, socksv5_close
  <2>2. CASE CopySome \/ CopyAgain \/ CopySigpipe
    BY <1>c, <2>2 DEF CopySome, CopyAgain, CopySigpipe, Crash
  <2>3. CASE CopyError
    BY <1>d, <2>3 DEF CopyError, socksv5_close
  <2> QED BY <1>7, <2>1, <2>2, <2>3 DEF copy_read, copy_write_handler, CopyWrite
<1>8. CASE copy_read_handler
  <2>1. CASE OriginFull \/ OriginEof
    BY <1>c, <2>1 DEF OriginFull, OriginEof
  <2>2. CASE OriginError
    BY <1>d, <2>2 DEF OriginError, Hangup, socksv5_close
  <2>3. CASE OriginData
    <3> DEFINE n == Least(Len(o2s), Room(out))
    <3>1. out' = out \o Take(o2s, n) /\ UNCHANGED <<log, creps, s2c>>
      BY <2>3 DEF OriginData
    <3>2. n \in Nat /\ n <= Len(o2s)
      BY <1>a, <2>3, RecvType DEF OriginData
    <3> HIDE DEF n
    <3>3. Take(o2s, n) \in Seq(Message)
      <4>1. n \in Int /\ 0 <= n
        BY <3>2
      <4> QED BY <1>a, <3>2, <4>1, TakeDropType
    <3>4. RepsIn(o2s) = {}
      <4>1. \A i \in 1..Len(o2s) : o2s[i].t # "rep"
        BY DEF Downstream
      <4> QED BY <1>a, <4>1, RepsOf
    <3>5. RepsIn(Take(o2s, n)) = {}
      BY <1>a, <3>2, <3>4, RepsOf
    <3>6. RepsIn(out') \subseteq RepsIn(out)
      BY <1>a, <3>1, <3>3, <3>5, RepsOfConcat
    <3> QED BY <1>b, <3>1, <3>6
  <2> QED BY <1>8, <2>1, <2>2, <2>3 DEF copy_read_handler
<1>9. CASE connecting_on_block_ready \/ selector_select_EBADF \/ resolve_host_name
  BY <1>c, <1>9 DEF connecting_on_block_ready, selector_select_EBADF, resolve_host_name, Return, Crash
<1>10. CASE ClientRecv
  <2>1. /\ s2c # << >> /\ s2c' = Tail(s2c) /\ UNCHANGED <<log, out>>
        /\ creps' = IF Head(s2c).t = "rep" THEN Append(creps, Head(s2c).v) ELSE creps
    BY <1>10 DEF ClientRecv
  <2>2. Len(s2c) \in Nat /\ Len(s2c) # 0 /\ Head(s2c) = s2c[1] /\ s2c[1] \in Message
    BY <1>a, <2>1, LenProperties, EmptySeq, HeadTailProperties
  <2>3. RepsIn(s2c') \subseteq RepsIn(s2c)
    <3>1. Tail(s2c) = Drop(s2c, 1)
      BY <1>a, <2>1, TailIsSubSeq DEF Drop
    <3>2. 1 \in Nat /\ 1 <= Len(s2c)
      BY <2>2
    <3>3. RepsIn(Drop(s2c, 1)) \subseteq RepsIn(s2c)
      BY <1>a, <3>2, RepsOf
    <3> QED BY <2>1, <3>1, <3>3
  <2>4. ASSUME s2c[1].t = "rep" PROVE s2c[1].v \in RepsIn(s2c)
    <3>1. 1 \in 1..Len(s2c)
      BY <2>2
    <3> QED BY <2>4, <3>1 DEF RepsIn
  <2>5. \A i \in 1..Len(creps') : creps'[i] \in {creps[j] : j \in 1..Len(creps)} \cup RepsIn(s2c)
    <3>1. CASE s2c[1].t = "rep"
      <4>1. s2c[1].v \in Codes /\ creps \in Seq(Codes)
        BY <1>0, <2>2, <3>1, MessageValue DEF TypeOK
      <4>2. /\ Len(creps') = Len(creps) + 1 /\ creps'[Len(creps) + 1] = s2c[1].v
            /\ \A i \in 1..Len(creps) : creps'[i] = creps[i]
        BY <2>1, <2>2, <3>1, <4>1, AppendProperties
      <4>3. Len(creps) \in Nat
        BY <4>1, LenProperties
      <4> SUFFICES ASSUME NEW i \in 1..Len(creps')
                   PROVE  creps'[i] \in {creps[j] : j \in 1..Len(creps)} \cup RepsIn(s2c)
        OBVIOUS
      <4>4. i \in 1..Len(creps) \/ i = Len(creps) + 1
        BY <4>2, <4>3
      <4> QED BY <2>4, <3>1, <4>2, <4>4
    <3>2. CASE s2c[1].t # "rep"
      <4>1. creps' = creps
        BY <2>1, <2>2, <3>2
      <4> QED BY <4>1
    <3> QED BY <3>1, <3>2
  <2>6. Replies' \subseteq Replies
    BY <2>1, <2>3, <2>5 DEF Replies
  <2> QED BY <2>1, <2>6 DEF ReplyMatchesLog
<1>11. CASE ClientHello \/ ClientAuth \/ ClientRequest \/ ClientGarbage \/ ClientData
            \/ ClientSeesClose \/ ClientClose
  BY <1>c, <1>11 DEF ClientHello, ClientAuth, ClientRequest, ClientGarbage, ClientData,
                     ClientSeesClose, ClientClose
<1>12. CASE ConnectEnds \/ Origin
  BY <1>c, <1>12 DEF ConnectEnds, Origin, OriginRecv, OriginSend, OriginClose
<1>13. CASE UNCHANGED vars
  BY <1>c, <1>13 DEF vars
<1> QED BY <1>1, <1>2, <1>3, <1>4, <1>5, <1>6, <1>7, <1>8, <1>9, <1>10, <1>11, <1>12, <1>13
        DEF Next, MainThread, Client

-----------------------------------------------------------------------------
(* The theorems about the relay and the answer. *)

(* A connection that has just been accepted has neither. *)
LEMMA InitRelay == Init => RelayInv
<1> SUFFICES ASSUME Init PROVE RelayInv
  OBVIOUS
<1>1. Ending /\ Directions /\ Answer
  BY DEF Init, Ending, Directions, Answer
<1>2. Len(s2c) = 0 /\ Len(o2s) = 0 /\ Len(out) = 0 /\ Len(creps) = 0
  BY DEF Init
<1>3. BeforeRelay
  BY <1>2 DEF Init, BeforeRelay
<1>4. Data(0) = << >>
  <2>1. Data(0) \in Seq(Message) /\ Len(Data(0)) = 0
    BY DataIs
  <2> QED BY <2>1, EmptySeq
<1>5. Downstream
  BY <1>2, <1>4 DEF Init, Downstream
<1>6. ReplyMatchesLog
  <2>1. 1..0 = {}
    OBVIOUS
  <2>2. Replies = {}
    BY <1>2, <2>1 DEF Replies, RepsIn
  <2> QED BY <2>2 DEF ReplyMatchesLog
<1> QED BY <1>1, <1>3, <1>5, <1>6 DEF RelayInv

(* Every step keeps the two invariants. *)
LEMMA NextRelay == IndInv /\ RelayInv /\ [Next]_vars => RelayInv'
<1> SUFFICES ASSUME IndInv, RelayInv, [Next]_vars PROVE RelayInv'
  OBVIOUS
<1> USE DEF RelayInv
<1>1. Ending'
  BY EndingStep
<1>2. Directions'
  BY DirectionsStep
<1>3. BeforeRelay'
  BY BeforeRelayStep
<1>4. Answer'
  BY AnswerStep
<1>5. Downstream'
  BY DownstreamStep
<1>6. ReplyMatchesLog'
  BY ReplyMatchesLogStep
<1> QED BY <1>1, <1>2, <1>3, <1>4, <1>5, <1>6

(* The invariant of the relay holds in every reachable state, whatever the   *)
(* peers, the kernel and getaddrinfo() do.                                   *)
THEOREM RelayInvariance == Spec => [](IndInv /\ RelayInv)
<1>1. Init => IndInv /\ RelayInv
  BY InitInv, InitRelay
<1>2. IndInv /\ RelayInv /\ [Next]_vars => IndInv' /\ RelayInv'
  BY NextInv, NextRelay
<1> QED BY <1>1, <1>2, PTL DEF Spec

(* The early returns of socksv5_write and copy_write_handler for an empty    *)
(* buffer are never taken.                                                   *)
THEOREM WritersAreFed == Spec => []WritersHaveData
<1>1. IndInv /\ RelayInv => WritersHaveData
  <2> SUFFICES ASSUME IndInv, RelayInv, srv = "up"
               PROVE  /\ pc = "socksv5_write" \/ ci = "WRITE" => out # << >>
                      /\ oh = "copy" /\ oi = "WRITE" => in # << >>
    BY DEF WritersHaveData
  <2>1. pc = "socksv5_write" => ci = "WRITE"
    BY DEF IndInv, Control
  <2>2. ASSUME ci = "WRITE" PROVE out # << >>
    <3>1. CASE st \in {"COPY", "FREED"}
      BY <2>2, <3>1 DEF RelayInv, Directions, Ending
    <3>2. CASE st \notin {"COPY", "FREED"}
      <4>1. Len(out) = 1
        BY <2>2, <3>2 DEF IndInv, Negotiation
      <4>2. Len(<< >>) = 0
        OBVIOUS
      <4> QED BY <4>1, <4>2
    <3> QED BY <3>1, <3>2
  <2>3. oh = "copy" /\ oi = "WRITE" => in # << >>
    BY DEF IndInv, Control, RelayInv, Directions
  <2> QED BY <2>1, <2>2, <2>3
<1> QED BY <1>1, RelayInvariance, PTL

(* Of the two buffers of a relay one is empty at any time. *)
THEOREM OneDirectionAtATime == Spec => []HalfDuplex
<1>1. IndInv /\ RelayInv => HalfDuplex
  BY DEF RelayInv, Directions, HalfDuplex
<1> QED BY <1>1, RelayInvariance, PTL

(* Between the handlers of a relay, data that waits is matched by an         *)
(* interest that moves it, and a peer is not read only while the buffer it   *)
(* would fill is full, or the client has not sent anything yet.              *)
THEOREM DataIsWatched == Spec => []NoStall
<1>1. IndInv /\ RelayInv => NoStall
  <2> SUFFICES ASSUME IndInv, RelayInv, srv = "up", pc = "select", st = "COPY"
               PROVE  /\ out # << >> => ci = "WRITE"
                      /\ in # << >> => oi = "WRITE"
                      /\ ci = "NOOP" => Room(in) = 0
                      /\ oi = "NOOP" => Room(out) = 0 \/ orecv \o s2o = << >>
    BY DEF NoStall
  <2>1. << >> \o << >> = << >>
    OBVIOUS
  <2> QED BY <2>1 DEF RelayInv, Directions
<1> QED BY <1>1, RelayInvariance, PTL

(* The client is told one result, the one in the access register. *)
THEOREM OneAnswer == Spec => []ReplyMatchesLog
<1>1. IndInv /\ RelayInv => ReplyMatchesLog
  BY DEF RelayInv
<1> QED BY <1>1, RelayInvariance, PTL

(* It is told that it succeeded only when the origin has accepted. *)
THEOREM SuccessIsReal == Spec => []SuccessMeansConnected
<1>1. IndInv /\ RelayInv => SuccessMeansConnected
  <2> SUFFICES ASSUME IndInv, RelayInv, REP_SUCCEEDED \in Replies, st # "FREED"
               PROVE  HasConnected
    BY DEF SuccessMeansConnected, HasConnected
  <2>1. log = <<REP_SUCCEEDED>>
    BY DEF RelayInv, ReplyMatchesLog, REP_SUCCEEDED, REP_COMMAND_NOT_SUPPORTED
  <2>2. CASE st = "COPY"
    BY <2>2 DEF RelayInv, Answer
  <2>3. CASE st # "COPY"
    <3>1. st \in {"NONE", "HANDSHAKE", "AUTH", "CONN_REQ", "CONNECTING"}
      BY <2>3 DEF IndInv, TypeOK
    <3>2. log # << >>
      BY <2>1
    <3>3. st \in {"CONN_REQ", "CONNECTING"} /\ ci = "WRITE"
      BY <3>1, <3>2 DEF RelayInv, Answer
    <3>4. ~err
      BY <2>1, <3>3 DEF RelayInv, Answer
    <3>5. st = "CONNECTING"
      BY <3>3, <3>4 DEF RelayInv, Ending
    <3> QED BY <3>3, <3>4, <3>5 DEF RelayInv, Answer
  <2> QED BY <2>2, <2>3
<1> QED BY <1>1, RelayInvariance, PTL

(* Nothing that the origin sends is lost, repeated or reordered on its way   *)
(* through out_buff and the sockets, and the reply comes before it.          *)
THEOREM DownstreamIsExact == Spec => []RelayToClient
<1>1. IndInv /\ RelayInv => RelayToClient
  <2> SUFFICES ASSUME IndInv, RelayInv, st = "COPY", csock = "open"
               PROVE  /\ \E k \in 0..Len(s2c \o out) :
                           /\ \A i \in 1..k : IsReply((s2c \o out)[i])
                           /\ crecv \o Drop(s2c \o out, k) \o o2s = Data(osent)
                      /\ crecv # << >> => creps = <<REP_SUCCEEDED>>
    BY DEF RelayToClient
  <2>1. PICK k \in 0..Len(s2c \o out) : ToClient(k, s2c \o out, o2s, crecv, creps, osent)
    BY DEF RelayInv, Downstream
  <2>2. \A i \in 1..k : IsReply((s2c \o out)[i])
    BY <2>1 DEF ToClient
  <2>3. crecv \o Drop(s2c \o out, k) \o o2s = Data(osent)
    BY <2>1 DEF ToClient
  <2>4. crecv # << >> => creps = <<REP_SUCCEEDED>>
    BY <2>1 DEF ToClient
  <2> QED BY <2>1, <2>2, <2>3, <2>4
<1> QED BY <1>1, RelayInvariance, PTL

-----------------------------------------------------------------------------
(* The third inductive invariant, of clients that wait for each reply.       *)
NoPipeline == "pipeline" \notin Env

(* The token of the negotiation: what the client has sent and not got an     *)
(* answer to, wherever it is.                                                *)
Connecting == IF st = "CONNECTING" /\ ci = "NOOP" THEN 1 ELSE 0
Tokens == Len(c2s) + Len(in) + Connecting + Len(out) + Len(s2c)

(* The messages that the client can have sent last. *)
Last == {m \in Message : /\ m.t = "hello" => cstage \in {"auth", "req"}
                         /\ m.t = "auth" => cstage = "req"
                         /\ m.t = "req" => cstage = "data"}

(* Before the relay there is at most one token, and the client waits for it  *)
(* while there is one.                                                       *)
Turns ==
  st \notin {"COPY", "FREED"} =>
    /\ Tokens <= 1
    /\ csock = "open" => cwait = Tokens
    /\ cstage = "data" /\ csock = "open" => cwait = 1
    /\ csent = 0

(* What the client said last has been answered when the reply is sent. *)
Stages ==
  /\ st \notin {"COPY", "FREED"} =>
       /\ c2s \in Seq(Last) /\ in \in Seq(Last)
       /\ s2c # << >> => cstage \in {"auth", "req"}
       /\ st \in {"HANDSHAKE", "AUTH"} /\ out # << >> => cstage \in {"auth", "req"}
  /\ st \in {"CONNECTING", "COPY"} => cstage = "data"

TurnInv == Turns /\ Stages /\ RelayToOrigin

(* The lengths that make up Tokens are numbers. *)
LEMMA TokenTypes ==
  ASSUME TypeOK
  PROVE  /\ Len(c2s) \in Nat /\ Len(in) \in Nat /\ Len(out) \in Nat /\ Len(s2c) \in Nat
         /\ Connecting \in {0, 1} /\ Tokens \in Nat /\ cwait \in Int /\ csent \in Nat
<1>1. Len(c2s) \in Nat /\ Len(in) \in Nat /\ Len(out) \in Nat /\ Len(s2c) \in Nat
  BY LenProperties DEF TypeOK
<1>2. Connecting \in {0, 1}
  BY DEF Connecting
<1> QED BY <1>1, <1>2 DEF Tokens, TypeOK

(* What recv() moves from a queue to a buffer is not lost. *)
LEMMA RecvLength ==
  ASSUME NEW q \in Seq(Message), NEW b \in Seq(Message), Room(b) > 0, q # << >>
  PROVE  LET n == Least(Len(q), Room(b)) IN
         Len(b \o Take(q, n)) + Len(Drop(q, n)) = Len(b) + Len(q)
<1> DEFINE n == Least(Len(q), Room(b))
<1>1. n \in Nat /\ n <= Len(q)
  BY RecvType
<1> HIDE DEF n
<1>2. n \in Int /\ 0 <= n /\ Len(q) \in Nat /\ Len(b) \in Nat
  BY <1>1, LenProperties
<1>3. Take(q, n) \in Seq(Message) /\ Len(Take(q, n)) = n /\ Len(Drop(q, n)) = Len(q) - n
  BY <1>1, <1>2, TakeDropType
<1>4. Len(b \o Take(q, n)) = Len(b) + n
  BY <1>3, ConcatProperties
<1>5. Len(b \o Take(q, n)) + Len(Drop(q, n)) = Len(b) + Len(q)
  BY <1>2, <1>3, <1>4
<1> QED BY <1>5 DEF n

(* The tail of a queue is one element shorter. *)
LEMMA TailLength ==
  ASSUME NEW q \in Seq(Message), q # << >>
  PROVE  Len(q) \in Nat /\ Len(q) >= 1 /\ Len(Tail(q)) = Len(q) - 1
<1>1. Len(q) \in Nat /\ Len(q) # 0
  BY LenProperties, EmptySeq
<1> QED BY <1>1, HeadTailProperties

(* Every step preserves Turns. *)
LEMMA TurnsStep ==
  ASSUME NoPipeline, IndInv, RelayInv, TurnInv, [Next]_vars
  PROVE  Turns'
<1> USE DEF thread, sel, bufs, negot, conn, metrics, cl, og, peers, wire, server,
            Idle, Running, Goto, Call, Ends
<1> DEFINE Talking == st \notin {"COPY", "FREED"}
<1>0. TypeOK /\ Control /\ Resolution /\ Negotiation
  BY DEF IndInv
<1>h. Ending /\ BeforeRelay /\ Answer /\ Turns /\ Stages
  BY DEF RelayInv, TurnInv
<1>a. /\ in \in Seq(Message) /\ out \in Seq(Message)
      /\ c2s \in Seq(Message) /\ s2c \in Seq(Message)
      /\ Len(c2s) \in Nat /\ Len(in) \in Nat /\ Len(out) \in Nat /\ Len(s2c) \in Nat
      /\ Connecting \in {0, 1} /\ Tokens \in Nat /\ cwait \in Int /\ csent \in Nat
  BY <1>0, TokenTypes DEF TypeOK
<1>t. /\ Len(c2s') \in Nat /\ Len(in') \in Nat /\ Len(out') \in Nat /\ Len(s2c') \in Nat
      /\ Connecting' \in {0, 1} /\ Tokens' \in Nat
  <2>1. TypeOK'
    BY <1>0, TypeStep
  <2>2. /\ Len(c2s') \in Nat /\ Len(in') \in Nat /\ Len(out') \in Nat /\ Len(s2c') \in Nat
    BY <2>1, LenProperties DEF TypeOK
  <2>3. Connecting' \in {0, 1}
    BY DEF Connecting
  <2> QED BY <2>2, <2>3 DEF Tokens
<1>n. /\ Len(c2s) \in Nat /\ Len(in) \in Nat /\ Len(out) \in Nat /\ Len(s2c) \in Nat
      /\ Len(c2s') \in Nat /\ Len(in') \in Nat /\ Len(out') \in Nat /\ Len(s2c') \in Nat
      /\ Connecting \in {0, 1} /\ Connecting' \in {0, 1}
      /\ Tokens = Len(c2s) + Len(in) + Connecting + Len(out) + Len(s2c)
      /\ Tokens' = Len(c2s') + Len(in') + Connecting' + Len(out') + Len(s2c')
  BY <1>a, <1>t DEF Tokens
<1>z. Len(<< >>) = 0
  OBVIOUS
<1>b. ASSUME st' \in {"COPY", "FREED"}
      PROVE  Turns'
  BY <1>b DEF Turns
<1>c. ASSUME Talking, csent' = csent, Tokens' <= Tokens,
             csock' = "open" => /\ csock = "open" /\ Tokens' = Tokens
                                /\ UNCHANGED <<cwait, cstage>>
      PROVE  Turns'
  BY <1>a, <1>c, <1>h, <1>t DEF Turns
<1>d. ASSUME UNCHANGED <<st, ci, in, out, c2s, s2c, cwait, cstage, csent>>,
             csock' = "open" => csock = "open"
      PROVE  Turns'
  <2>1. CASE Talking
    <3>1. Tokens' = Tokens
      BY <1>d DEF Tokens, Connecting
    <3> QED BY <1>a, <1>c, <1>d, <2>1, <3>1
  <2>2. CASE ~Talking
    BY <1>b, <1>d, <2>2
  <2> QED BY <2>1, <2>2
<1>1. CASE socksv5_read
  <2>1. ci = "READ" /\ st # "CONNECTING"
    BY <1>0, <1>1 DEF socksv5_read, Control
  <2>2. CASE ReadFull
    <3>1. CASE Talking
      <4>1. Tokens' = Tokens
        BY <2>1, <2>2 DEF ReadFull, Tokens, Connecting
      <4> QED BY <1>a, <1>c, <2>2, <3>1, <4>1 DEF ReadFull
    <3>2. CASE ~Talking
      BY <1>b, <2>2, <3>2 DEF ReadFull
    <3> QED BY <3>1, <3>2
  <2>3. CASE ReadData
    <3>1. /\ in' = in \o Take(c2s, Least(Len(c2s), Room(in)))
          /\ c2s' = Drop(c2s, Least(Len(c2s), Room(in)))
          /\ UNCHANGED <<ci, out, s2c, csock, cwait, cstage, csent>>
          /\ st' = FirstState
      BY <2>3 DEF ReadData
    <3>2. Len(in') + Len(c2s') = Len(in) + Len(c2s)
      BY <1>a, <2>3, <3>1, RecvLength DEF ReadData
    <3>3. CASE Talking
      <4>1. Connecting' = 0 /\ Connecting = 0
        BY <2>1, <3>1 DEF FirstState, Connecting
      <4>2. Len(out') = Len(out) /\ Len(s2c') = Len(s2c)
        BY <3>1
      <4>3. Tokens' = Tokens
        BY <1>n, <3>2, <4>1, <4>2
      <4> QED BY <1>a, <1>c, <3>1, <3>3, <4>3
    <3>4. CASE ~Talking
      BY <1>b, <3>1, <3>4 DEF FirstState
    <3> QED BY <3>3, <3>4
  <2>4. CASE ReadClosed
    BY <1>b, <2>4 DEF ReadClosed, Hangup, socksv5_close
  <2> QED BY <1>1, <2>2, <2>3, <2>4 DEF socksv5_read
<1>2. CASE socksv5_write
  <2>1. ci = "WRITE"
    BY <1>0, <1>2 DEF socksv5_write, Control
  <2>2. CASE WriteSome
    <3> DEFINE n == Accepted(out, s2c)
    <3>1. /\ WriteLastReply(n) \/ WriteReply(n) \/ WriteRelayed(n)
          /\ SendToClient(n) /\ UNCHANGED <<c2s, cwait, cstage, csent>>
          /\ csock \in {"open", "closed"}
      BY <2>2 DEF WriteSome, SendToClient
    <3>2. CASE WriteReply(n)
      <4>1. n = Len(out) /\ Drop(out, n) = << >> /\ Len(out) = 1
        BY <1>0, <2>1, <3>2, ReplySent DEF WriteReply, has_write_handler, Negotiation, TypeOK
      <4>2. /\ out' = << >> /\ in' = in /\ has_write_handler /\ st' = on_write_ready
            /\ ci' = InterestAfterWrite(n)
        BY <3>2, <4>1, Zenon DEF WriteReply, buffer_read_adv
      <4>3. CASE st \in {"HANDSHAKE", "AUTH"}
        <5>1. Connecting' = 0 /\ Connecting = 0
          BY <2>1, <4>2, <4>3 DEF on_write_ready, Connecting
        <5>2. Take(out, n) = out
          BY <1>a, <4>1, SubSeqFull DEF Take
        <5>3. Len(s2c \o out) = Len(s2c) + 1
          BY <1>a, <4>1, ConcatProperties, SMTT(60)
        <5>4. \/ csock = "open" /\ csock' = "open" /\ Len(s2c') = Len(s2c) + 1
              \/ csock' # "open" /\ Len(s2c') = Len(s2c)
          BY <3>1, <5>2, <5>3 DEF SendToClient
        <5>5. Len(out') = 0 /\ Len(in') = Len(in) /\ Len(c2s') = Len(c2s)
          BY <1>z, <3>1, <4>2
        <5>6. Tokens' <= Tokens /\ (csock' = "open" => Tokens' = Tokens)
          BY <1>n, <4>1, <5>1, <5>4, <5>5
        <5> QED BY <1>c, <3>1, <4>3, <5>4, <5>6
      <4>4. CASE st \in {"CONN_REQ", "CONNECTING"}
        <5>1. st' = "COPY"
          BY <4>2, <4>4 DEF on_write_ready
        <5> QED BY <1>b, <5>1
      <4> QED BY <4>2, <4>3, <4>4 DEF has_write_handler
    <3>3. CASE WriteLastReply(n)
      BY <1>b, <3>3 DEF WriteLastReply, socksv5_close
    <3>4. CASE WriteRelayed(n)
      <4>1. st' = "COPY"
        BY <3>4, Zenon DEF WriteRelayed
      <4> QED BY <1>b, <4>1
    <3> QED BY <3>1, <3>2, <3>3, <3>4
  <2>3. CASE WriteAgain \/ WriteSigpipe
    BY <1>d, <2>3 DEF WriteAgain, WriteSigpipe, Crash
  <2>4. CASE WriteError
    BY <1>b, <2>4 DEF WriteError, socksv5_close
  <2> QED BY <1>2, <2>2, <2>3, <2>4 DEF socksv5_write
<1>3. CASE socksv5_block
  <2>1. /\ st = "CONNECTING" /\ ci = "NOOP" /\ out = << >> /\ Connecting = 1 /\ Talking
        /\ UNCHANGED <<c2s, s2c, csock, cwait, cstage, csent>>
    BY <1>0, <1>3 DEF socksv5_block, Resolution, Negotiation, Connecting
  <2>2. ASSUME Len(out') = 1, in' = in, Connecting' = 0
        PROVE  Turns'
    <3>1. Tokens' = Tokens
      BY <1>a, <1>t, <1>z, <2>1, <2>2 DEF Tokens
    <3> QED BY <1>a, <1>c, <2>1, <3>1
  <2>3. in = << >>
    <3>1. Tokens <= 1
      BY <1>h, <2>1 DEF Turns
    <3>2. Len(in) = 0
      BY <1>a, <2>1, <3>1 DEF Tokens
    <3> QED BY <1>a, <3>2, EmptySeq
  <2>4. CASE BlockNoAddress \/ BlockSuccess
    <3>1. PICK m : out' = WithReply(m)
      BY <2>4 DEF BlockNoAddress, BlockSuccess
    <3>2. Len(out') = 1
      BY <2>1, <3>1, EmptyTakesReply
    <3>3. in' = in /\ ci' = "WRITE"
      BY <2>3, <2>4 DEF BlockNoAddress, BlockSuccess
    <3> QED BY <2>2, <3>2, <3>3 DEF Connecting
  <2>5. CASE BlockInProgress
    BY <1>d, <2>1, <2>5 DEF BlockInProgress
  <2>6. CASE BlockFailed
    BY <1>b, <2>6 DEF BlockFailed, socksv5_close
  <2> QED BY <1>3, <2>4, <2>5, <2>6 DEF socksv5_block
<1>4. CASE handshake_read \/ auth_read
  <2>1. CASE pc' = "socksv5_write"
    <3>1. /\ st \in {"HANDSHAKE", "AUTH"} /\ st' = st /\ out = << >> /\ in # << >>
          /\ UNCHANGED <<c2s, s2c, csock, cwait, cstage, csent>>
          /\ in' \in {Tail(in), << >>}
          /\ \E m : out' = WithReply(m)
      BY <1>0, <1>4, <2>1 DEF handshake_read, auth_read, Hangup, Return, Crash, Negotiation
    <3>2. Len(out') = 1
      BY <3>1, EmptyTakesReply
    <3>3. Len(in) >= 1 /\ Len(in') \in {Len(in) - 1, 0}
      BY <1>a, <1>z, <3>1, TailLength
    <3>4. Tokens <= 1
      BY <1>h, <3>1 DEF Turns
    <3>5. Connecting' = 0 /\ Connecting = 0
      BY <3>1 DEF Connecting
    <3>6. Tokens' = Tokens
      BY <1>a, <1>t, <1>z, <3>1, <3>2, <3>3, <3>4, <3>5 DEF Tokens
    <3> QED BY <1>a, <1>c, <3>1, <3>6
  <2>2. CASE Hangup(1)
    BY <1>b, <2>2 DEF Hangup, socksv5_close
  <2>3. CASE Return \/ Crash("aborted")
    BY <1>d, <2>3 DEF Return, Crash
  <2> QED BY <1>4, <2>1, <2>2, <2>3 DEF handshake_read, auth_read
<1>5. CASE connection_req_read
  <2>1. /\ st = "CONN_REQ" /\ ci # "WRITE" /\ in # << >> /\ out = << >> /\ Connecting = 0
        /\ UNCHANGED <<c2s, s2c, csock, cwait, cstage, csent>>
    BY <1>0, <1>5 DEF connection_req_read, Control, Negotiation, Connecting
  <2>2. Len(in) >= 1 /\ Len(Tail(in)) = Len(in) - 1
    BY <1>a, <2>1, TailLength
  <2>3. CASE RequestUnsupported
    <3>1. Len(out') = 1
      BY <2>1, <2>3, EmptyTakesReply DEF RequestUnsupported
    <3>2. in' = Tail(in) /\ Connecting' = 0
      BY <2>3 DEF RequestUnsupported, Connecting
    <3>3. Tokens' = Tokens
      BY <1>a, <1>t, <1>z, <2>1, <2>2, <3>1, <3>2 DEF Tokens
    <3> QED BY <1>a, <1>c, <2>1, <3>3
  <2>4. CASE RequestAddress \/ RequestDomain
    <3>1. in' = Tail(in) /\ Connecting' = 1 /\ out' = out
      BY <2>4 DEF RequestAddress, RequestDomain, Connecting
    <3>2. Tokens' = Tokens
      BY <1>a, <1>t, <2>1, <2>2, <3>1 DEF Tokens
    <3> QED BY <1>a, <1>c, <2>1, <3>2
  <2>5. CASE RequestError
    BY <1>b, <2>5 DEF RequestError, socksv5_close
  <2> QED BY <1>5, <2>3, <2>4, <2>5 DEF connection_req_read
<1>6. CASE handle_write_connecting
  <2>1. /\ st = "CONNECTING" /\ ci = "NOOP" /\ out = << >> /\ Connecting = 1 /\ Talking
        /\ UNCHANGED <<c2s, s2c, csock, cwait, cstage, csent>>
    BY <1>0, <1>6 DEF handle_write_connecting, Control, Negotiation, Connecting
  <2>2. CASE RetryInProgress \/ RetryNoSocket
    BY <1>d, <2>1, <2>2 DEF RetryInProgress, RetryNoSocket
  <2>3. CASE RetryFailed
    <3>1. PICK m : out' = WithReply(m)
      BY <2>3 DEF RetryFailed
    <3>2. Len(out') = 1
      BY <2>1, <3>1, EmptyTakesReply
    <3>3. in' = in /\ Connecting' = 0
      BY <2>3 DEF RetryFailed, Connecting
    <3>4. Tokens' = Tokens
      BY <1>a, <1>t, <1>z, <2>1, <3>2, <3>3 DEF Tokens
    <3> QED BY <1>a, <1>c, <2>1, <3>4
  <2>4. CASE Connected
    BY <1>b, <2>4 DEF Connected
  <2> QED BY <1>6, <2>2, <2>3, <2>4 DEF handle_write_connecting
<1>7. CASE copy_read \/ copy_write_handler \/ copy_read_handler
  <2>1. st = "COPY"
    BY <1>0, <1>7 DEF copy_read, copy_write_handler, copy_read_handler, Control
  <2>2. st' \in {"COPY", "FREED"}
    BY <1>7, <2>1 DEF copy_read, copy_write_handler, copy_read_handler, CopyNoOrigin,
                      CopyWrite, CopySome, CopyAgain, CopyError, CopySigpipe, OriginFull,
                      OriginData, OriginEof, OriginError, Hangup, socksv5_close, Crash
  <2> QED BY <1>b, <2>2
<1>8. CASE connecting_on_block_ready \/ selector_select_EBADF \/ resolve_host_name
  BY <1>d, <1>8 DEF connecting_on_block_ready, selector_select_EBADF, resolve_host_name, Return, Crash
<1>9. CASE ClientHello \/ ClientAuth \/ ClientRequest \/ ClientGarbage
  <2>1. /\ csock = "open" /\ cwait = 0 /\ cwait' = cwait + 1
        /\ UNCHANGED <<st, ci, in, out, s2c, csock, csent>>
        /\ \E m \in Message : c2s' = Append(c2s, m)
    <3>1. MaySend /\ cwait' = cwait + 1 /\ UNCHANGED <<st, ci, in, out, s2c, csock, csent>>
      BY <1>9 DEF ClientHello, ClientAuth, ClientRequest, ClientGarbage
    <3>2. \E m \in Message : c2s' = Append(c2s, m)
      <4>1. /\ \A v \in Methods : Msg("hello", v) \in Message
            /\ \A v \in Creds : Msg("auth", v) \in Message
            /\ \A v \in Requests : Msg("req", v) \in Message
            /\ Msg("garbage", 0) \in Message
        BY MessageType, InputsAssumption
      <4> QED BY <1>9, <4>1 DEF ClientHello, ClientAuth, ClientRequest, ClientGarbage
    <3> QED BY <3>1, <3>2 DEF MaySend, NoPipeline
  <2>2. CASE Talking
    <3>1. Len(c2s') = Len(c2s) + 1 /\ Connecting' = Connecting
      BY <1>a, <2>1, AppendProperties DEF Connecting
    <3>2. Tokens = 0
      BY <1>h, <2>1, <2>2 DEF Turns
    <3>3. Tokens' = 1
      BY <1>a, <1>t, <2>1, <3>1, <3>2 DEF Tokens
    <3>4. csent' = 0 /\ cwait' = 1
      BY <1>h, <2>1, <2>2 DEF Turns
    <3> QED BY <3>3, <3>4 DEF Turns
  <2>3. CASE ~Talking
    BY <1>b, <2>1, <2>3
  <2> QED BY <2>2, <2>3
<1>10. CASE ClientData
  <2>1. cstage = "data" /\ csock = "open" /\ cwait = 0 /\ st' = st
    BY <1>10 DEF ClientData, MaySend, NoPipeline
  <2>2. ~Talking
    BY <1>h, <2>1 DEF Turns
  <2> QED BY <1>b, <2>1, <2>2
<1>11. CASE ClientRecv
  <2>1. /\ s2c # << >> /\ s2c' = Tail(s2c) /\ csock = "open"
        /\ UNCHANGED <<st, ci, in, out, c2s, cstage, csent>>
        /\ cwait' = IF Head(s2c).t = "data" THEN cwait ELSE cwait - 1
    BY <1>11 DEF ClientRecv
  <2>2. CASE Talking
    <3>1. Len(s2c) >= 1 /\ Len(s2c') = Len(s2c) - 1
      BY <1>a, <2>1, TailLength
    <3>2. Head(s2c).t # "data"
      <4>1. 1 \in 1..Len(s2c) /\ Head(s2c) = s2c[1]
        BY <1>a, <2>1, <3>1
      <4> QED BY <1>h, <2>2, <4>1 DEF BeforeRelay
    <3>3. Connecting' = Connecting
      BY <2>1 DEF Connecting
    <3>4. Tokens' = Tokens - 1
      BY <1>a, <1>t, <2>1, <3>1, <3>3 DEF Tokens
    <3>5. cstage # "data"
      BY <1>h, <2>1, <2>2 DEF Stages
    <3> QED BY <1>a, <1>h, <2>1, <2>2, <3>2, <3>4, <3>5 DEF Turns
  <2>3. CASE ~Talking
    BY <1>b, <2>1, <2>3
  <2> QED BY <2>2, <2>3
<1>12. CASE ClientSeesClose \/ ClientClose
  BY <1>d, <1>12 DEF ClientSeesClose, ClientClose
<1>13. CASE ConnectEnds \/ Origin
  BY <1>d, <1>13 DEF ConnectEnds, Origin, OriginRecv, OriginSend, OriginClose
<1>14. CASE UNCHANGED vars
  BY <1>d, <1>14 DEF vars
<1> QED BY <1>1, <1>2, <1>3, <1>4, <1>5, <1>6, <1>7, <1>8, <1>9, <1>10, <1>11, <1>12, <1>13,
           <1>14 DEF Next, MainThread, Client

(* Every step preserves Stages. *)
LEMMA StagesStep ==
  ASSUME NoPipeline, IndInv, RelayInv, TurnInv, [Next]_vars
  PROVE  Stages'
<1> USE DEF thread, sel, bufs, negot, conn, metrics, cl, og, peers, wire, server,
            Idle, Running, Goto, Call, Ends
<1> DEFINE Talking == st \notin {"COPY", "FREED"}
<1>0. TypeOK /\ Control /\ Resolution /\ Negotiation
  BY DEF IndInv
<1>h. Ending /\ BeforeRelay /\ Answer /\ Turns /\ Stages
  BY DEF RelayInv, TurnInv
<1>a. /\ in \in Seq(Message) /\ out \in Seq(Message)
      /\ c2s \in Seq(Message) /\ s2c \in Seq(Message)
      /\ Len(c2s) \in Nat /\ Len(in) \in Nat /\ Len(out) \in Nat /\ Len(s2c) \in Nat
      /\ Connecting \in {0, 1} /\ Tokens \in Nat
  BY <1>0, TokenTypes DEF TypeOK
<1>l. cstage' = cstage => Last' = Last
  BY DEF Last
<1>b. ASSUME st' = "FREED" \/ (st' = "COPY" /\ cstage' = "data")
      PROVE  Stages'
  BY <1>b DEF Stages
<1>c. ASSUME Talking, st' \notin {"CONNECTING", "COPY"} \/ (st' = st /\ st = "CONNECTING"),
             UNCHANGED <<c2s, cstage, s2c>>,
             in' \in {in, << >>} \/ (in # << >> /\ in' = Tail(in)),
             st' \notin {"HANDSHAKE", "AUTH"} \/ (st' = st /\ out' = out)
      PROVE  Stages'
  <2>1. c2s \in Seq(Last) /\ in \in Seq(Last)
    BY <1>c, <1>h DEF Stages
  <2>2. in' \in Seq(Last)
    BY <1>c, <2>1, EmptySeq, HeadTailType
  <2> QED BY <1>c, <1>h, <1>l, <2>1, <2>2 DEF Stages
<1>d. ASSUME UNCHANGED <<st, in, out, c2s, s2c, cstage>>
      PROVE  Stages'
  BY <1>d, <1>h, <1>l DEF Stages
<1>1. CASE socksv5_read
  <2>1. ci = "READ"
    BY <1>1 DEF socksv5_read
  <2>2. CASE ReadFull
    BY <1>d, <2>2 DEF ReadFull
  <2>3. CASE ReadData
    <3>1. UNCHANGED <<out, s2c, cstage>> /\ st' = FirstState
      BY <2>3 DEF ReadData
    <3>2. CASE Talking
      <4>1. c2s \in Seq(Last) /\ in \in Seq(Last)
        BY <1>h, <3>2 DEF Stages
      <4>2. c2s' \in Seq(Last) /\ in' \in Seq(Last)
        BY <2>3, <4>1, RecvType DEF ReadData
      <4>3. st' \in {"HANDSHAKE", "AUTH"} => out = << >>
        BY <1>0, <2>1, <3>2 DEF Negotiation
      <4>4. st # "CONNECTING" /\ st' \notin {"CONNECTING", "COPY"}
        BY <1>0, <2>1, <3>1, <3>2 DEF Control, FirstState
      <4> QED BY <1>h, <1>l, <3>1, <3>2, <4>2, <4>3, <4>4 DEF Stages
    <3>3. CASE ~Talking
      BY <1>b, <1>h, <3>1, <3>3 DEF FirstState, Stages
    <3> QED BY <3>2, <3>3
  <2>4. CASE ReadClosed
    BY <1>b, <2>4 DEF ReadClosed, Hangup, socksv5_close
  <2> QED BY <1>1, <2>2, <2>3, <2>4 DEF socksv5_read
<1>2. CASE socksv5_write
  <2>1. ci = "WRITE"
    BY <1>0, <1>2 DEF socksv5_write, Control
  <2>2. CASE WriteSome
    <3> DEFINE n == Accepted(out, s2c)
    <3>1. /\ WriteLastReply(n) \/ WriteReply(n) \/ WriteRelayed(n)
          /\ SendToClient(n) /\ UNCHANGED <<c2s, cstage>>
          /\ n > 0
      BY <2>2 DEF WriteSome, SendToClient
    <3>2. CASE WriteReply(n)
      <4>1. n = Len(out) /\ Drop(out, n) = << >> /\ Len(out) = 1
        BY <1>0, <2>1, <3>2, ReplySent DEF WriteReply, has_write_handler, Negotiation, TypeOK
      <4>2. out' = << >> /\ in' = in /\ ~err /\ has_write_handler /\ st' = on_write_ready
        BY <3>2, <4>1, Zenon DEF WriteReply, buffer_read_adv
      <4>3. CASE st \in {"HANDSHAKE", "AUTH"}
        <5>1. st' \in {"AUTH", "CONN_REQ"}
          BY <4>2, <4>3 DEF on_write_ready
        <5>2. out # << >>
          BY <4>1
        <5>3. cstage \in {"auth", "req"} /\ c2s \in Seq(Last) /\ in \in Seq(Last)
          BY <1>h, <4>3, <5>2 DEF Stages
        <5> QED BY <1>l, <3>1, <4>2, <5>1, <5>3 DEF Stages
      <4>4. CASE st = "CONNECTING"
        BY <1>b, <1>h, <3>1, <4>2, <4>4 DEF on_write_ready, Stages
      <4>5. CASE st = "CONN_REQ"
        BY <1>h, <2>1, <4>2, <4>5 DEF Ending
      <4> QED BY <4>2, <4>3, <4>4, <4>5 DEF has_write_handler
    <3>3. CASE WriteLastReply(n)
      BY <1>b, <3>3 DEF WriteLastReply, socksv5_close
    <3>4. CASE WriteRelayed(n)
      <4>1. st = "COPY" /\ st' = "COPY"
        BY <3>4, Zenon DEF WriteRelayed
      <4> QED BY <1>b, <1>h, <3>1, <4>1 DEF Stages
    <3> QED BY <3>1, <3>2, <3>3, <3>4
  <2>3. CASE WriteAgain \/ WriteSigpipe
    BY <1>d, <2>3 DEF WriteAgain, WriteSigpipe, Crash
  <2>4. CASE WriteError
    BY <1>b, <2>4 DEF WriteError, socksv5_close
  <2> QED BY <1>2, <2>2, <2>3, <2>4 DEF socksv5_write
<1>3. CASE socksv5_block
  <2>1. st = "CONNECTING" /\ UNCHANGED <<c2s, s2c, cstage>>
    BY <1>0, <1>3 DEF socksv5_block, Resolution
  <2>2. CASE BlockNoAddress \/ BlockInProgress \/ BlockSuccess
    <3>1. st' \in {"CONN_REQ", "CONNECTING"} /\ in' \in {in, << >>}
      BY <2>1, <2>2 DEF BlockNoAddress, BlockInProgress, BlockSuccess
    <3> QED BY <1>c, <2>1, <3>1
  <2>3. CASE BlockFailed
    BY <1>b, <2>3 DEF BlockFailed, socksv5_close
  <2> QED BY <1>3, <2>2, <2>3 DEF socksv5_block
<1>4. CASE handshake_read \/ auth_read
  <2>1. CASE pc' = "socksv5_write"
    <3>1. /\ st \in {"HANDSHAKE", "AUTH"} /\ st' = st /\ in # << >>
          /\ UNCHANGED <<c2s, s2c, cstage>>
          /\ in' \in {Tail(in), << >>}
          /\ Head(in).t \in {"hello", "auth"}
      BY <1>0, <1>4, <2>1 DEF handshake_read, auth_read, Hangup, Return, Crash
    <3>2. c2s \in Seq(Last) /\ in \in Seq(Last)
      BY <1>h, <3>1 DEF Stages
    <3>3. Head(in) \in Last /\ Tail(in) \in Seq(Last) /\ << >> \in Seq(Last)
      BY <3>1, <3>2, HeadTailType, EmptySeq
    <3>4. cstage \in {"auth", "req"}
      BY <3>1, <3>3 DEF Last
    <3> QED BY <1>l, <3>1, <3>2, <3>3, <3>4 DEF Stages
  <2>2. CASE Hangup(1)
    BY <1>b, <2>2 DEF Hangup, socksv5_close
  <2>3. CASE Return \/ Crash("aborted")
    BY <1>d, <2>3 DEF Return, Crash
  <2> QED BY <1>4, <2>1, <2>2, <2>3 DEF handshake_read, auth_read
<1>5. CASE connection_req_read
  <2>1. st = "CONN_REQ" /\ in # << >> /\ UNCHANGED <<c2s, s2c, cstage>>
    BY <1>0, <1>5 DEF connection_req_read, Control
  <2>2. CASE RequestUnsupported
    <3>1. in' = Tail(in) /\ st' = st
      BY <2>2 DEF RequestUnsupported
    <3> QED BY <1>c, <2>1, <3>1
  <2>3. CASE RequestAddress \/ RequestDomain
    <3>1. in' = Tail(in) /\ st' = "CONNECTING" /\ Head(in).t = "req"
      BY <2>3 DEF RequestAddress, RequestDomain, Asks
    <3>2. c2s \in Seq(Last) /\ in \in Seq(Last) /\ (s2c # << >> => cstage \in {"auth", "req"})
      BY <1>h, <2>1 DEF Stages
    <3>3. Head(in) \in Last /\ Tail(in) \in Seq(Last)
      BY <2>1, <3>2, HeadTailType
    <3>4. cstage = "data"
      BY <3>1, <3>3 DEF Last
    <3> QED BY <1>l, <2>1, <3>1, <3>2, <3>3, <3>4 DEF Stages
  <2>4. CASE RequestError
    BY <1>b, <2>4 DEF RequestError, socksv5_close
  <2> QED BY <1>5, <2>2, <2>3, <2>4 DEF connection_req_read
<1>6. CASE handle_write_connecting
  <2>1. st = "CONNECTING" /\ UNCHANGED <<c2s, s2c, cstage>>
    BY <1>0, <1>6 DEF handle_write_connecting, Control
  <2>2. CASE RetryInProgress \/ RetryNoSocket \/ RetryFailed
    <3>1. st' = st /\ in' = in
      BY <2>2 DEF RetryInProgress, RetryNoSocket, RetryFailed
    <3> QED BY <1>c, <2>1, <3>1
  <2>3. CASE Connected
    BY <1>b, <1>h, <2>1, <2>3 DEF Connected, Stages
  <2> QED BY <1>6, <2>2, <2>3 DEF handle_write_connecting
<1>7. CASE copy_read \/ copy_write_handler \/ copy_read_handler
  <2>1. st = "COPY"
    BY <1>0, <1>7 DEF copy_read, copy_write_handler, copy_read_handler, Control
  <2>2. st' \in {"COPY", "FREED"} /\ cstage' = cstage
    BY <1>7, <2>1 DEF copy_read, copy_write_handler, copy_read_handler, CopyNoOrigin,
                      CopyWrite, CopySome, CopyAgain, CopyError, CopySigpipe, OriginFull,
                      OriginData, OriginEof, OriginError, Hangup, socksv5_close, Crash
  <2> QED BY <1>b, <1>h, <2>1, <2>2 DEF Stages
<1>8. CASE connecting_on_block_ready \/ selector_select_EBADF \/ resolve_host_name
  BY <1>d, <1>8 DEF connecting_on_block_ready, selector_select_EBADF, resolve_host_name, Return, Crash
<1>9. CASE ClientHello \/ ClientAuth \/ ClientRequest \/ ClientGarbage
  <2>1. /\ csock = "open" /\ cwait = 0 /\ cstage # "data"
        /\ UNCHANGED <<st, in, out, s2c>>
    BY <1>9 DEF ClientHello, ClientAuth, ClientRequest, ClientGarbage, MaySend, NoPipeline
  <2>2. CASE st = "FREED"
    BY <1>b, <2>1, <2>2
  <2>3. CASE Talking
    <3>1. Tokens = 0
      BY <1>h, <2>1, <2>3 DEF Turns
    <3>2. Len(in) = 0 /\ Len(c2s) = 0 /\ Len(out) = 0 /\ Len(s2c) = 0
      BY <1>a, <3>1 DEF Tokens
    <3>3. in = << >> /\ c2s = << >> /\ out = << >> /\ s2c = << >>
      BY <1>a, <3>2, EmptySeq
    <3>4. \E m \in Last' : c2s' = Append(c2s, m)
      <4>1. /\ \A v \in Methods : Msg("hello", v) \in Message
            /\ \A v \in Creds : Msg("auth", v) \in Message
            /\ \A v \in Requests : Msg("req", v) \in Message
            /\ Msg("garbage", 0) \in Message
        BY MessageType, InputsAssumption
      <4>2. CASE ClientHello
        <5>1. cstage' \in {"auth", "req"}
          BY <4>2 DEF ClientHello
        <5>2. \A v \in Methods : Msg("hello", v) \in Last'
          BY <4>1, <5>1 DEF Last, Msg
        <5> QED BY <4>2, <5>2 DEF ClientHello
      <4>3. CASE ClientAuth
        <5>1. \A v \in Creds : Msg("auth", v) \in Last'
          BY <4>1, <4>3 DEF ClientAuth, Last, Msg
        <5> QED BY <4>3, <5>1 DEF ClientAuth
      <4>4. CASE ClientRequest
        <5>1. \A v \in Requests : Msg("req", v) \in Last'
          BY <4>1, <4>4 DEF ClientRequest, Last, Msg
        <5> QED BY <4>4, <5>1 DEF ClientRequest
      <4>5. CASE ClientGarbage
        <5>1. Msg("garbage", 0) \in Last'
          BY <4>1 DEF Last, Msg
        <5> QED BY <4>5, <5>1 DEF ClientGarbage
      <4> QED BY <1>9, <4>2, <4>3, <4>4, <4>5
    <3>5. c2s' \in Seq(Last') /\ in' \in Seq(Last')
      <4>1. << >> \in Seq(Last')
        BY EmptySeq
      <4>2. c2s' \in Seq(Last')
        BY <3>3, <3>4, <4>1, AppendProperties
      <4> QED BY <2>1, <3>3, <4>1, <4>2
    <3>6. st # "CONNECTING"
      BY <1>h, <2>1 DEF Stages
    <3> QED BY <2>1, <2>3, <3>3, <3>5, <3>6 DEF Stages
  <2>4. CASE st = "COPY"
    BY <1>h, <2>1, <2>4 DEF Stages
  <2> QED BY <2>2, <2>3, <2>4
<1>10. CASE ClientData
  <2>1. cstage = "data" /\ csock = "open" /\ cwait = 0 /\ st' = st /\ cstage' = cstage
    BY <1>10 DEF ClientData, MaySend, NoPipeline
  <2>2. ~Talking
    BY <1>h, <2>1 DEF Turns
  <2> QED BY <1>b, <2>1, <2>2
<1>11. CASE ClientRecv
  <2>1. s2c # << >> /\ UNCHANGED <<st, in, out, c2s, cstage>>
    BY <1>11 DEF ClientRecv
  <2> QED BY <1>h, <1>l, <2>1 DEF Stages
<1>12. CASE ClientSeesClose \/ ClientClose
  BY <1>d, <1>12 DEF ClientSeesClose, ClientClose
<1>13. CASE ConnectEnds \/ Origin
  BY <1>d, <1>13 DEF ConnectEnds, Origin, OriginRecv, OriginSend, OriginClose
<1>14. CASE UNCHANGED vars
  BY <1>d, <1>14 DEF vars
<1> QED BY <1>1, <1>2, <1>3, <1>4, <1>5, <1>6, <1>7, <1>8, <1>9, <1>10, <1>11, <1>12, <1>13,
           <1>14 DEF Next, MainThread, Client

(* What moves from the head of a queue to the end of the one before it is    *)
(* still in its place in the two together.                                   *)
LEMMA MoveKeepsOrder ==
  ASSUME NEW a \in Seq(Message), NEW b \in Seq(Message), NEW n \in Nat, n <= Len(b)
  PROVE  (a \o Take(b, n)) \o Drop(b, n) = a \o b
<1> DEFINE x == Take(b, n)
<1> DEFINE y == Drop(b, n)
<1>1. x \in Seq(Message) /\ y \in Seq(Message)
  <2>1. n \in Int /\ 0 <= n
    OBVIOUS
  <2> QED BY <2>1, TakeDropType
<1>2. x \o y = b
  BY TakeThenDrop
<1> HIDE DEF x, y
<1>3. (a \o x) \o y = a \o (x \o y)
  BY <1>1, Regroup, Zenon
<1>4. (a \o x) \o y = a \o b
  BY <1>2, <1>3
<1> QED BY <1>4 DEF x, y

(* The same for the peer that reads the head of its queue. *)
LEMMA ReadKeepsOrder ==
  ASSUME NEW a \in Seq(Message), NEW q \in Seq(Message), q # << >>
  PROVE  Append(a, Head(q)) \o Tail(q) = a \o q
<1>1. Len(q) \in Nat /\ Len(q) # 0 /\ Head(q) = q[1]
  BY LenProperties, EmptySeq
<1>2. Head(q) \in Message /\ Tail(q) \in Seq(Message)
  BY HeadTailType
<1> DEFINE h == <<Head(q)>>
<1> DEFINE u == Tail(q)
<1>3. Append(a, Head(q)) = a \o h /\ h \in Seq(Message)
  BY <1>2, AppendIsConcat
<1>4. q = h \o u
  <2>1. 1 \in 1..Len(q) /\ Len(q) \in 1..Len(q)
    BY <1>1
  <2>2. SubSeq(q, 1, Len(q)) = <<q[1]>> \o SubSeq(q, 2, Len(q))
    BY <2>1, SubSeqRecursiveFirst
  <2>3. Tail(q) = SubSeq(q, 2, Len(q))
    BY TailIsSubSeq
  <2> QED BY <1>1, <2>2, <2>3, SubSeqFull
<1>5. u \in Seq(Message)
  BY <1>2
<1> HIDE DEF h, u
<1>6. (a \o h) \o u = a \o (h \o u)
  BY <1>3, <1>5, Regroup, Zenon
<1>7. Append(a, Head(q)) \o u = a \o q
  BY <1>3, <1>4, <1>6
<1> QED BY <1>7 DEF u

(* A piece that is added to the last queue is added to all of them.          *)
LEMMA AddToTheLast ==
  ASSUME NEW a \in Seq(Message), NEW b \in Seq(Message), NEW m \in Message
  PROVE  a \o Append(b, m) = Append(a \o b, m)
<1>1. Append(b, m) = b \o <<m>> /\ <<m>> \in Seq(Message)
  BY AppendIsConcat
<1>2. a \o b \in Seq(Message)
  BY ConcatProperties
<1>3. Append(a \o b, m) = (a \o b) \o <<m>>
  BY <1>2, AppendIsConcat
<1>4. (a \o b) \o <<m>> = a \o (b \o <<m>>)
  BY <1>1, Regroup
<1> QED BY <1>1, <1>3, <1>4

(* Every step preserves RelayToOrigin. *)
LEMMA RelayToOriginStep ==
  ASSUME NoPipeline, IndInv, RelayInv, TurnInv, [Next]_vars
  PROVE  RelayToOrigin'
<1> USE DEF thread, sel, bufs, negot, conn, metrics, cl, og, peers, wire, server,
            Idle, Running, Goto, Call, Ends
<1>0. TypeOK /\ Control /\ Resolution /\ Negotiation
  BY DEF IndInv
<1>h. Ending /\ BeforeRelay /\ Answer /\ Turns /\ Stages /\ RelayToOrigin
  BY DEF RelayInv, TurnInv
<1>a. /\ in \in Seq(Message) /\ out \in Seq(Message)
      /\ c2s \in Seq(Message) /\ s2o \in Seq(Message) /\ orecv \in Seq(Message)
      /\ csent \in Nat
  BY <1>0 DEF TypeOK
<1>n. /\ Len(c2s) \in Nat /\ Len(in) \in Nat /\ Len(out) \in Nat /\ Len(s2c) \in Nat
      /\ Connecting \in {0, 1}
  BY <1>0, TokenTypes
<1>b. ASSUME st' # "COPY" \/ osock' # "est"
      PROVE  RelayToOrigin'
  BY <1>b DEF RelayToOrigin
<1>c. ASSUME st' = "COPY" => st = "COPY", osock' = "est" => osock = "est",
             UNCHANGED <<orecv, s2o, in, c2s, csent>>
      PROVE  RelayToOrigin'
  <2>1. CASE st' = "COPY" /\ osock' = "est"
    <3>1. orecv \o s2o \o in \o c2s = Data(csent)
      BY <1>c, <1>h, <2>1 DEF RelayToOrigin
    <3> QED BY <1>c, <3>1 DEF RelayToOrigin
  <2> QED BY <1>b, <2>1
<1>s. ASSUME st \notin {"COPY", "FREED"}, in' = << >>, Tokens <= 1,
             Connecting = 1 \/ Len(out) = 1,
             UNCHANGED <<orecv, s2o, c2s, csent>>
      PROVE  RelayToOrigin'
  <2>1. orecv = << >> /\ s2o = << >> /\ csent = 0
    BY <1>h, <1>s DEF BeforeRelay, Turns
  <2>2. Len(c2s) = 0
    BY <1>n, <1>s DEF Tokens
  <2>3. c2s = << >>
    BY <1>a, <2>2, EmptySeq
  <2>4. Data(0) = << >>
    <3>1. Data(0) \in Seq(Message) /\ Len(Data(0)) = 0
      BY DataIs
    <3> QED BY <3>1, EmptySeq
  <2>5. << >> \o << >> \o << >> \o << >> = << >>
    OBVIOUS
  <2> QED BY <1>s, <2>1, <2>3, <2>4, <2>5 DEF RelayToOrigin
<1>1. CASE socksv5_read
  <2>1. CASE ReadFull
    BY <1>c, <2>1 DEF ReadFull
  <2>2. CASE ReadData
    <3> DEFINE n == Least(Len(c2s), Room(in))
    <3>1. /\ in' = in \o Take(c2s, n) /\ c2s' = Drop(c2s, n) /\ st' = FirstState
          /\ UNCHANGED <<orecv, s2o, csent, osock>>
      BY <2>2 DEF ReadData
    <3>2. n \in Nat /\ n <= Len(c2s)
      BY <1>a, <2>2, RecvType DEF ReadData
    <3> HIDE DEF n
    <3>3. CASE st' = "COPY" /\ osock' = "est"
      <4> DEFINE a == orecv \o s2o
      <4> DEFINE x == Take(c2s, n)
      <4>1. (a \o in) \o c2s = Data(csent)
        BY <1>h, <3>1, <3>3 DEF RelayToOrigin, FirstState
      <4>2. a \in Seq(Message) /\ x \in Seq(Message)
        <5>1. n \in Int /\ 0 <= n
          BY <3>2
        <5> QED BY <1>a, <3>2, <5>1, TakeDropType, ConcatProperties
      <4> HIDE DEF a
      <4>3. a \o in \in Seq(Message)
        BY <1>a, <4>2, ConcatProperties
      <4>4. ((a \o in) \o x) \o Drop(c2s, n) = (a \o in) \o c2s
        BY <1>a, <3>2, <4>3, MoveKeepsOrder
      <4> HIDE DEF x
      <4>5. (a \o in) \o x = a \o (in \o x)
        <5>1. a \in Seq(Message) /\ in \in Seq(Message) /\ x \in Seq(Message)
          BY <1>a, <4>2 DEF x
        <5> QED BY <5>1, Regroup, Zenon
      <4>6. in' = in \o x
        BY <3>1 DEF x
      <4>7. (a \o in') \o c2s' = Data(csent)
        BY <3>1, <4>1, <4>4, <4>5, <4>6
      <4> QED BY <3>1, <4>7 DEF RelayToOrigin, a
    <3> QED BY <1>b, <3>3
  <2>3. CASE ReadClosed
    BY <1>b, <2>3 DEF ReadClosed, Hangup, socksv5_close
  <2> QED BY <1>1, <2>1, <2>2, <2>3 DEF socksv5_read
<1>2. CASE socksv5_write
  <2>1. ci = "WRITE"
    BY <1>0, <1>2 DEF socksv5_write, Control
  <2>2. CASE WriteSome
    <3> DEFINE n == Accepted(out, s2c)
    <3>1. /\ WriteLastReply(n) \/ WriteReply(n) \/ WriteRelayed(n)
          /\ UNCHANGED <<csent, c2s, s2o>>
      BY <2>2 DEF WriteSome, SendToClient
    <3>2. CASE WriteReply(n)
      <4>1. /\ ~err /\ has_write_handler /\ st' = on_write_ready
            /\ UNCHANGED <<in, orecv, osock>>
        BY <3>2, Zenon DEF WriteReply
      <4>2. CASE st = "CONNECTING"
        <5>1. in = << >> /\ Len(out) = 1
          BY <1>0, <1>h, <2>1, <4>1, <4>2 DEF Answer, Negotiation
        <5>2. Tokens <= 1
          BY <1>h, <4>2 DEF Turns
        <5> QED BY <1>s, <3>1, <4>1, <4>2, <5>1, <5>2
      <4>3. CASE st = "CONN_REQ"
        BY <1>h, <2>1, <4>1, <4>3 DEF Ending
      <4>4. CASE st \in {"HANDSHAKE", "AUTH"}
        BY <1>b, <4>1, <4>4 DEF on_write_ready
      <4> QED BY <4>1, <4>2, <4>3, <4>4 DEF has_write_handler
    <3>3. CASE WriteLastReply(n)
      BY <1>b, <3>3 DEF WriteLastReply, socksv5_close
    <3>4. CASE WriteRelayed(n)
      <4>1. st = "COPY" /\ UNCHANGED <<in, orecv, osock>>
        BY <3>4, Zenon DEF WriteRelayed
      <4> QED BY <1>c, <3>1, <4>1
    <3> QED BY <3>1, <3>2, <3>3, <3>4
  <2>3. CASE WriteAgain \/ WriteSigpipe
    BY <1>c, <2>3 DEF WriteAgain, WriteSigpipe, Crash
  <2>4. CASE WriteError
    BY <1>b, <2>4 DEF WriteError, socksv5_close
  <2> QED BY <1>2, <2>2, <2>3, <2>4 DEF socksv5_write
<1>3. CASE socksv5_block
  <2>1. st = "CONNECTING"
    BY <1>0, <1>3 DEF socksv5_block, Resolution
  <2>2. st' # "COPY"
    BY <1>3, <2>1 DEF socksv5_block, BlockNoAddress, BlockInProgress, BlockSuccess,
                      BlockFailed, socksv5_close
  <2> QED BY <1>b, <2>2
<1>4. CASE handshake_read \/ auth_read
  <2>1. CASE pc' = "socksv5_write"
    <3>1. st \in {"HANDSHAKE", "AUTH"} /\ st' = st
      BY <1>4, <2>1 DEF handshake_read, auth_read, Hangup, Return, Crash
    <3> QED BY <1>b, <3>1
  <2>2. CASE Hangup(1)
    BY <1>b, <2>2 DEF Hangup, socksv5_close
  <2>3. CASE Return \/ Crash("aborted")
    BY <1>c, <2>3 DEF Return, Crash
  <2> QED BY <1>4, <2>1, <2>2, <2>3 DEF handshake_read, auth_read
<1>5. CASE connection_req_read
  <2>1. st = "CONN_REQ"
    BY <1>0, <1>5 DEF connection_req_read, Control
  <2>2. st' # "COPY"
    BY <1>5, <2>1 DEF connection_req_read, RequestUnsupported, RequestAddress, RequestDomain,
                      RequestError, socksv5_close
  <2> QED BY <1>b, <2>2
<1>6. CASE handle_write_connecting
  <2>1. st = "CONNECTING" /\ Connecting = 1
    BY <1>0, <1>6 DEF handle_write_connecting, Control, Connecting
  <2>2. CASE RetryInProgress \/ RetryNoSocket \/ RetryFailed
    BY <1>b, <2>1, <2>2 DEF RetryInProgress, RetryNoSocket, RetryFailed
  <2>3. CASE Connected
    <3>1. in' = << >> /\ UNCHANGED <<orecv, s2o, c2s, csent>>
      BY <1>6, <2>3 DEF handle_write_connecting, Connected
    <3>2. Tokens <= 1
      BY <1>h, <2>1 DEF Turns
    <3> QED BY <1>s, <2>1, <3>1, <3>2
  <2> QED BY <1>6, <2>2, <2>3 DEF handle_write_connecting
<1>7. CASE copy_read \/ copy_write_handler
  <2>1. CASE CopyNoOrigin
    BY <1>b, <2>1 DEF CopyNoOrigin, Hangup, socksv5_close
  <2>2. CASE CopySome
    <3> DEFINE n == Accepted(in, s2o)
    <3>1. /\ s2o' = IF osock = "est" THEN s2o \o Take(in, n) ELSE s2o
          /\ osock' = IF osock = "closed" THEN "broken" ELSE osock
          /\ in' = Drop(in, n) /\ UNCHANGED <<st, orecv, c2s, csent>>
      BY <2>2 DEF CopySome
    <3>2. n \in Nat /\ n <= Len(in)
      BY <1>0, <2>2, SendType DEF CopySome, TypeOK
    <3> HIDE DEF n
    <3>3. CASE st' = "COPY" /\ osock' = "est"
      <4> DEFINE a == orecv \o s2o
      <4> DEFINE x == Take(in, n)
      <4>1. osock = "est" /\ s2o' = s2o \o x
        BY <3>1, <3>3
      <4>2. (a \o in) \o c2s = Data(csent)
        BY <1>h, <3>1, <3>3, <4>1 DEF RelayToOrigin
      <4>3. a \in Seq(Message) /\ x \in Seq(Message)
        <5>1. n \in Int /\ 0 <= n
          BY <3>2
        <5> QED BY <1>a, <3>2, <5>1, TakeDropType, ConcatProperties
      <4>4. (a \o x) \o Drop(in, n) = a \o in
        BY <1>a, <3>2, <4>3, MoveKeepsOrder
      <4> HIDE DEF x
      <4>5. a \o x = orecv \o s2o'
        BY <1>a, <4>1, <4>3, Regroup, ZenonT(60)
      <4> HIDE DEF a
      <4>6. (orecv \o s2o') \o in' = a \o in
        BY <3>1, <4>4, <4>5
      <4>7. ((orecv \o s2o') \o in') \o c2s = Data(csent)
        BY <4>2, <4>6
      <4> QED BY <3>1, <4>7 DEF RelayToOrigin
    <3> QED BY <1>b, <3>3
  <2>3. CASE CopyAgain \/ CopySigpipe
    BY <1>c, <2>3 DEF CopyAgain, CopySigpipe, Crash
  <2>4. CASE CopyError
    BY <1>b, <2>4 DEF CopyError, socksv5_close
  <2> QED BY <1>7, <2>1, <2>2, <2>3, <2>4 DEF copy_read, copy_write_handler, CopyWrite
<1>8. CASE copy_read_handler
  <2>1. CASE OriginFull \/ OriginData \/ OriginEof
    BY <1>8, <1>c, <2>1 DEF OriginFull, OriginData, OriginEof
  <2>2. CASE OriginError
    BY <1>b, <2>2 DEF OriginError, Hangup, socksv5_close
  <2> QED BY <1>8, <2>1, <2>2 DEF copy_read_handler
<1>9. CASE connecting_on_block_ready \/ selector_select_EBADF \/ resolve_host_name
  BY <1>c, <1>9 DEF connecting_on_block_ready, selector_select_EBADF, resolve_host_name, Return, Crash
<1>10. CASE ClientHello \/ ClientAuth \/ ClientRequest \/ ClientGarbage
  <2>1. cstage # "data" /\ st' = st
    BY <1>10 DEF ClientHello, ClientAuth, ClientRequest, ClientGarbage
  <2>2. st' # "COPY"
    BY <1>h, <2>1 DEF Stages
  <2> QED BY <1>b, <2>2
<1>11. CASE ClientData
  <2> DEFINE m == Msg("data", csent + 1)
  <2>1. /\ c2s' = Append(c2s, m) /\ csent' = csent + 1
        /\ UNCHANGED <<st, osock, orecv, s2o, in>>
    BY <1>11 DEF ClientData
  <2>2. CASE st' = "COPY" /\ osock' = "est"
    <3> DEFINE a == orecv \o s2o \o in
    <3>1. a \o c2s = Data(csent)
      BY <1>h, <2>1, <2>2 DEF RelayToOrigin
    <3>2. a \in Seq(Message)
      <4>1. orecv \o s2o \in Seq(Message)
        BY <1>a, ConcatProperties
      <4> QED BY <1>a, <4>1, ConcatProperties
    <3>3. m \in Message
      BY <1>a, MessageType
    <3>4. Data(csent + 1) = Append(Data(csent), m)
      BY <1>a, DataIs
    <3> HIDE DEF a, m
    <3>5. a \o Append(c2s, m) = Append(a \o c2s, m)
      BY <1>a, <3>2, <3>3, AddToTheLast
    <3>6. a \o c2s' = Data(csent')
      BY <2>1, <3>1, <3>4, <3>5
    <3> QED BY <2>1, <3>6 DEF RelayToOrigin, a
  <2> QED BY <1>b, <2>2
<1>12. CASE ClientRecv \/ ClientSeesClose \/ ClientClose
  BY <1>c, <1>12 DEF ClientRecv, ClientSeesClose, ClientClose
<1>13. CASE ConnectEnds
  <2>1. osock = "pending" /\ st' = st
    BY <1>13 DEF ConnectEnds
  <2>2. st' # "COPY"
    BY <1>h, <2>1 DEF Answer, HasConnected
  <2> QED BY <1>b, <2>2
<1>14. CASE OriginRecv
  <2>1. /\ s2o # << >> /\ orecv' = Append(orecv, Head(s2o)) /\ s2o' = Tail(s2o)
        /\ UNCHANGED <<st, osock, in, c2s, csent>>
    BY <1>14 DEF OriginRecv
  <2>2. orecv' \o s2o' = orecv \o s2o
    BY <1>a, <2>1, ReadKeepsOrder
  <2>3. st' = "COPY" /\ osock' = "est" => orecv \o s2o \o in \o c2s = Data(csent)
    BY <1>h, <2>1 DEF RelayToOrigin
  <2> QED BY <2>1, <2>2, <2>3 DEF RelayToOrigin
<1>15. CASE OriginSend
  BY <1>15, <1>c DEF OriginSend
<1>16. CASE OriginClose
  BY <1>16, <1>b DEF OriginClose
<1>17. CASE UNCHANGED vars
  BY <1>17, <1>c DEF vars
<1> QED BY <1>1, <1>2, <1>3, <1>4, <1>5, <1>6, <1>7, <1>8, <1>9, <1>10, <1>11, <1>12, <1>13,
           <1>14, <1>15, <1>16, <1>17 DEF Next, MainThread, Client, Origin

(* The invariant holds at first. *)
LEMMA InitTurn == Init => TurnInv
<1> SUFFICES ASSUME Init PROVE TurnInv
  OBVIOUS
<1>1. Turns
  BY DEF Init, Turns, Tokens, Connecting
<1>2. Stages
  BY EmptySeq DEF Init, Stages
<1>3. RelayToOrigin
  BY DEF Init, RelayToOrigin
<1> QED BY <1>1, <1>2, <1>3 DEF TurnInv

(* With a client that waits for each reply the three invariants hold.        *)
THEOREM TurnInvariance == ASSUME NoPipeline PROVE Spec => [](IndInv /\ RelayInv /\ TurnInv)
<1>1. Init => IndInv /\ RelayInv /\ TurnInv
  BY InitInv, InitRelay, InitTurn
<1>2. IndInv /\ RelayInv /\ TurnInv /\ [Next]_vars => (IndInv /\ RelayInv /\ TurnInv)'
  BY NextInv, NextRelay, TurnsStep, StagesStep, RelayToOriginStep DEF TurnInv
<1> QED BY <1>1, <1>2, PTL DEF Spec

(* Nothing that such a client sends is lost, repeated or reordered on its    *)
(* way through in_buff and the sockets.                                      *)
THEOREM UpstreamIsExact == ASSUME NoPipeline PROVE Spec => []RelayToOrigin
<1>1. IndInv /\ RelayInv /\ TurnInv => RelayToOrigin
  BY DEF TurnInv
<1> QED BY <1>1, TurnInvariance, PTL

-----------------------------------------------------------------------------
(* The fourth inductive invariant: what keeps the process up.  A client may  *)
(* say nonsense, an origin may speak first and pthread_create() may fail,    *)
(* but nobody is refused a method or a password, no peer closes or resets,   *)
(* no descriptor number is taken by somebody else, and a name has no address *)
(* at all or one that does not fail at once.                                 *)
CanTry(l) == l = << >> \/ \E i \in 1..Len(l) : l[i] # "unreach"

Polite == /\ Env \subseteq {"garbage", "origin_first", "no_thread"}
          /\ NO_ACCEPTABLE \notin Methods /\ 0 \notin Creds
          /\ \A l \in AddrLists : CanTry(l)

(* The messages that the server does not refuse, and the replies that do not *)
(* make the client close.                                                    *)
Acceptable == {m \in Message : /\ m.t = "hello" => m.v # NO_ACCEPTABLE
                               /\ m.t = "auth" => m.v = 1}
Welcome == {m \in Message : ~Refuses(m)}

Process == srv = "up" /\ ~stale /\ lis = "READ"

(* No send() meets a peer that has gone. *)
Sockets == /\ csock = "open" \/ (csock = "closed" /\ st = "FREED")
           /\ osock \in {"none", "pending", "est", "failed"}

Received == c2s \in Seq(Acceptable) /\ in \in Seq(Acceptable)

(* A refusal is sent by the step that frees the connection. *)
Greetings == st # "FREED" => s2c \in Seq(Welcome) /\ (~err => out \in Seq(Welcome))

(* The functions that go on after a socksv5_write find their connection, and *)
(* handshake_read finds in_buff empty when the hello has been answered.      *)
Returns ==
  /\ pc \in {"handshake_read", "auth_read", "connecting_on_block_ready"} => st # "FREED"
  /\ pc = "handshake_read" /\ st # "HANDSHAKE" => in = << >>
  /\ pc = "socksv5_write" /\ ret # "select" => ~err

(* connect_to_host has an address to try. *)
Resolved == resolver = "queued" => CanTry(addr)

PoliteInv == Process /\ Sockets /\ Received /\ Greetings /\ Returns /\ Resolved

(* What a polite environment does not do. *)
LEMMA PoliteFlags ==
  ASSUME Polite
  PROVE  /\ NoPipeline
         /\ {"client_close", "client_reset", "origin_close", "origin_reset",
             "no_fd", "fd_shift"} \cap Env = {}
BY DEF Polite, NoPipeline

(* A reply that is no refusal. *)
LEMMA WelcomeReply ==
  ASSUME out \in Seq(Welcome), NEW m \in Welcome
  PROVE  WithReply(m) \in Seq(Welcome)
BY AppendProperties DEF WithReply

(* While a handler runs that has read something, no error reply waits.       *)
LEMMA NoErrorYet ==
  ASSUME IndInv, RelayInv, st # "FREED", ci # "WRITE"
  PROVE  ~err
BY DEF RelayInv, Ending

(* The stream to the server consists of acceptable messages. *)
LEMMA ReceivedStep ==
  ASSUME Polite, IndInv, PoliteInv, [Next]_vars
  PROVE  Received'
<1> USE DEF thread, sel, bufs, negot, conn, metrics, cl, og, peers, wire, server,
            Idle, Running, Goto, Call, Ends
<1>0. TypeOK /\ Received
  BY DEF IndInv, PoliteInv
<1>h. c2s \in Seq(Acceptable) /\ in \in Seq(Acceptable) /\ << >> \in Seq(Acceptable)
  BY <1>0, EmptySeq DEF Received
<1>a. ASSUME c2s' = c2s, in' \in {in, << >>} \/ (in # << >> /\ in' = Tail(in))
      PROVE  Received'
  BY <1>a, <1>h, HeadTailType DEF Received
<1>b. ASSUME in' = in, NEW m \in Acceptable, c2s' = Append(c2s, m)
      PROVE  Received'
  BY <1>b, <1>h, AppendProperties DEF Received
<1>1. CASE socksv5_read
  <2>1. CASE ReadFull
    BY <1>a, <2>1 DEF ReadFull
  <2>2. CASE ReadData
    <3>1. c2s' \in Seq(Acceptable) /\ in' \in Seq(Acceptable)
      BY <1>h, <2>2, RecvType DEF ReadData
    <3> QED BY <3>1 DEF Received
  <2>3. CASE ReadClosed
    BY <1>a, <2>3 DEF ReadClosed, Hangup, socksv5_close
  <2> QED BY <1>1, <2>1, <2>2, <2>3 DEF socksv5_read
<1>2. CASE socksv5_write
  <2>1. c2s' = c2s /\ in' \in {in, << >>}
    <3>1. CASE WriteSome
      BY <3>1 DEF WriteSome, WriteLastReply, WriteReply, WriteRelayed, socksv5_close
    <3>2. CASE WriteAgain \/ WriteError \/ WriteSigpipe
      BY <3>2 DEF WriteAgain, WriteError, WriteSigpipe, Crash, socksv5_close
    <3> QED BY <1>2, <3>1, <3>2 DEF socksv5_write
  <2> QED BY <1>a, <2>1
<1>3. CASE socksv5_block \/ connecting_on_block_ready
  <2>1. c2s' = c2s /\ in' \in {in, << >>}
    BY <1>3 DEF socksv5_block, BlockNoAddress, BlockInProgress, BlockSuccess, BlockFailed,
                socksv5_close, connecting_on_block_ready, Return, Crash
  <2> QED BY <1>a, <2>1
<1>4. CASE handshake_read \/ auth_read
  <2>1. c2s' = c2s /\ (in' \in {in, << >>} \/ (in # << >> /\ in' = Tail(in)))
    BY <1>4 DEF handshake_read, auth_read, Hangup, socksv5_close, Return, Crash
  <2> QED BY <1>a, <2>1
<1>5. CASE connection_req_read
  <2>1. c2s' = c2s /\ in # << >> /\ in' \in {Tail(in), << >>}
    BY <1>5 DEF IndInv, Control, connection_req_read, RequestUnsupported, RequestAddress,
                RequestDomain, RequestError, socksv5_close
  <2> QED BY <1>a, <2>1
<1>6. CASE handle_write_connecting
  <2>1. c2s' = c2s /\ in' \in {in, << >>}
    BY <1>6 DEF handle_write_connecting, RetryInProgress, RetryNoSocket, RetryFailed, Connected
  <2> QED BY <1>a, <2>1
<1>7. CASE copy_read \/ copy_write_handler \/ copy_read_handler
  <2>1. CASE CopySome
    <3> DEFINE n == Accepted(in, s2o)
    <3>1. c2s' = c2s /\ n > 0 /\ in' = Drop(in, n)
      BY <2>1 DEF CopySome
    <3>2. n \in Nat /\ n <= Len(in)
      BY <1>0, <3>1, SendType DEF TypeOK
    <3>3. Drop(in, n) \in Seq(Acceptable)
      BY <1>h, <3>2, TakeDropType
    <3> QED BY <1>h, <3>1, <3>3 DEF Received
  <2>2. CASE CopyAgain \/ CopyError \/ CopySigpipe \/ CopyNoOrigin
    BY <1>a, <2>2 DEF CopyAgain, CopyError, CopySigpipe, CopyNoOrigin, Crash, Hangup, socksv5_close
  <2>3. CASE OriginFull \/ OriginData \/ OriginEof \/ OriginError
    BY <1>a, <2>3 DEF OriginFull, OriginData, OriginEof, OriginError, Hangup, socksv5_close
  <2> QED BY <1>7, <2>1, <2>2, <2>3 DEF copy_read, copy_write_handler, copy_read_handler, CopyWrite
<1>8. CASE selector_select_EBADF \/ resolve_host_name
  BY <1>a, <1>8 DEF selector_select_EBADF, resolve_host_name, Crash
<1>9. CASE ClientHello
  <2>1. PICK v \in Methods : c2s' = Append(c2s, Msg("hello", v)) /\ in' = in
    BY <1>9 DEF ClientHello
  <2>2. Msg("hello", v) \in Message /\ v # NO_ACCEPTABLE
    BY InputsAssumption, MessageType DEF Polite
  <2>3. Msg("hello", v) \in Acceptable
    BY <2>2 DEF Acceptable, Msg
  <2> QED BY <1>b, <2>1, <2>3
<1>10. CASE ClientAuth
  <2>1. PICK v \in Creds : c2s' = Append(c2s, Msg("auth", v)) /\ in' = in
    BY <1>10 DEF ClientAuth
  <2>2. Msg("auth", v) \in Message /\ v = 1
    BY InputsAssumption, MessageType DEF Polite
  <2>3. Msg("auth", v) \in Acceptable
    BY <2>2 DEF Acceptable, Msg
  <2> QED BY <1>b, <2>1, <2>3
<1>11. CASE ClientRequest
  <2>1. PICK v \in Requests : c2s' = Append(c2s, Msg("req", v)) /\ in' = in
    BY <1>11 DEF ClientRequest
  <2>2. Msg("req", v) \in Message
    BY InputsAssumption, MessageType
  <2>3. Msg("req", v) \in Acceptable
    BY <2>2 DEF Acceptable, Msg
  <2> QED BY <1>b, <2>1, <2>3
<1>12. CASE ClientGarbage
  <2>1. Msg("garbage", 0) \in Acceptable
    BY MessageType DEF Acceptable, Msg
  <2> QED BY <1>12, <1>b, <2>1 DEF ClientGarbage
<1>13. CASE ClientData
  <2>1. csent + 1 \in Nat
    BY <1>0 DEF TypeOK
  <2>2. Msg("data", csent + 1) \in Acceptable
    BY <2>1, MessageType DEF Acceptable, Msg
  <2> QED BY <1>13, <1>b, <2>2 DEF ClientData
<1>14. CASE ClientRecv \/ ClientSeesClose \/ ClientClose \/ ConnectEnds \/ Origin
  BY <1>a, <1>14 DEF ClientRecv, ClientSeesClose, ClientClose, ConnectEnds, Origin,
                     OriginRecv, OriginSend, OriginClose
<1>15. CASE UNCHANGED vars
  BY <1>15, <1>a DEF vars
<1> QED BY <1>1, <1>2, <1>3, <1>4, <1>5, <1>6, <1>7, <1>8, <1>9, <1>10, <1>11, <1>12, <1>13,
           <1>14, <1>15 DEF Next, MainThread, Client

(* A freed connection is never used again: no handler of it runs. *)
LEMMA FreedStays ==
  ASSUME IndInv, RelayInv, PoliteInv, [Next]_vars, st = "FREED"
  PROVE  st' = "FREED"
<1> USE DEF thread, sel, bufs, negot, conn, metrics, cl, og, peers, wire, server,
            Idle, Running, Goto, Call, Ends
<1>1. /\ ci = "UNREG" /\ resolver = "idle" /\ oh = "none" /\ pc = "select"
  BY DEF IndInv, Control, Resolution, RelayInv, Ending, PoliteInv, Process, Returns, TypeOK
<1> QED BY <1>1 DEF Next, MainThread, Client, vars, socksv5_read, socksv5_write, socksv5_block,
           handshake_read, auth_read, connection_req_read, connecting_on_block_ready,
           handle_write_connecting, copy_read, copy_write_handler, copy_read_handler,
           selector_select_EBADF, resolve_host_name, Crash,
           ClientHello, ClientAuth, ClientRequest, ClientGarbage, ClientData, ClientRecv,
           ClientSeesClose, ClientClose, ConnectEnds, Origin, OriginRecv, OriginSend, OriginClose

(* The client is refused nothing before its connection is freed.             *)
LEMMA GreetingsStep ==
  ASSUME Polite, IndInv, RelayInv, PoliteInv, [Next]_vars
  PROVE  Greetings'
<1> USE DEF thread, sel, bufs, negot, conn, metrics, cl, og, peers, wire, server,
            Idle, Running, Goto, Call, Ends
<1>0. TypeOK /\ Control /\ Ending /\ Greetings /\ Received
  BY DEF IndInv, RelayInv, PoliteInv
<1>h. /\ st # "FREED" => s2c \in Seq(Welcome)
      /\ st # "FREED" /\ ~err => out \in Seq(Welcome)
      /\ << >> \in Seq(Welcome)
  BY <1>0, EmptySeq DEF Greetings
<1>f. ASSUME st' = "FREED"
      PROVE  Greetings'
  BY <1>f DEF Greetings
<1>a. ASSUME st # "FREED", UNCHANGED <<s2c, out, err>>
      PROVE  Greetings'
  BY <1>a, <1>h DEF Greetings
<1>b. ASSUME st # "FREED", s2c' = s2c, err'
      PROVE  Greetings'
  BY <1>b, <1>h DEF Greetings
<1>c. ASSUME st # "FREED", ci # "WRITE", s2c' = s2c, NEW m \in Welcome, out' = WithReply(m)
      PROVE  Greetings'
  <2>1. out \in Seq(Welcome)
    BY <1>0, <1>c, <1>h, NoErrorYet
  <2>2. out' \in Seq(Welcome)
    BY <1>c, <2>1, WelcomeReply
  <2> QED BY <1>c, <1>h, <2>2 DEF Greetings
<1>1. CASE socksv5_read
  <2>1. st # "FREED"
    BY <1>0, <1>1 DEF socksv5_read, Control
  <2> QED BY <1>1, <1>a, <1>f, <2>1 DEF socksv5_read, ReadFull, ReadData, ReadClosed, Hangup, socksv5_close
<1>2. CASE socksv5_write
  <2>1. ci = "WRITE" /\ st # "FREED"
    BY <1>0, <1>2 DEF socksv5_write, Control, Ending
  <2>2. CASE WriteSome
    <3> DEFINE n == Accepted(out, s2c)
    <3>1. /\ WriteLastReply(n) \/ WriteReply(n) \/ WriteRelayed(n)
          /\ s2c' \in {s2c, s2c \o Take(out, n)} /\ n > 0
      BY <2>2 DEF WriteSome, SendToClient
    <3>2. CASE WriteLastReply(n)
      BY <1>f, <3>2 DEF WriteLastReply, socksv5_close
    <3>3. CASE WriteReply(n) \/ WriteRelayed(n)
      <4>1. ~err /\ err' = err /\ out' = Drop(out, n)
        BY <1>0, <2>1, <3>3, Zenon DEF WriteReply, WriteRelayed, Ending, buffer_read_adv
      <4>2. n \in Nat /\ n <= Len(out)
        BY <1>0, <3>1, SendType DEF TypeOK
      <4> HIDE DEF n
      <4>3. s2c \in Seq(Welcome) /\ out \in Seq(Welcome)
        BY <1>h, <2>1, <4>1
      <4>4. Take(out, n) \in Seq(Welcome) /\ Drop(out, n) \in Seq(Welcome)
        BY <4>2, <4>3, TakeDropType
      <4>5. s2c' \in Seq(Welcome)
        BY <3>1, <4>3, <4>4, ConcatProperties
      <4> QED BY <4>1, <4>4, <4>5 DEF Greetings
    <3> QED BY <3>1, <3>2, <3>3
  <2>3. CASE WriteAgain \/ WriteSigpipe
    BY <1>a, <2>1, <2>3 DEF WriteAgain, WriteSigpipe, Crash
  <2>4. CASE WriteError
    BY <1>f, <2>4 DEF WriteError, socksv5_close
  <2> QED BY <1>2, <2>2, <2>3, <2>4 DEF socksv5_write
<1>3. CASE socksv5_block
  <2>1. st = "CONNECTING" /\ ci = "NOOP" /\ s2c' = s2c
    BY <1>3 DEF socksv5_block, IndInv, Resolution
  <2>2. CASE BlockNoAddress
    BY <1>b, <2>1, <2>2 DEF BlockNoAddress
  <2>3. CASE BlockInProgress
    BY <1>a, <2>1, <2>3 DEF BlockInProgress
  <2>4. CASE BlockSuccess
    <3>1. Msg("rep", REP_SUCCEEDED) \in Welcome
      BY MessageType DEF Welcome, Refuses, Msg, Codes, REP_SUCCEEDED
    <3> QED BY <1>c, <2>1, <2>4, <3>1 DEF BlockSuccess
  <2>5. CASE BlockFailed
    BY <1>f, <2>5 DEF BlockFailed, socksv5_close
  <2> QED BY <1>3, <2>2, <2>3, <2>4, <2>5 DEF socksv5_block
<1>4. CASE handshake_read
  <2>1. st # "FREED" /\ ci # "WRITE"
    BY <1>4 DEF handshake_read, PoliteInv, Returns, IndInv, Negotiation
  <2>2. CASE pc' = "socksv5_write"
    <3>1. /\ in # << >> /\ Head(in).t = "hello" /\ s2c' = s2c
          /\ out' = WithReply(Msg("method", Head(in).v))
      BY <1>4, <2>2 DEF handshake_read, Hangup, Return, Crash
    <3>2. Head(in) \in Acceptable
      BY <1>0, <3>1, HeadTailType DEF Received
    <3>3. Head(in).v \in {NO_AUTH, USER_PASS}
      BY <3>1, <3>2, MessageValue DEF Acceptable
    <3>4. Msg("method", Head(in).v) \in Welcome
      BY <3>3, MessageType DEF Welcome, Refuses, Msg, NO_AUTH, USER_PASS, NO_ACCEPTABLE
    <3> QED BY <1>c, <2>1, <3>1, <3>4
  <2>3. CASE Hangup(1)
    BY <1>f, <2>3 DEF Hangup, socksv5_close
  <2>4. CASE Return \/ Crash("aborted")
    BY <1>a, <2>1, <2>4 DEF Return, Crash
  <2> QED BY <1>4, <2>2, <2>3, <2>4 DEF handshake_read
<1>5. CASE auth_read
  <2>1. st # "FREED" /\ ci # "WRITE"
    BY <1>5 DEF auth_read, PoliteInv, Returns, IndInv, Negotiation
  <2>2. CASE pc' = "socksv5_write"
    <3>1. /\ in # << >> /\ Head(in).t = "auth" /\ s2c' = s2c
          /\ out' = WithReply(Msg("status", IF Head(in).v = 1 THEN 0 ELSE 1))
      BY <1>5, <2>2 DEF auth_read, Hangup, Return, Crash
    <3>2. Head(in) \in Acceptable
      BY <1>0, <3>1, HeadTailType DEF Received
    <3>3. Head(in).v = 1
      BY <3>1, <3>2 DEF Acceptable
    <3>4. Msg("status", 0) \in Welcome
      BY MessageType DEF Welcome, Refuses, Msg
    <3> QED BY <1>c, <2>1, <3>1, <3>3, <3>4
  <2>3. CASE Hangup(1)
    BY <1>f, <2>3 DEF Hangup, socksv5_close
  <2>4. CASE Return \/ Crash("aborted")
    BY <1>a, <2>1, <2>4 DEF Return, Crash
  <2> QED BY <1>5, <2>2, <2>3, <2>4 DEF auth_read
<1>6. CASE connection_req_read
  <2>1. st = "CONN_REQ" /\ s2c' = s2c
    BY <1>0, <1>6 DEF connection_req_read, Control
  <2>2. CASE RequestUnsupported
    BY <1>b, <2>1, <2>2 DEF RequestUnsupported
  <2>3. CASE RequestAddress \/ RequestDomain
    BY <1>a, <2>1, <2>3 DEF RequestAddress, RequestDomain
  <2>4. CASE RequestError
    BY <1>f, <2>4 DEF RequestError, socksv5_close
  <2> QED BY <1>6, <2>2, <2>3, <2>4 DEF connection_req_read
<1>7. CASE handle_write_connecting
  <2>1. st = "CONNECTING" /\ ci = "NOOP" /\ s2c' = s2c
    BY <1>0, <1>7 DEF handle_write_connecting, Control
  <2>2. CASE RetryInProgress \/ RetryNoSocket
    BY <1>a, <2>1, <2>2 DEF RetryInProgress, RetryNoSocket
  <2>3. CASE RetryFailed
    BY <1>b, <2>1, <2>3 DEF RetryFailed
  <2>4. CASE Connected
    <3>1. Msg("rep", REP_SUCCEEDED) \in Welcome
      BY MessageType DEF Welcome, Refuses, Msg, Codes, REP_SUCCEEDED
    <3> QED BY <1>c, <2>1, <2>4, <3>1 DEF Connected
  <2> QED BY <1>7, <2>2, <2>3, <2>4 DEF handle_write_connecting
<1>8. CASE copy_read \/ copy_write_handler
  <2>1. st = "COPY"
    BY <1>0, <1>8 DEF copy_read, copy_write_handler, Control
  <2>2. UNCHANGED <<s2c, out, err>> \/ st' = "FREED"
    BY <1>8 DEF copy_read, copy_write_handler, CopyNoOrigin, CopyWrite, CopySome, CopyAgain,
                CopyError, CopySigpipe, Hangup, socksv5_close, Crash
  <2> QED BY <1>a, <1>f, <2>1, <2>2
<1>9. CASE copy_read_handler
  <2>1. st = "COPY" /\ ~err
    BY <1>0, <1>9 DEF copy_read_handler, Control, Ending
  <2>2. CASE OriginData
    <3> DEFINE n == Least(Len(o2s), Room(out))
    <3>1. out' = out \o Take(o2s, n) /\ s2c' = s2c /\ err' = err
          /\ o2s # << >> /\ Room(out) > 0
      BY <2>2 DEF OriginData
    <3>2. n \in Nat /\ n <= Len(o2s)
      BY <1>0, <3>1, RecvType DEF TypeOK
    <3>3. o2s \in Seq(Message) /\ \A i \in 1..Len(o2s) : o2s[i].t = "data"
      BY <1>0 DEF TypeOK, RelayInv, Downstream
    <3>4. o2s \in Seq(Welcome)
      <4>1. \A i \in 1..Len(o2s) : o2s[i] \in Welcome
        BY <3>3, ElementOfSeq DEF Welcome, Refuses
      <4> QED BY <3>3, <4>1, SeqDef
    <3> HIDE DEF n
    <3>5. Take(o2s, n) \in Seq(Welcome)
      BY <3>2, <3>4, TakeDropType
    <3>6. out' \in Seq(Welcome)
      BY <1>h, <2>1, <3>1, <3>5, ConcatProperties
    <3> QED BY <1>h, <2>1, <3>1, <3>6 DEF Greetings
  <2>3. CASE OriginFull \/ OriginEof
    BY <1>a, <2>1, <2>3 DEF OriginFull, OriginEof
  <2>4. CASE OriginError
    BY <1>f, <2>4 DEF OriginError, Hangup, socksv5_close
  <2> QED BY <1>9, <2>2, <2>3, <2>4 DEF copy_read_handler
<1>10. CASE st = "FREED"
  <2>1. st' = "FREED"
    BY <1>10, FreedStays
  <2> QED BY <1>f, <2>1
<1>11. CASE connecting_on_block_ready \/ selector_select_EBADF \/ resolve_host_name
  BY <1>10, <1>11, <1>a DEF connecting_on_block_ready, selector_select_EBADF, resolve_host_name, Return, Crash
<1>12. CASE ClientRecv
  <2>1. s2c # << >> /\ s2c' = Tail(s2c) /\ UNCHANGED <<st, out, err>>
    BY <1>12 DEF ClientRecv
  <2>2. CASE st # "FREED"
    <3>1. Tail(s2c) \in Seq(Welcome)
      BY <1>h, <2>1, <2>2, HeadTailType
    <3> QED BY <1>h, <2>1, <2>2, <3>1 DEF Greetings
  <2> QED BY <1>10, <2>2
<1>13. CASE \/ ClientHello \/ ClientAuth \/ ClientRequest \/ ClientGarbage \/ ClientData
            \/ ClientSeesClose \/ ClientClose \/ ConnectEnds \/ Origin
  BY <1>10, <1>13, <1>a DEF ClientHello, ClientAuth, ClientRequest, ClientGarbage, ClientData,
            ClientSeesClose, ClientClose, ConnectEnds, Origin, OriginRecv, OriginSend, OriginClose
<1>14. CASE UNCHANGED vars
  BY <1>10, <1>14, <1>a DEF vars
<1> QED BY <1>1, <1>2, <1>3, <1>4, <1>5, <1>6, <1>7, <1>8, <1>9, <1>11, <1>12, <1>13,
           <1>14 DEF Next, MainThread, Client

(* A list with an address that does not fail at once has a first one.        *)
LEMMA SomethingIsTried ==
  ASSUME addr \in Seq(AddrKind), addr # << >>, CanTry(addr)
  PROVE  ~ConnectFailed
<1> DEFINE T == {i \in 1..Len(addr) : addr[i] # "unreach"}
<1>1. Len(addr) \in Nat
  BY LenProperties
<1>2. T \subseteq Nat /\ T # {}
  BY <1>1 DEF CanTry
<1>3. PICK i \in T : \A j \in T : ~(<<j, i>> \in OpToRel(<, Nat))
  BY <1>2, NatLessThanWellFounded, WFMin
<1>4. \A j \in 1..(i - 1) : addr[j] = "unreach"
  <2> SUFFICES ASSUME NEW j \in 1..(i - 1), addr[j] # "unreach" PROVE FALSE
    OBVIOUS
  <2>1. j \in T /\ j < i /\ i \in Nat /\ j \in Nat
    BY <1>1
  <2> QED BY <1>3, <2>1 DEF OpToRel
<1>5. i \in 1..Len(addr) /\ Tried(i)
  BY <1>4 DEF Tried
<1> QED BY <1>5 DEF ConnectFailed

(* The list of addresses is one that connect_to_host can do something with.  *)
LEMMA ResolvedStep ==
  ASSUME Polite, IndInv, RelayInv, PoliteInv, [Next]_vars
  PROVE  Resolved'
<1> USE DEF thread, sel, bufs, negot, conn, metrics, cl, og, peers, wire, server
<1>0. TypeOK /\ Resolution /\ Resolved
  BY DEF IndInv, PoliteInv
<1>a. ASSUME UNCHANGED <<resolver, addr>>
      PROVE  Resolved'
  BY <1>0, <1>a DEF Resolved, CanTry
<1>b. ASSUME resolver' # "queued"
      PROVE  Resolved'
  BY <1>b DEF Resolved
<1>1. CASE socksv5_block
  BY <1>1, <1>b DEF socksv5_block
<1>2. CASE connection_req_read
  <2>1. CASE RequestUnsupported \/ RequestDomain
    BY <1>a, <1>b, <2>1 DEF RequestUnsupported, RequestDomain
  <2>2. CASE RequestAddress
    BY <2>2 DEF RequestAddress, Polite, Resolved
  <2>3. CASE RequestError
    <3>1. resolver' = resolver /\ resolver = "idle"
      BY <1>0, <1>2, <2>3 DEF connection_req_read, RequestError, Resolution, Running
    <3> QED BY <1>b, <3>1
  <2> QED BY <1>2, <2>1, <2>2, <2>3 DEF connection_req_read
<1>3. CASE resolve_host_name
  <2>1. CASE st = "FREED"
    BY <1>3, <1>a, <2>1 DEF resolve_host_name
  <2>2. CASE st # "FREED"
    BY <1>3, <2>2 DEF resolve_host_name, Polite, Resolved
  <2> QED BY <2>1, <2>2
<1>4. CASE \/ socksv5_read \/ socksv5_write \/ handshake_read \/ auth_read \/ copy_read
           \/ copy_write_handler \/ copy_read_handler
  <2>1. resolver' = resolver
    BY <1>4 DEF socksv5_read, ReadFull, ReadData, ReadClosed, socksv5_write, WriteSome, WriteLastReply,
         WriteReply, WriteRelayed, WriteAgain, WriteError, WriteSigpipe, handshake_read, auth_read,
         copy_read, copy_write_handler, copy_read_handler, CopyNoOrigin, CopyWrite, CopySome, CopyAgain,
         CopyError, CopySigpipe, OriginFull, OriginData, OriginEof, OriginError, Hangup, Crash, Return
  <2>2. resolver = "queued" => /\ pc = "select" /\ ci = "NOOP" /\ st = "CONNECTING" /\ oh = "none"
    BY <1>0 DEF Resolution
  <2>3. resolver = "queued" => FALSE
    BY <1>4, <2>2 DEF socksv5_read, socksv5_write, handshake_read, auth_read, copy_read,
         copy_write_handler, copy_read_handler, Running, Idle
  <2> QED BY <1>b, <2>1, <2>3
<1>5. CASE handle_write_connecting
  <2>1. oh = "connecting" /\ resolver' = resolver
    BY <1>5 DEF handle_write_connecting
  <2> QED BY <1>0, <1>b, <2>1 DEF Resolution
<1>6. CASE connecting_on_block_ready \/ selector_select_EBADF
  BY <1>6, <1>a DEF connecting_on_block_ready, selector_select_EBADF, Return, Crash
<1>7. CASE Client \/ ConnectEnds \/ Origin \/ UNCHANGED vars
  BY <1>7, <1>a DEF Client, ClientHello, ClientAuth, ClientRequest, ClientGarbage, ClientData, ClientRecv,
       ClientSeesClose, ClientClose, ConnectEnds, Origin, OriginRecv, OriginSend, OriginClose, vars
<1> QED BY <1>1, <1>2, <1>3, <1>4, <1>5, <1>6, <1>7 DEF Next, MainThread

(* No step ends the process, closes a registered descriptor or touches the   *)
(* listener.                                                                 *)
LEMMA ProcessStep ==
  ASSUME Polite, IndInv, RelayInv, TurnInv, PoliteInv, [Next]_vars
  PROVE  Process'
<1> USE DEF thread, sel, bufs, negot, conn, metrics, cl, og, peers, wire, server,
            Idle, Running, Goto, Call
<1>0. TypeOK /\ Control /\ Ending /\ Process /\ Sockets /\ Returns /\ Resolved
  BY DEF IndInv, RelayInv, PoliteInv
<1>a. ASSUME UNCHANGED <<srv, stale, lis>>
      PROVE  Process'
  BY <1>0, <1>a DEF Process
<1>1. CASE socksv5_read
  BY <1>1, <1>a DEF socksv5_read, ReadFull, ReadData, ReadClosed, Hangup, socksv5_close
<1>2. CASE socksv5_write
  <2>1. ci = "WRITE" /\ st # "FREED" /\ csock = "open"
    BY <1>0, <1>2 DEF socksv5_write, Control, Ending, Sockets
  <2>2. CASE WriteSome
    <3> DEFINE n == Accepted(out, s2c)
    <3>1. /\ WriteLastReply(n) \/ WriteReply(n) \/ WriteRelayed(n)
          /\ srv' = srv
      BY <2>2 DEF WriteSome
    <3>2. CASE WriteLastReply(n) \/ WriteReply(n)
      <4>1. st \notin {"COPY", "FREED"} /\ WatchOrigin /\ stale' = stale
        BY <3>2, Zenon DEF WriteLastReply, WriteReply, has_write_handler, socksv5_close
      <4>2. Len(out) = 1
        BY <2>1, <4>1 DEF IndInv, Negotiation
      <4>3. Tokens <= 1
        BY <4>1 DEF TurnInv, Turns
      <4>4. Len(in) = 0
        BY <1>0, <4>2, <4>3, TokenTypes DEF Tokens
      <4>5. in = << >>
        BY <1>0, <4>4, EmptySeq DEF TypeOK
      <4> QED BY <1>a, <3>1, <4>1, <4>5 DEF WatchOrigin
    <3>3. CASE WriteRelayed(n)
      <4>1. UNCHANGED <<stale, lis>>
        BY <3>3, Zenon DEF WriteRelayed
      <4> QED BY <1>a, <3>1, <4>1
    <3> QED BY <3>1, <3>2, <3>3
  <2>3. CASE WriteAgain
    BY <1>a, <2>3 DEF WriteAgain
  <2>4. CASE WriteError \/ WriteSigpipe
    BY <2>1, <2>4 DEF WriteError, WriteSigpipe
  <2> QED BY <1>2, <2>2, <2>3, <2>4 DEF socksv5_write
<1>3. CASE socksv5_block
  <2>1. CASE BlockNoAddress \/ BlockInProgress \/ BlockSuccess
    BY <1>a, <2>1 DEF BlockNoAddress, BlockInProgress, BlockSuccess
  <2>2. ~BlockFailed
    <3>1. addr # << >> => ~ConnectFailed
      BY <1>0, <1>3, SomethingIsTried DEF socksv5_block, Resolved, TypeOK
    <3> QED BY <3>1 DEF BlockFailed, Polite
  <2> QED BY <1>3, <2>1, <2>2 DEF socksv5_block
<1>4. CASE handshake_read
  <2>1. st # "FREED" /\ (st # "HANDSHAKE" => in = << >>)
    BY <1>0, <1>4 DEF handshake_read, Returns
  <2> QED BY <1>4, <1>a, <2>1 DEF handshake_read, Hangup, socksv5_close, Return
<1>5. CASE auth_read
  <2>1. st # "FREED"
    BY <1>0, <1>5 DEF auth_read, Returns
  <2> QED BY <1>5, <1>a, <2>1 DEF auth_read, Hangup, socksv5_close, Return
<1>6. CASE connection_req_read
  BY <1>6, <1>a DEF connection_req_read, RequestUnsupported, RequestAddress, RequestDomain,
                    RequestError, socksv5_close
<1>7. CASE connecting_on_block_ready
  <2>1. st # "FREED"
    BY <1>0, <1>7 DEF connecting_on_block_ready, Returns
  <2> QED BY <1>7, <1>a, <2>1 DEF connecting_on_block_ready, Return
<1>8. CASE handle_write_connecting
  <2>1. ~stale /\ (Reopened => ~stale') /\ ~RetryNoSocket
    BY <1>0 DEF Process, Reopened, RetryNoSocket, Polite
  <2>2. stale' = stale \/ Reopened
    BY <1>8, <2>1 DEF handle_write_connecting, RetryInProgress, RetryFailed, Connected
  <2>3. UNCHANGED <<srv, lis>>
    BY <1>8, <2>1 DEF handle_write_connecting, RetryInProgress, RetryFailed, Connected
  <2> QED BY <1>0, <2>1, <2>2, <2>3 DEF Process
<1>9. CASE copy_read \/ copy_write_handler
  <2>1. osock \notin {"closed", "broken", "reset"}
    BY <1>0 DEF Sockets
  <2> QED BY <1>9, <1>a, <2>1 DEF copy_read, copy_write_handler, CopyNoOrigin, CopyWrite, CopySome,
                                  CopyAgain, CopyError, CopySigpipe, Hangup, socksv5_close
<1>10. CASE copy_read_handler
  BY <1>10, <1>a DEF copy_read_handler, OriginFull, OriginData, OriginEof, OriginError, Hangup, socksv5_close
<1>11. CASE selector_select_EBADF
  BY <1>0, <1>11 DEF selector_select_EBADF, Process
<1>12. CASE resolve_host_name
  <2>1. st = "CONNECTING"
    BY <1>12 DEF resolve_host_name, IndInv, Resolution
  <2> QED BY <1>12, <1>a, <2>1 DEF resolve_host_name
<1>13. CASE Client \/ ConnectEnds \/ Origin \/ UNCHANGED vars
  BY <1>13, <1>a DEF Client, ClientHello, ClientAuth, ClientRequest, ClientGarbage, ClientData, ClientRecv,
       ClientSeesClose, ClientClose, ConnectEnds, Origin, OriginRecv, OriginSend, OriginClose, vars
<1> QED BY <1>1, <1>2, <1>3, <1>4, <1>5, <1>6, <1>7, <1>8, <1>9, <1>10, <1>11, <1>12,
           <1>13 DEF Next, MainThread

(* A client closes only what the server has freed, and an origin that has    *)
(* been connected stays.                                                     *)
LEMMA SocketsStep ==
  ASSUME Polite, IndInv, RelayInv, PoliteInv, [Next]_vars
  PROVE  Sockets'
<1> USE DEF thread, sel, bufs, negot, conn, metrics, cl, og, peers, wire, server,
            Idle, Running, Goto, Call
<1>0. TypeOK /\ Control /\ Ending /\ Process /\ Sockets /\ Greetings
  BY DEF IndInv, RelayInv, PoliteInv
<1>h. /\ csock = "open" \/ (csock = "closed" /\ st = "FREED")
      /\ osock \in {"none", "pending", "est", "failed"}
      /\ st = "FREED" => st' = "FREED"
  BY <1>0, FreedStays DEF Sockets
<1>a. ASSUME csock' = csock, osock' \in {osock, "none", "pending", "est", "failed"}
      PROVE  Sockets'
  BY <1>a, <1>h DEF Sockets
<1>1. CASE socksv5_read
  BY <1>1, <1>a DEF socksv5_read, ReadFull, ReadData, ReadClosed, Hangup, socksv5_close
<1>2. CASE socksv5_write
  <2>1. csock = "open"
    BY <1>0, <1>2 DEF socksv5_write, Control, Ending, Sockets
  <2>2. CASE WriteSome
    <3> DEFINE n == Accepted(out, s2c)
    <3>1. /\ WriteLastReply(n) \/ WriteReply(n) \/ WriteRelayed(n)
          /\ csock' = csock
      BY <2>1, <2>2 DEF WriteSome, SendToClient
    <3>2. osock' \in {osock, "none"}
      BY <3>1, Zenon DEF WriteLastReply, WriteReply, WriteRelayed, socksv5_close
    <3> QED BY <1>a, <3>1, <3>2
  <2>3. CASE WriteAgain \/ WriteError \/ WriteSigpipe
    BY <1>a, <2>3 DEF WriteAgain, WriteError, WriteSigpipe, Crash, socksv5_close
  <2> QED BY <1>2, <2>2, <2>3 DEF socksv5_write
<1>3. CASE socksv5_block
  BY <1>3, <1>a DEF socksv5_block, BlockNoAddress, BlockInProgress, BlockSuccess, BlockFailed,
                    ConnectInProgress, ConnectSuccess, socksv5_close
<1>4. CASE handshake_read \/ auth_read
  BY <1>4, <1>a DEF handshake_read, auth_read, Hangup, socksv5_close, Return, Crash
<1>5. CASE connection_req_read
  BY <1>5, <1>a DEF connection_req_read, RequestUnsupported, RequestAddress, RequestDomain,
                    RequestError, socksv5_close
<1>6. CASE handle_write_connecting
  BY <1>6, <1>a DEF handle_write_connecting, RetryInProgress, RetryNoSocket, RetryFailed,
                    ConnectInProgress, Connected
<1>7. CASE copy_read \/ copy_write_handler
  BY <1>7, <1>a, <1>h DEF copy_read, copy_write_handler, CopyNoOrigin, CopyWrite, CopySome,
                          CopyAgain, CopyError, CopySigpipe, Crash, Hangup, socksv5_close
<1>8. CASE copy_read_handler
  BY <1>8, <1>a DEF copy_read_handler, OriginFull, OriginData, OriginEof, OriginError, Hangup, socksv5_close
<1>9. CASE connecting_on_block_ready \/ selector_select_EBADF \/ resolve_host_name
  BY <1>9, <1>a DEF connecting_on_block_ready, selector_select_EBADF, resolve_host_name, Return, Crash
<1>10. CASE ClientHello \/ ClientAuth \/ ClientRequest \/ ClientGarbage \/ ClientData \/ UNCHANGED vars
  BY <1>10, <1>a DEF ClientHello, ClientAuth, ClientRequest, ClientGarbage, ClientData, vars
<1>11. CASE ClientRecv
  <2>1. /\ s2c # << >> /\ UNCHANGED <<st, osock>> /\ csock = "open"
        /\ csock' = IF Refuses(Head(s2c)) THEN "closed" ELSE csock
    BY <1>11 DEF ClientRecv
  <2>2. CASE st # "FREED"
    <3>1. Head(s2c) \in Welcome
      BY <1>0, <2>1, <2>2, HeadTailType DEF Greetings
    <3> QED BY <1>a, <2>1, <3>1 DEF Welcome
  <2>3. CASE st = "FREED"
    BY <1>h, <2>1, <2>3 DEF Sockets
  <2> QED BY <2>2, <2>3
<1>12. CASE ClientSeesClose
  BY <1>0, <1>12, <1>h DEF ClientSeesClose, Process, Sockets
<1>13. CASE ClientClose
  BY <1>13 DEF ClientClose, Polite
<1>14. CASE ConnectEnds \/ OriginRecv \/ OriginSend
  BY <1>14, <1>a DEF ConnectEnds, OriginRecv, OriginSend
<1>15. CASE OriginClose
  BY <1>15 DEF OriginClose, Polite
<1> QED BY <1>1, <1>2, <1>3, <1>4, <1>5, <1>6, <1>7, <1>8, <1>9, <1>10, <1>11, <1>12, <1>13,
           <1>14, <1>15 DEF Next, MainThread, Client, Origin

(* No reply that a handler waits for is an error, so that none of them comes *)
(* back to a connection that has been freed.                                 *)
LEMMA ReturnsStep ==
  ASSUME Polite, IndInv, RelayInv, TurnInv, PoliteInv, [Next]_vars
  PROVE  Returns'
<1> USE DEF thread, sel, bufs, negot, conn, metrics, cl, og, peers, wire, server,
            Idle, Running, Goto, Call
<1>0. TypeOK /\ Control /\ Negotiation /\ Ending /\ Sockets /\ Received /\ Returns
  BY DEF IndInv, RelayInv, PoliteInv
<1>1. srv' = "up"
  BY ProcessStep DEF Process
<1>a. ASSUME pc' \notin {"handshake_read", "auth_read", "connecting_on_block_ready"},
             pc' = "socksv5_write" => ret' = "select" \/ ~err'
      PROVE  Returns'
  BY <1>a DEF Returns
<1>b. ASSUME UNCHANGED <<pc, ret, st, in, err>>
      PROVE  Returns'
  BY <1>0, <1>b DEF Returns
<1>c. ASSUME pc = "select", UNCHANGED <<pc, ret>>
      PROVE  Returns'
  BY <1>a, <1>c
<1>2. CASE socksv5_read
  <2>1. CASE ReadFull \/ ReadClosed
    BY <1>2, <1>a, <1>c, <2>1 DEF socksv5_read, ReadFull, ReadClosed, Hangup
  <2>2. CASE ReadData
    <3>1. st' = FirstState /\ pc' = on_read_ready[st'] /\ ret' = "select"
      BY <2>2 DEF ReadData
    <3>2. st' \in {"HANDSHAKE", "AUTH", "CONN_REQ", "COPY"}
      BY <1>0, <1>2, <3>1 DEF socksv5_read, Control, FirstState
    <3>3. /\ pc' = "handshake_read" => st' = "HANDSHAKE"
          /\ pc' \in {"handshake_read", "auth_read", "connection_req_read", "copy_read"}
      BY <3>1, <3>2 DEF on_read_ready
    <3> QED BY <3>2, <3>3 DEF Returns
  <2> QED BY <1>2, <2>1, <2>2 DEF socksv5_read
<1>3. CASE socksv5_write
  <2>1. ci = "WRITE" /\ st # "FREED" /\ csock = "open"
    BY <1>0, <1>3 DEF socksv5_write, Control, Ending, Sockets
  <2>2. ret = "select" \/ (pc = "socksv5_write" /\ ~err)
    BY <1>0, <1>3 DEF socksv5_write, Control, Returns
  <2>3. ret = "handshake_read" => in = << >>
    <3> SUFFICES ASSUME ret = "handshake_read" PROVE in = << >>
      OBVIOUS
    <3>1. st \in {"HANDSHAKE", "AUTH"}
      BY <1>0, <2>2 DEF Negotiation
    <3>2. Len(out) = 1 /\ Tokens <= 1
      BY <1>0, <2>1, <3>1 DEF Negotiation, TurnInv, Turns
    <3>3. Len(in) = 0
      BY <1>0, <3>2, TokenTypes DEF Tokens
    <3> QED BY <1>0, <3>3, EmptySeq DEF TypeOK
  <2>4. pc' = ret /\ ret' = "select"
    BY <1>1, <1>3, <2>1 DEF socksv5_write, WriteSome, WriteAgain, WriteError, WriteSigpipe
  <2>5. CASE ret = "select"
    BY <1>a, <2>4, <2>5
  <2>6. CASE ret # "select"
    <3>1. CASE WriteSome
      <4> DEFINE n == Accepted(out, s2c)
      <4>1. WriteReply(n) \/ WriteRelayed(n)
        BY <2>2, <2>6, <3>1 DEF WriteSome, WriteLastReply
      <4>2. st' \in {"AUTH", "CONN_REQ", "COPY"} /\ in' = in
        BY <4>1, Zenon DEF WriteReply, WriteRelayed, on_write_ready
      <4> QED BY <2>3, <2>4, <4>2 DEF Returns
    <3>2. CASE WriteAgain
      BY <2>1, <2>3, <2>4, <3>2 DEF WriteAgain, Returns
    <3> QED BY <1>3, <2>1, <3>1, <3>2 DEF socksv5_write, WriteError, WriteSigpipe
  <2> QED BY <2>5, <2>6
<1>4. CASE socksv5_block
  <2>1. pc = "select" /\ ci = "NOOP" /\ st = "CONNECTING"
    BY <1>4 DEF socksv5_block, IndInv, Resolution
  <2>2. CASE BlockNoAddress \/ BlockInProgress
    BY <1>c, <2>1, <2>2 DEF BlockNoAddress, BlockInProgress
  <2>3. CASE BlockSuccess
    <3>1. ~err' /\ pc' = "socksv5_write"
      BY <2>1, <2>3, NoErrorYet DEF BlockSuccess
    <3> QED BY <1>a, <3>1
  <2>4. CASE BlockFailed
    BY <1>1, <2>4 DEF BlockFailed, Ends
  <2> QED BY <1>4, <2>2, <2>3, <2>4 DEF socksv5_block
<1>5. CASE handshake_read \/ auth_read
  <2>1. CASE pc' = "socksv5_write"
    <3>1. /\ in # << >> /\ Head(in).t \in {"hello", "auth"}
          /\ err' = IF Head(in).t = "hello" THEN Head(in).v = NO_ACCEPTABLE ELSE Head(in).v # 1
      BY <1>5, <2>1 DEF handshake_read, auth_read, Hangup, Return, Crash, Ends
    <3>2. Head(in) \in Acceptable
      BY <1>0, <3>1, HeadTailType DEF Received
    <3>3. ~err'
      BY <3>1, <3>2 DEF Acceptable
    <3> QED BY <1>a, <2>1, <3>3
  <2>2. CASE pc' # "socksv5_write"
    <3>1. pc' = "select"
      BY <1>1, <1>5, <2>2 DEF handshake_read, auth_read, Hangup, Return, Crash, Ends
    <3> QED BY <1>a, <3>1
  <2> QED BY <2>1, <2>2
<1>6. CASE connection_req_read \/ connecting_on_block_ready
  <2>1. pc' = "select"
    BY <1>1, <1>6 DEF connection_req_read, connecting_on_block_ready, Return, Crash, Ends
  <2> QED BY <1>a, <2>1
<1>7. CASE handle_write_connecting
  <2>1. CASE RetryInProgress \/ RetryNoSocket \/ RetryFailed
    BY <1>7, <1>c, <2>1 DEF handle_write_connecting, RetryInProgress, RetryNoSocket, RetryFailed
  <2>2. CASE Connected
    BY <1>a, <2>2 DEF Connected
  <2> QED BY <1>7, <2>1, <2>2 DEF handle_write_connecting
<1>8. CASE copy_read \/ copy_write_handler
  <2>1. pc' = "select"
    BY <1>1, <1>8 DEF copy_read, copy_write_handler, CopyNoOrigin, CopyWrite, CopySome, CopyAgain,
                      CopyError, CopySigpipe, Crash, Ends, Hangup
  <2> QED BY <1>a, <2>1
<1>9. CASE copy_read_handler
  <2>1. pc = "select"
    BY <1>9 DEF copy_read_handler
  <2>2. CASE OriginFull \/ OriginEof
    BY <1>c, <2>1, <2>2 DEF OriginFull, OriginEof
  <2>3. CASE OriginData \/ OriginError
    BY <1>a, <2>3 DEF OriginData, OriginError, Hangup
  <2> QED BY <1>9, <2>2, <2>3 DEF copy_read_handler
<1>10. CASE selector_select_EBADF
  BY <1>1, <1>10 DEF selector_select_EBADF, Crash, Ends
<1>11. CASE resolve_host_name
  <2>1. st = "CONNECTING"
    BY <1>11 DEF resolve_host_name, IndInv, Resolution
  <2> QED BY <1>11, <1>b, <2>1 DEF resolve_host_name
<1>12. CASE Client \/ ConnectEnds \/ Origin \/ UNCHANGED vars
  BY <1>12, <1>b DEF Client, ClientHello, ClientAuth, ClientRequest, ClientGarbage, ClientData, ClientRecv,
       ClientSeesClose, ClientClose, ConnectEnds, Origin, OriginRecv, OriginSend, OriginClose, vars
<1> QED BY <1>2, <1>3, <1>4, <1>5, <1>6, <1>7, <1>8, <1>9, <1>10, <1>11, <1>12 DEF Next, MainThread

(* The invariant holds at first. *)
LEMMA InitPolite == Init => PoliteInv
<1> SUFFICES ASSUME Init PROVE PoliteInv
  OBVIOUS
<1>1. Received /\ Greetings
  BY EmptySeq DEF Init, Received, Greetings
<1>2. Process /\ Sockets /\ Returns /\ Resolved
  BY DEF Init, Process, Sockets, Returns, Resolved
<1> QED BY <1>1, <1>2 DEF PoliteInv

(* With polite peers and a kernel that has what is asked for, the four       *)
(* invariants hold.                                                          *)
THEOREM PoliteInvariance ==
  ASSUME Polite
  PROVE  Spec => [](IndInv /\ RelayInv /\ TurnInv /\ PoliteInv)
<1>1. Init => PoliteInv
  BY InitPolite
<1>2. IndInv /\ RelayInv /\ TurnInv /\ PoliteInv /\ [Next]_vars => PoliteInv'
  BY ProcessStep, SocketsStep, ReceivedStep, GreetingsStep, ReturnsStep, ResolvedStep DEF PoliteInv
<1>3. Spec => [](IndInv /\ RelayInv /\ TurnInv)
  BY PoliteFlags, TurnInvariance
<1> QED BY <1>1, <1>2, <1>3, PTL DEF Spec

(* Whatever such peers do, none of the ways in which a handler can bring the *)
(* process down is taken: no assertion, no SIGPIPE, no failing pselect().    *)
THEOREM ProcessGoesOn == ASSUME Polite PROVE Spec => []ServerUp
<1>1. PoliteInv => ServerUp
  BY DEF PoliteInv, Process, ServerUp
<1> QED BY <1>1, PoliteInvariance, PTL

(* And no connection takes the interest in new clients away from the         *)
(* listener, whose descriptor is the 0 that origin_fd holds at first.        *)
THEOREM ListenerIsWatched == ASSUME Polite PROVE Spec => []ListenerReads
<1>1. PoliteInv => ListenerReads
  BY DEF PoliteInv, Process, ListenerReads
<1> QED BY <1>1, PoliteInvariance, PTL
=============================================================================
