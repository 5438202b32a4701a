------------------------------- MODULE Socks5 -------------------------------
(* One proxied connection of the SOCKSv5 server, from the accepted client  *)
(* socket to the end of the relay: the handlers of src/server/socks5, the  *)
(* state machine that dispatches to them, the resolver thread, and, as     *)
(* their environment, the client, the origin server and the kernel.        *)
(*                                                                         *)
(* The server is one thread: selector_select() calls one handler after     *)
(* the other.  pc says where that thread is.  "select" means that no       *)
(* handler of this connection is running; any other value names the C      *)
(* function that runs next, and ret the function that called it and goes   *)
(* on when it returns.  The client, the origin, the kernel and the         *)
(* resolver thread run at any time.                                        *)
(*                                                                         *)
(* A protocol message is one element of a stream, and so is a piece of     *)
(* relayed data; the parsers that cut a byte stream into messages are a    *)
(* component of their own.                                                 *)
EXTENDS Integers, Sequences

CONSTANTS
  BufSize,    \* capacity of in_buff and out_buff
  SockCap,    \* pieces of data a socket queue holds before send() says EAGAIN
  MaxData,    \* pieces of data each peer sends
  Methods,    \* authentication methods a client may ask for
  Creds,      \* 1: valid user and password, 0: not valid
  Requests,   \* what a client may request
  AddrLists,  \* what getaddrinfo() may answer for a name
  ErrnoCodes, \* what get_code() may make of errno, whichever call has set it
  Env         \* what the environment may do beyond the polite minimum

NO_AUTH == 0
USER_PASS == 2
NO_ACCEPTABLE == 255

REP_SUCCEEDED == 0
REP_GENERAL_FAILURE == 1
REP_NETWORK_UNREACHABLE == 3
REP_HOST_UNREACHABLE == 4
REP_CONNECTION_REFUSED == 5
REP_TTL_EXPIRED == 6
REP_COMMAND_NOT_SUPPORTED == 7

Codes == {REP_SUCCEEDED, REP_GENERAL_FAILURE, REP_NETWORK_UNREACHABLE,
          REP_HOST_UNREACHABLE, REP_CONNECTION_REFUSED, REP_TTL_EXPIRED,
          REP_COMMAND_NOT_SUPPORTED}

(* What get_code() may return: it never says "succeeded". *)
GetCodes == {REP_NETWORK_UNREACHABLE, REP_HOST_UNREACHABLE, REP_CONNECTION_REFUSED,
             REP_TTL_EXPIRED}

CONNECT_IP == 1
CONNECT_DOMAIN == 3
BIND == 7

(* How the kernel answers connect() to an address: at once with an error    *)
(* ("unreach") or with success ("instant"), or with EINPROGRESS and the     *)
(* outcome later ("up", "refused", "timeout").                              *)
AddrKind == {"up", "refused", "timeout", "unreach", "instant"}

EnvFlags == {"pipeline", "garbage", "client_close", "client_reset",
             "origin_first", "origin_close", "origin_reset",
             "no_thread", "no_fd", "fd_shift"}

(* A reply never fills a buffer: BUFF_MIN_LEN is 256. *)
ASSUME SizesAssumption == /\ BufSize \in Nat /\ BufSize >= 2
                          /\ SockCap \in Nat \ {0}
                          /\ MaxData \in Nat
ASSUME InputsAssumption == /\ Methods \subseteq {NO_AUTH, USER_PASS, NO_ACCEPTABLE}
                           /\ Creds \subseteq {0, 1}
                           /\ Requests \subseteq {CONNECT_IP, CONNECT_DOMAIN, BIND}
                           /\ AddrLists \subseteq Seq(AddrKind)
                           /\ ErrnoCodes \subseteq GetCodes
                           /\ Env \subseteq EnvFlags

VARIABLES
  srv,      \* the process: "up", or how it ended
  pc, ret,  \* the main thread
  st,       \* conn->stm->current; "NONE" before the first read, "FREED" after free(conn)
  ci,       \* interest of the client's fd in the selector, or "UNREG"
  oh, oi,   \* handler and interest of the origin's fd in the selector
  ofd,      \* conn->origin_fd: 0, an open socket or -1
  stale,    \* the selector watches a descriptor number that has been closed
  lis,      \* interest of descriptor 0, the SOCKS listener
  in, out,  \* in_buff and out_buff
  err,      \* conn->is_error_response
  meth,     \* the method the handshake parser has chosen
  user,     \* conn->username has been set
  addr,     \* conn->addr_info
  resolver, \* the resolver: "idle", "running", or "queued" as a blocking job
  log,      \* status codes of this connection's access register entries
  current, errors, bytes, \* the counters of metrics.c
  cstage,   \* the client: what it sends next
  cwait,    \* replies it waits for
  csock,    \* its socket: "open", "closed", "reset", or "broken" (closed and a RST sent)
  cmeth, ccred,           \* what it has asked for and presented
  csent, crecv, creps,    \* data it has sent, data and reply codes it has read
  osock,    \* the origin's socket, or the attempt to connect to it
  okind,    \* how the address that was tried last behaves
  osent, orecv,           \* data the origin has sent, data it has read
  c2s, s2c, \* data in flight between client and server
  s2o, o2s  \* data in flight between server and origin

thread == <<srv, pc, ret>>
sel == <<ci, oh, oi, ofd, stale, lis>>
bufs == <<in, out>>
negot == <<err, meth, user>>
conn == <<st, sel, bufs, negot, addr, resolver>>
metrics == <<current, errors, bytes>>
cl == <<cstage, cwait, csock, cmeth, ccred, csent, crecv, creps>>
og == <<osock, okind, osent, orecv>>
peers == <<cl, og>>
wire == <<c2s, s2c, s2o, o2s>>
vars == <<thread, conn, log, metrics, peers, wire>>

-----------------------------------------------------------------------------
Msg(type, value) == [t |-> type, v |-> value]
IsReply(m) == m.t \in {"method", "status", "rep"}

Least(a, b) == IF a <= b THEN a ELSE b
Take(s, n) == SubSeq(s, 1, n)
Drop(s, n) == SubSeq(s, n + 1, Len(s))
Room(b) == BufSize - Len(b)

\* mutant of buffer_read_adv: the last piece that was sent stays in the buffer
ReadAdvOffByOne(b, n) == SubSeq(b, n, Len(b))

(* The buffer without the n pieces that send() has taken. *)
buffer_read_adv(b, n) == Drop(b, n)

(* buffer_write_struct: a reply that does not fit is dropped. *)
\* mutant of WithReply: every failure is reported as a general failure
WithReplyGeneric(m) == Append(out, IF m.t = "rep" /\ m.v # REP_SUCCEEDED
                                     THEN Msg("rep", REP_GENERAL_FAILURE) ELSE m)
WithReply(m) == IF Room(out) >= 1 THEN Append(out, m) ELSE out

Idle == srv = "up" /\ pc = "select" /\ ~stale
Running(f) == srv = "up" /\ pc = f

(* How the process ends: a failed AddressSanitizer check or a NULL          *)
(* dereference ("aborted"), SIGPIPE ("killed"), selector_select() reporting  *)
(* an error to main ("exited").                                             *)
Ends(how) == srv' = how /\ UNCHANGED <<pc, ret>>

Goto(f) == pc' = f /\ ret' = "select" /\ UNCHANGED srv
Call(f, caller) == pc' = f /\ ret' = caller /\ UNCHANGED srv

Crash(how) == Ends(how) /\ UNCHANGED <<conn, log, metrics, peers, wire>>
Return == Goto("select") /\ UNCHANGED <<conn, log, metrics, peers, wire>>

(* selector_unregister_fd on the origin's and on the client's descriptor,   *)
(* and the handle_close that the second one runs.  e and n are the errors   *)
(* and bytes that the caller has added to the metrics.                      *)
socksv5_close(e, n) ==
  /\ st' = "FREED"
  /\ ci' = "UNREG" /\ oh' = "none" /\ oi' = "UNREG" /\ ofd' = "neg"
  /\ in' = << >> /\ out' = << >> /\ addr' = << >>
  /\ current' = IF current > 0 THEN current - 1 ELSE current
  /\ errors' = errors + e
  /\ bytes' = bytes + n
  /\ osock' = "none"
  /\ UNCHANGED <<stale, negot, okind, osent, orecv>>

(* Both descriptors are closed and the thread goes back to the selector. *)
Hangup(e) == /\ socksv5_close(e, 0)
             /\ Goto("select")
             /\ UNCHANGED <<lis, resolver, log, cl, wire>>

(* The connection as socksv5_passive_accept leaves it. *)
Init ==
  /\ srv = "up" /\ pc = "select" /\ ret = "select"
  /\ st = "NONE"
  /\ ci = "READ" /\ oh = "none" /\ oi = "UNREG" /\ ofd = "zero"
  /\ stale = FALSE /\ lis = "READ"
  /\ in = << >> /\ out = << >>
  /\ err = FALSE /\ meth = NO_ACCEPTABLE /\ user = FALSE
  /\ addr = << >> /\ resolver = "idle"
  /\ log = << >>
  /\ current = 1 /\ errors = 0 /\ bytes = 0
  /\ cstage = "hello" /\ cwait = 0 /\ csock = "open"
  /\ cmeth = NO_ACCEPTABLE /\ ccred = 0
  /\ csent = 0 /\ crecv = << >> /\ creps = << >>
  /\ osock = "none" /\ okind = "none" /\ osent = 0 /\ orecv = << >>
  /\ c2s = << >> /\ s2c = << >> /\ s2o = << >> /\ o2s = << >>

-----------------------------------------------------------------------------
(* socks5.c: reading from the client. *)

ClientReadable == c2s # << >> \/ csock # "open"

(* The function stm_handler_read calls in each state. *)
on_read_ready == [s \in {"HANDSHAKE", "AUTH", "CONN_REQ", "CONNECTING", "COPY"} |->
                    CASE s = "HANDSHAKE" -> "handshake_read"
                      [] s = "AUTH" -> "auth_read"
                      [] s = "CONN_REQ" -> "connection_req_read"
                      [] s = "CONNECTING" -> "connecting_read"
                      [] s = "COPY" -> "copy_read"]

(* handle_first: the first event of a connection enters the initial state. *)
FirstState == IF st = "NONE" THEN "HANDSHAKE" ELSE st

(* in_buff has no room: the client has to wait for the origin. *)
ReadFull ==
  /\ Room(in) = 0
  /\ ci' = "NOOP"
  /\ oi' = IF ofd = "open" /\ oh # "none" THEN "WRITE" ELSE oi
  /\ UNCHANGED <<thread, st, oh, ofd, stale, lis, bufs, negot, addr, resolver,
                 log, metrics, peers, wire>>

ReadData ==
  /\ Room(in) > 0
  /\ c2s # << >> /\ csock # "reset"
  /\ LET n == Least(Len(c2s), Room(in)) IN
       /\ in' = in \o Take(c2s, n)
       /\ c2s' = Drop(c2s, n)
  /\ st' = FirstState
  /\ Goto(on_read_ready[FirstState])
  /\ UNCHANGED <<sel, out, negot, addr, resolver, log, metrics, peers, s2c, s2o, o2s>>

(* recv() returned 0, or an error other than EAGAIN. *)
ReadClosed ==
  /\ Room(in) > 0
  /\ \/ csock = "reset" /\ Hangup(1)
     \/ csock \in {"closed", "broken"} /\ c2s = << >> /\ Hangup(0)

\* mutant of socksv5_read: it runs whatever the interest of the descriptor
ReadUnasked == Idle /\ ci # "UNREG" /\ ClientReadable /\ (ReadFull \/ ReadData \/ ReadClosed)

socksv5_read ==
  /\ Idle
  /\ ci = "READ" /\ ClientReadable
  /\ ReadFull \/ ReadData \/ ReadClosed

-----------------------------------------------------------------------------
(* socks5.c: writing to the client.  The selector calls it, and the         *)
(* handlers that have just queued something call it too.  Its early return  *)
(* for an empty out_buff is left out: WritersHaveData says that no caller   *)
(* takes it.                                                                *)

(* What send() takes.  A reply of a few bytes always fits, the socket's     *)
(* queue is empty or nearly so when it is sent.                             *)
Accepted(buf, queue) ==
  IF IsReply(Head(buf)) THEN Len(buf) ELSE Least(Len(buf), SockCap - Len(queue))

(* send(): what reaches a peer that has closed its socket is answered with  *)
(* a RST, and the next send() raises SIGPIPE.                               *)
SendToClient(n) ==
  /\ s2c' = IF csock = "open" THEN s2c \o Take(out, n) ELSE s2c
  /\ csock' = IF csock = "closed" THEN "broken" ELSE csock
  /\ UNCHANGED <<cstage, cwait, cmeth, ccred, csent, crecv, creps>>

has_write_handler == st \in {"HANDSHAKE", "AUTH", "CONN_REQ", "CONNECTING"}

\* mutant of on_write_ready: the client's choice of USER_PASS is forgotten
WriteReadySkipsAuth == IF st \in {"HANDSHAKE", "AUTH"} THEN "CONN_REQ" ELSE "COPY"

(* The state that the on_write_ready function of the current state returns  *)
(* when the reply was not an error.                                         *)
on_write_ready ==
  CASE st = "HANDSHAKE" -> IF meth = USER_PASS THEN "AUTH" ELSE "CONN_REQ"
    [] st = "AUTH" -> "CONN_REQ"
    [] OTHER -> "COPY"

InterestAlwaysWrite(n) == "WRITE" \* mutant of InterestAfterWrite
InterestAlwaysRead(n) == "READ"   \* mutant of InterestAfterWrite

(* The client's descriptor after n pieces of out_buff went out. *)
InterestAfterWrite(n) == IF n < Len(out) THEN "WRITE" ELSE "READ"

(* With bytes left in in_buff, socksv5_write asks for the origin's           *)
(* descriptor to be watched.  origin_fd is 0 until connect_to_host sets it,  *)
(* and descriptor 0 is the SOCKS listener.                                  *)
\* mutant of WatchOrigin: in_buff is not looked at
WatchAlways == lis' = IF ofd = "zero" THEN "WRITE" ELSE lis

WatchOrigin == lis' = IF in # << >> /\ ofd = "zero" THEN "WRITE" ELSE lis

(* The reply was an error: once it is out the connection is closed. *)
WriteLastReply(n) ==
  /\ has_write_handler /\ err
  /\ socksv5_close(0, n)
  /\ WatchOrigin
  /\ UNCHANGED resolver

(* The reply ends a phase of the negotiation.  copy_on_arrival registers    *)
(* the origin's descriptor without any interest.                            *)
WriteReply(n) ==
  /\ has_write_handler /\ ~err
  /\ out' = buffer_read_adv(out, n)
  /\ st' = on_write_ready
  /\ ci' = InterestAfterWrite(n)
  /\ IF on_write_ready = "COPY"
       THEN oh' = "copy" /\ oi' = "NOOP"
       ELSE UNCHANGED <<oh, oi>>
  /\ WatchOrigin
  /\ bytes' = bytes + n
  /\ UNCHANGED <<current, errors, ofd, stale, in, negot, addr, resolver, og>>

(* COPY has no on_write_ready function. *)
WriteRelayed(n) ==
  /\ st = "COPY"
  /\ out' = buffer_read_adv(out, n)
  /\ ci' = InterestAfterWrite(n)
  /\ oi' = CASE oh = "none" -> oi
             [] oh # "none" /\ Room(out) = 0 -> "READ"
             [] OTHER -> IF in # << >> THEN "WRITE" ELSE oi
  /\ bytes' = bytes + n
  /\ UNCHANGED <<current, errors, st, oh, ofd, stale, lis, in, negot, addr, resolver, og>>

WriteSome ==
  LET n == Accepted(out, s2c) IN
  /\ csock \in {"open", "closed"} /\ n > 0
  /\ SendToClient(n)
  /\ WriteLastReply(n) \/ WriteReply(n) \/ WriteRelayed(n)
  /\ Goto(ret)
  /\ UNCHANGED <<log, c2s, s2o, o2s>>

WriteAgain ==
  /\ csock = "open" /\ Accepted(out, s2c) <= 0
  /\ Goto(ret)
  /\ UNCHANGED <<conn, log, metrics, peers, wire>>

WriteError ==
  /\ csock = "reset"
  /\ socksv5_close(1, 0)
  /\ Goto(ret)
  /\ UNCHANGED <<lis, resolver, log, cl, wire>>

WriteSigpipe == csock = "broken" /\ Crash("killed")

ClientWritable == csock # "open" \/ Accepted(out, s2c) > 0

(* ret is "select" whenever the thread is in the selector. *)
socksv5_write ==
  /\ Running("socksv5_write") \/ (Idle /\ ci = "WRITE" /\ ClientWritable)
  /\ WriteSome \/ WriteAgain \/ WriteError \/ WriteSigpipe

-----------------------------------------------------------------------------
(* states_handlers/handshake.c *)

handshake_read ==
  /\ Running("handshake_read")
  /\ \/ /\ st = "HANDSHAKE" /\ in # << >> /\ Head(in).t = "hello"
        /\ in' = Tail(in)
        /\ meth' = Head(in).v
        /\ out' = WithReply(Msg("method", Head(in).v))
        /\ ci' = "WRITE"
        /\ err' = (Head(in).v = NO_ACCEPTABLE)
        /\ Call("socksv5_write", "handshake_read")
        /\ UNCHANGED <<st, oh, oi, ofd, stale, lis, user, addr, resolver,
                       log, metrics, peers, wire>>
     \/ st = "HANDSHAKE" /\ in # << >> /\ Head(in).t # "hello" /\ Hangup(1)
     \/ st # "FREED" /\ in = << >> /\ Return
     \* the loop condition reads the connection that the reply has closed
     \/ st = "FREED" /\ Crash("aborted")
     \* on_departure has set handshake_parser to NULL, the loop feeds it
     \/ st \notin {"HANDSHAKE", "FREED"} /\ in # << >> /\ Crash("aborted")

-----------------------------------------------------------------------------
(* states_handlers/auth.c.  Whatever the client sent after its credentials  *)
(* is discarded, so the loop never runs twice.                              *)

auth_read ==
  /\ Running("auth_read")
  /\ \/ /\ st = "AUTH" /\ in # << >> /\ Head(in).t = "auth"
        /\ LET auth_ok == Head(in).v = 1 IN
             /\ out' = WithReply(Msg("status", IF auth_ok THEN 0 ELSE 1))
             /\ err' = ~auth_ok
             /\ user' = auth_ok
        /\ in' = << >>
        /\ ci' = "WRITE"
        /\ Call("socksv5_write", "auth_read")
        /\ UNCHANGED <<st, oh, oi, ofd, stale, lis, meth, addr, resolver,
                       log, metrics, peers, wire>>
     \/ st = "AUTH" /\ in # << >> /\ Head(in).t # "auth" /\ Hangup(1)
     \/ st # "FREED" /\ in = << >> /\ Return
     \/ st = "FREED" /\ Crash("aborted")

-----------------------------------------------------------------------------
(* states_handlers/conn_req.c.  The request is the last thing read: what    *)
(* follows it stays in in_buff.                                             *)

Asks(v) == Head(in).t = "req" /\ Head(in).v = v

(* BIND and UDP ASSOCIATE: an error reply, the state does not change. *)
RequestUnsupported ==
  /\ Asks(BIND)
  /\ in' = Tail(in)
  /\ out' = WithReply(Msg("rep", REP_COMMAND_NOT_SUPPORTED))
  /\ err' = TRUE
  /\ ci' = "WRITE"
  /\ UNCHANGED <<st, oh, oi, ofd, stale, lis, meth, user, addr, resolver, metrics, og>>

(* A literal address: resolve_host_name runs here and queues the job. *)
RequestAddress ==
  /\ Asks(CONNECT_IP)
  /\ in' = Tail(in)
  /\ ci' = "NOOP"
  /\ \E k \in AddrKind : <<k>> \in AddrLists /\ addr' = <<k>>
  /\ resolver' = "queued"
  /\ st' = "CONNECTING"
  /\ UNCHANGED <<oh, oi, ofd, stale, lis, out, negot, metrics, og>>

(* A name: a thread resolves it. *)
RequestDomain ==
  /\ Asks(CONNECT_DOMAIN)
  /\ in' = Tail(in)
  /\ ci' = "NOOP"
  /\ resolver' = "running"
  /\ st' = "CONNECTING"
  /\ UNCHANGED <<oh, oi, ofd, stale, lis, out, negot, addr, metrics, og>>

(* A request that cannot be parsed, or no thread for the resolver. *)
RequestError ==
  /\ \/ Head(in).t # "req"
     \/ Asks(CONNECT_DOMAIN) /\ "no_thread" \in Env
  /\ socksv5_close(1, 0)
  /\ UNCHANGED <<lis, resolver>>

connection_req_read ==
  /\ Running("connection_req_read")
  /\ RequestUnsupported \/ RequestAddress \/ RequestDomain \/ RequestError
  /\ Goto("select")
  /\ UNCHANGED <<log, cl, wire>>

-----------------------------------------------------------------------------
(* netutils.c: the resolver thread and connect_to_host. *)

(* resolve_host_name in its thread: an empty list stands for a name that    *)
(* does not resolve, addr_info stays NULL.  The thread writes to the        *)
(* connection, which must still be there.                                   *)
resolve_host_name ==
  /\ srv = "up" /\ resolver = "running"
  /\ IF st = "FREED"
       THEN Ends("aborted") /\ UNCHANGED <<addr, resolver>>
       ELSE /\ \E l \in AddrLists : addr' = l
            /\ resolver' = "queued"
            /\ UNCHANGED thread
  /\ UNCHANGED <<st, sel, bufs, negot, log, metrics, peers, wire>>

(* connect_to_host walks the list past the addresses that fail at once. *)
\* mutant of Tried: an address that fails at once ends the walk
TriedOnlyFirst(i) == i = 1 /\ addr[i] # "unreach"

Tried(i) == addr[i] # "unreach" /\ \A j \in 1..(i - 1) : addr[j] = "unreach"

ConnectInProgress ==
  \E i \in 1..Len(addr) :
    /\ Tried(i) /\ addr[i] # "instant"
    /\ addr' = Drop(addr, i)
    /\ osock' = "pending" /\ okind' = addr[i]
    /\ UNCHANGED <<osent, orecv>>

FirstIsInstant == \E i \in 1..Len(addr) : Tried(i) /\ addr[i] = "instant"

ConnectSuccess ==
  /\ FirstIsInstant
  /\ addr' = << >>
  /\ osock' = "est" /\ okind' = "instant"
  /\ UNCHANGED <<osent, orecv>>

ConnectFailed == \A i \in 1..Len(addr) : ~Tried(i)

-----------------------------------------------------------------------------
(* states_handlers/socks5_connecting.c, the block event: the name or the    *)
(* address has been resolved.                                               *)

BlockNoAddress ==
  /\ addr = << >>
  /\ log' = Append(log, REP_HOST_UNREACHABLE)
  /\ out' = WithReply(Msg("rep", REP_HOST_UNREACHABLE))
  /\ err' = TRUE
  /\ ci' = "WRITE"
  /\ st' = "CONN_REQ"
  /\ UNCHANGED <<thread, oh, oi, ofd, stale, lis, in, meth, user, addr, metrics, og>>

BlockInProgress ==
  /\ addr # << >> /\ ConnectInProgress
  /\ ci' = "NOOP"
  /\ ofd' = "open" /\ oh' = "connecting" /\ oi' = "WRITE"
  /\ UNCHANGED <<thread, st, stale, lis, bufs, negot, log, metrics>>

BlockSuccess ==
  /\ addr # << >> /\ ConnectSuccess
  /\ ofd' = "open"
  /\ log' = Append(log, REP_SUCCEEDED)
  /\ out' = WithReply(Msg("rep", REP_SUCCEEDED))
  /\ ci' = "WRITE"
  /\ in' = << >>
  /\ Call("socksv5_write", "connecting_on_block_ready")
  /\ UNCHANGED <<st, oh, oi, stale, lis, negot, metrics>>

(* No address can be tried (nothing is logged), or socket() failed and its  *)
(* -1 is taken for CONNECTION_IN_PROGRESS: SOCKS5_ERROR closes the          *)
(* connection, and socksv5_block reads it once more.                        *)
BlockFailed ==
  /\ addr # << >>
  /\ \/ ConnectFailed /\ UNCHANGED log
     \/ "no_fd" \in Env /\ log' = Append(log, REP_GENERAL_FAILURE)
  /\ socksv5_close(1, 0)
  /\ Ends("aborted")
  /\ UNCHANGED lis

\* mutant of socksv5_block: nothing is done for a name that did not resolve
BlockIgnoresFailure ==
  /\ Idle /\ resolver = "queued"
  /\ resolver' = "idle"
  /\ BlockInProgress \/ BlockSuccess \/ BlockFailed
  /\ UNCHANGED <<cl, wire>>

socksv5_block ==
  /\ Idle /\ resolver = "queued"
  /\ resolver' = "idle"
  /\ BlockNoAddress \/ BlockInProgress \/ BlockSuccess \/ BlockFailed
  /\ UNCHANGED <<cl, wire>>

(* The rest of connecting_on_block_ready once the reply is written: jump    *)
(* reads the state machine, which a failed send() has freed.                *)
connecting_on_block_ready ==
  /\ Running("connecting_on_block_ready")
  /\ IF st = "FREED" THEN Crash("aborted") ELSE Return

-----------------------------------------------------------------------------
(* states_handlers/socks5_connecting.c, the origin's socket is writable:    *)
(* the connection attempt has ended.                                        *)

(* The registered descriptor is closed before the next address is tried.    *)
(* The kernel gives the lowest free number to the next socket: the one just *)
(* closed, unless some other descriptor below it has become free.           *)
ReopenedFirst == stale' = TRUE \* mutant of Reopened: connect before close

Reopened == stale' \in {FALSE} \cup (IF "fd_shift" \in Env THEN {TRUE} ELSE {})

(* The next address is being tried: nothing is registered again. *)
RetryInProgress ==
  /\ addr # << >> /\ ConnectInProgress
  /\ Reopened
  /\ UNCHANGED <<thread, st, ci, oh, oi, ofd, lis, bufs, negot, log, metrics>>

(* socket() fails and connect_to_host returns -1, which is the value of      *)
(* CONNECTION_IN_PROGRESS: the descriptor that was closed stays registered.  *)
RetryNoSocket ==
  /\ addr # << >> /\ "no_fd" \in Env
  /\ ofd' = "neg" /\ osock' = "none"
  /\ stale' = TRUE
  /\ UNCHANGED <<thread, st, ci, oh, oi, lis, bufs, negot, addr, log, metrics,
                 okind, osent, orecv>>

(* No address is left or none can be tried.  get_code() looks at errno and  *)
(* not at the error of the socket: errno is that of the last connect() when *)
(* the addresses fail at once, and otherwise that of some other call.  That *)
(* connect_to_host succeeds at once is not told apart from a failure.       *)
RetryFailed ==
  /\ \/ addr = << >> /\ UNCHANGED stale
     \/ addr # << >> /\ ConnectFailed /\ Reopened
     \/ FirstIsInstant /\ Reopened
  /\ \E code \in ErrnoCodes :
       /\ log' = Append(log, code)
       /\ out' = WithReply(Msg("rep", code))
  /\ addr' = << >>
  /\ err' = TRUE
  /\ oh' = "none" /\ oi' = "UNREG" /\ ofd' = "neg"
  /\ ci' = "WRITE"
  /\ osock' = "none"
  /\ UNCHANGED <<thread, st, lis, in, meth, user, metrics, okind, osent, orecv>>

(* The origin has accepted.  stm_handler_read enters COPY through           *)
(* connecting_read, and copy_on_arrival registers the descriptor again.     *)
Connected ==
  /\ addr' = << >>
  /\ st' = "COPY"
  /\ oh' = "copy" /\ oi' = "NOOP"
  /\ log' = Append(log, REP_SUCCEEDED)
  /\ out' = WithReply(Msg("rep", REP_SUCCEEDED))
  /\ ci' = "WRITE"
  /\ in' = << >>
  /\ Goto("socksv5_write")
  /\ UNCHANGED <<ofd, stale, lis, negot, metrics, og>>

\* mutant of handle_write_connecting: the error of the socket is not looked at
ConnectingIgnoresError ==
  /\ Idle /\ oh = "connecting" /\ oi = "WRITE"
  /\ osock \in {"failed", "est"} /\ Connected
  /\ UNCHANGED <<resolver, cl, wire>>

(* getsockopt() does not fail here: while nothing that is closed is          *)
(* registered (Idle), origin_fd is the socket the event is for.  In Server   *)
(* origin_fd may be -1, as others may have opened the closed number again.   *)
handle_write_connecting ==
  /\ Idle /\ oh = "connecting" /\ oi = "WRITE"
  /\ \/ osock = "failed" /\ (RetryInProgress \/ RetryNoSocket \/ RetryFailed)
     \/ osock \in {"est", "closed"} /\ Connected
  /\ UNCHANGED <<resolver, cl, wire>>

-----------------------------------------------------------------------------
(* states_handlers/socks5_copy.c.  As above, the early return of            *)
(* copy_write_handler for an empty in_buff is never taken.                  *)

(* The origin has closed its side before: its descriptor is not registered, *)
(* selector_set_interest fails and the state machine enters SOCKS5_ERROR.   *)
CopyNoOrigin == oh # "copy" /\ Hangup(1)

CopyAlwaysRead(n) == "READ" \* mutant of InterestAfterCopy
CopyNoop(n) == IF n = Len(in) THEN "NOOP" ELSE "WRITE" \* mutant of InterestAfterCopy

(* The origin's descriptor after n pieces of in_buff went out. *)
InterestAfterCopy(n) == IF n = Len(in) THEN "READ" ELSE "WRITE"

CopySome ==
  LET n == Accepted(in, s2o) IN
  /\ osock \in {"est", "closed"} /\ n > 0
  /\ s2o' = IF osock = "est" THEN s2o \o Take(in, n) ELSE s2o
  /\ osock' = IF osock = "closed" THEN "broken" ELSE osock
  /\ in' = buffer_read_adv(in, n)
  /\ oi' = InterestAfterCopy(n)
  /\ ci' = IF Room(in) = 0 THEN "READ" ELSE ci
  /\ Goto("select")
  /\ UNCHANGED <<st, oh, ofd, stale, lis, out, negot, addr, resolver,
                 log, metrics, cl, okind, osent, orecv, c2s, s2c, o2s>>

CopyAgain ==
  /\ osock = "est" /\ Accepted(in, s2o) <= 0
  /\ oi' = "WRITE"
  /\ Goto("select")
  /\ UNCHANGED <<st, ci, oh, ofd, stale, lis, bufs, negot, addr, resolver,
                 log, metrics, peers, wire>>

(* send() failed: both descriptors are unregistered.  Called from           *)
(* copy_read, jump then reads the state machine that has been freed.        *)
CopyError ==
  /\ osock = "reset"
  /\ socksv5_close(0, 0)
  /\ IF pc = "copy_read" THEN Ends("aborted") ELSE Goto("select")
  /\ UNCHANGED <<lis, resolver, log, cl, wire>>

CopySigpipe == osock = "broken" /\ Crash("killed")

OriginWritable == osock # "est" \/ Accepted(in, s2o) > 0

CopyWrite == CopySome \/ CopyAgain \/ CopyError \/ CopySigpipe

copy_read ==
  /\ Running("copy_read")
  /\ CopyNoOrigin \/ (oh = "copy" /\ CopyWrite)

copy_write_handler ==
  /\ Idle /\ oh = "copy" /\ oi = "WRITE" /\ OriginWritable
  /\ CopyWrite

(* out_buff has no room: the origin has to wait for the client. *)
OriginFull ==
  /\ Room(out) = 0
  /\ oi' = "NOOP" /\ ci' = "WRITE"
  /\ UNCHANGED <<thread, st, oh, ofd, stale, lis, bufs, negot, addr, resolver,
                 log, metrics, peers, wire>>

OriginData ==
  /\ Room(out) > 0 /\ o2s # << >> /\ osock # "reset"
  /\ LET n == Least(Len(o2s), Room(out)) IN
       /\ out' = out \o Take(o2s, n)
       /\ o2s' = Drop(o2s, n)
  /\ ci' = "WRITE"
  /\ Goto("socksv5_write")
  /\ UNCHANGED <<st, oh, oi, ofd, stale, lis, in, negot, addr, resolver,
                 log, metrics, peers, c2s, s2c, s2o>>

(* recv() returned 0: the origin is forgotten, the client is not told. *)
OriginEof ==
  /\ Room(out) > 0 /\ o2s = << >> /\ osock \in {"closed", "broken"}
  /\ oh' = "none" /\ oi' = "UNREG"
  /\ UNCHANGED <<thread, st, ci, ofd, stale, lis, bufs, negot, addr, resolver,
                 log, metrics, peers, wire>>

OriginError == Room(out) > 0 /\ osock = "reset" /\ Hangup(0)

OriginReadable == o2s # << >> \/ osock # "est"

copy_read_handler ==
  /\ Idle /\ oh = "copy" /\ oi = "READ" /\ OriginReadable
  /\ OriginFull \/ OriginData \/ OriginEof \/ OriginError

(* A closed descriptor is still registered: pselect() answers EBADF, and    *)
(* main leaves its loop.                                                    *)
selector_select_EBADF ==
  /\ srv = "up" /\ pc = "select" /\ stale
  /\ Crash("exited")

-----------------------------------------------------------------------------
(* The environment. *)

server == <<thread, conn, log, metrics>>

(* A polite client waits for each reply before it goes on. *)
MaySend == csock = "open" /\ (cwait = 0 \/ "pipeline" \in Env)

ClientHello ==
  /\ MaySend /\ cstage = "hello"
  /\ \E m \in Methods :
       /\ c2s' = Append(c2s, Msg("hello", m))
       /\ cstage' = IF m = USER_PASS THEN "auth" ELSE "req"
       /\ cmeth' = m
  /\ cwait' = cwait + 1
  /\ UNCHANGED <<server, csock, ccred, csent, crecv, creps, og, s2c, s2o, o2s>>

ClientAuth ==
  /\ MaySend /\ cstage = "auth"
  /\ \E v \in Creds :
       /\ c2s' = Append(c2s, Msg("auth", v))
       /\ ccred' = v
  /\ cstage' = "req" /\ cwait' = cwait + 1
  /\ UNCHANGED <<server, csock, cmeth, csent, crecv, creps, og, s2c, s2o, o2s>>

(* An impolite client does not authenticate itself although it offered to. *)
ClientRequest ==
  /\ MaySend
  /\ cstage = "req" \/ (cstage = "auth" /\ "garbage" \in Env)
  /\ \E r \in Requests : c2s' = Append(c2s, Msg("req", r))
  /\ cstage' = "data" /\ cwait' = cwait + 1
  /\ UNCHANGED <<server, csock, cmeth, ccred, csent, crecv, creps, og, s2c, s2o, o2s>>

(* A message of some other protocol or version. *)
ClientGarbage ==
  /\ "garbage" \in Env
  /\ MaySend /\ cstage \in {"hello", "auth", "req"}
  /\ c2s' = Append(c2s, Msg("garbage", 0))
  /\ cstage' = "done" /\ cwait' = cwait + 1
  /\ UNCHANGED <<server, csock, cmeth, ccred, csent, crecv, creps, og, s2c, s2o, o2s>>

ClientData ==
  /\ MaySend /\ cstage = "data"
  /\ csent < MaxData /\ Len(c2s) < SockCap
  /\ c2s' = Append(c2s, Msg("data", csent + 1))
  /\ csent' = csent + 1
  /\ UNCHANGED <<server, cstage, cwait, csock, cmeth, ccred, crecv, creps,
                 og, s2c, s2o, o2s>>

Refuses(m) == \/ m.t = "method" /\ m.v = NO_ACCEPTABLE
              \/ m.t \in {"status", "rep"} /\ m.v # 0

(* A client that is refused closes its socket, as the RFC asks it to. *)
ClientRecv ==
  /\ csock = "open" /\ s2c # << >>
  /\ s2c' = Tail(s2c)
  /\ LET m == Head(s2c) IN
       /\ crecv' = IF m.t = "data" THEN Append(crecv, m) ELSE crecv
       /\ cwait' = IF m.t = "data" THEN cwait ELSE cwait - 1
       /\ csock' = IF Refuses(m) THEN "closed" ELSE csock
       /\ creps' = IF m.t = "rep" THEN Append(creps, m.v) ELSE creps
  /\ UNCHANGED <<server, cstage, cmeth, ccred, csent, og, c2s, s2o, o2s>>

(* The server has closed the connection, or has ended. *)
ClientSeesClose ==
  /\ csock = "open" /\ s2c = << >>
  /\ st = "FREED" \/ srv # "up"
  /\ csock' = "closed"
  /\ UNCHANGED <<server, cstage, cwait, cmeth, ccred, csent, crecv, creps, og, wire>>

ClientClose ==
  /\ csock = "open"
  /\ \/ "client_close" \in Env /\ csock' = "closed"
     \/ "client_reset" \in Env /\ csock' = "reset"
  /\ UNCHANGED <<server, cstage, cwait, cmeth, ccred, csent, crecv, creps, og, wire>>

(* The kernel ends a connection attempt. *)
ConnectEnds ==
  /\ osock = "pending"
  /\ osock' = IF okind = "up" THEN "est" ELSE "failed"
  /\ UNCHANGED <<server, cl, okind, osent, orecv, wire>>

OriginRecv ==
  /\ osock = "est" /\ s2o # << >>
  /\ orecv' = Append(orecv, Head(s2o))
  /\ s2o' = Tail(s2o)
  /\ UNCHANGED <<server, cl, osock, okind, osent, c2s, s2c, o2s>>

(* The origin answers what it has received; with "origin_first" it may also *)
(* speak unasked, as the servers of SMTP or FTP do.                         *)
OriginSend ==
  /\ osock = "est" /\ osent < MaxData /\ Len(o2s) < SockCap
  /\ orecv # << >> \/ "origin_first" \in Env
  /\ o2s' = Append(o2s, Msg("data", osent + 1))
  /\ osent' = osent + 1
  /\ UNCHANGED <<server, cl, osock, okind, orecv, c2s, s2c, s2o>>

(* A RST that comes before handle_write_connecting has looked at the socket *)
(* is an error of the attempt, as "refused" is.                             *)
OriginClose ==
  /\ osock = "est"
  /\ \/ "origin_close" \in Env /\ osock' = "closed"
     \/ "origin_reset" \in Env /\ oh # "connecting" /\ osock' = "reset"
  /\ UNCHANGED <<server, cl, okind, osent, orecv, wire>>

-----------------------------------------------------------------------------
MainThread == \/ socksv5_read \/ socksv5_write \/ socksv5_block
              \/ handshake_read \/ auth_read \/ connection_req_read
              \/ connecting_on_block_ready \/ handle_write_connecting
              \/ copy_read \/ copy_write_handler \/ copy_read_handler
              \/ selector_select_EBADF

Client == \/ ClientHello \/ ClientAuth \/ ClientRequest \/ ClientGarbage
          \/ ClientData \/ ClientRecv \/ ClientSeesClose \/ ClientClose

Origin == OriginRecv \/ OriginSend \/ OriginClose

Next == MainThread \/ resolve_host_name \/ Client \/ ConnectEnds \/ Origin

Spec == Init /\ [][Next]_vars

(* selector_select() serves every descriptor that is ready in each of its   *)
(* rounds, so no handler of the connection waits for ever; the kernel ends  *)
(* connection attempts, getaddrinfo() returns, and the peers read what they *)
(* are sent.  Nobody has to send or to close anything.                      *)
Fairness ==
  /\ WF_vars(socksv5_read) /\ WF_vars(socksv5_write) /\ WF_vars(socksv5_block)
  /\ WF_vars(handshake_read) /\ WF_vars(auth_read) /\ WF_vars(connection_req_read)
  /\ WF_vars(connecting_on_block_ready) /\ WF_vars(handle_write_connecting)
  /\ WF_vars(copy_read) /\ WF_vars(copy_write_handler) /\ WF_vars(copy_read_handler)
  /\ WF_vars(selector_select_EBADF) /\ WF_vars(resolve_host_name)
  /\ WF_vars(ConnectEnds) /\ WF_vars(ClientRecv) /\ WF_vars(ClientSeesClose)
  /\ WF_vars(OriginRecv)

FairSpec == Spec /\ Fairness

-----------------------------------------------------------------------------
Message == [t : {"hello", "method"}, v : {NO_AUTH, USER_PASS, NO_ACCEPTABLE}]
             \cup [t : {"auth", "status"}, v : {0, 1}]
             \cup [t : {"req"}, v : {CONNECT_IP, CONNECT_DOMAIN, BIND}]
             \cup [t : {"rep"}, v : Codes]
             \cup [t : {"garbage", "data"}, v : Nat]

TypeOK ==
  /\ srv \in {"up", "aborted", "killed", "exited"}
  /\ pc \in {"select", "socksv5_write", "handshake_read", "auth_read",
             "connection_req_read", "copy_read", "connecting_on_block_ready"}
  /\ ret \in {"select", "handshake_read", "auth_read", "connecting_on_block_ready"}
  /\ st \in {"NONE", "HANDSHAKE", "AUTH", "CONN_REQ", "CONNECTING", "COPY", "FREED"}
  /\ ci \in {"READ", "WRITE", "NOOP", "UNREG"}
  /\ oh \in {"none", "connecting", "copy"}
  /\ oi \in {"READ", "WRITE", "NOOP", "UNREG"}
  /\ ofd \in {"zero", "open", "neg"}
  /\ stale \in BOOLEAN
  /\ lis \in {"READ", "WRITE"}
  /\ in \in Seq(Message) /\ out \in Seq(Message)
  /\ err \in BOOLEAN /\ user \in BOOLEAN
  /\ meth \in {NO_AUTH, USER_PASS, NO_ACCEPTABLE}
  /\ addr \in Seq(AddrKind)
  /\ resolver \in {"idle", "running", "queued"}
  /\ log \in Seq(Codes)
  /\ current \in Nat /\ errors \in Nat /\ bytes \in Nat
  /\ cstage \in {"hello", "auth", "req", "data", "done"}
  /\ cwait \in Int
  /\ csock \in {"open", "closed", "broken", "reset"}
  /\ cmeth \in {NO_AUTH, USER_PASS, NO_ACCEPTABLE} /\ ccred \in {0, 1}
  /\ csent \in Nat /\ crecv \in Seq(Message) /\ creps \in Seq(Codes)
  /\ osock \in {"none", "pending", "est", "failed", "closed", "broken", "reset"}
  /\ okind \in AddrKind \cup {"none"}
  /\ osent \in Nat /\ orecv \in Seq(Message)
  /\ c2s \in Seq(Message) /\ s2c \in Seq(Message)
  /\ s2o \in Seq(Message) /\ o2s \in Seq(Message)

(* conn_req.c starts the resolver with a pointer to the connection, and      *)
(* "Los handlers no se tienen que preocupar por la concurrencia"             *)
(* (selector.h).  While the thread runs, and until the selector has handed   *)
(* its result to socksv5_block, the connection is neither freed nor moved to *)
(* a state without a block handler, in which stm_handler_block aborts.       *)
ResolverSafe == resolver # "idle" => st = "CONNECTING"

(* No connection to an origin is attempted for a client unless it asked for  *)
(* no authentication, or gave valid credentials, whatever it sends and in    *)
(* whatever pieces the messages arrive.                                      *)
AuthBeforeRelay ==
  st \in {"CONNECTING", "COPY"} \/ osock # "none"
    => cmeth = NO_AUTH \/ (cmeth = USER_PASS /\ ccred = 1)

(* The codes of the replies to the request, read, in flight or in out_buff. *)
RepsIn(q) == {q[i].v : i \in {j \in 1..Len(q) : q[j].t = "rep"}}
Replies == {creps[i] : i \in 1..Len(creps)} \cup RepsIn(s2c) \cup RepsIn(out)

(* Whatever the order of the resolver's, the kernel's and the client's       *)
(* events, the client is told one result, and it is the one that the access  *)
(* register shows for this connection (BIND and UDP ASSOCIATE are answered   *)
(* and not registered).                                                      *)
ReplyMatchesLog ==
  \A c \in Replies : log = <<c>> \/ c = REP_COMMAND_NOT_SUPPORTED

(* A client that reads "succeeded" has, or had, a connection to the origin. *)
SuccessMeansConnected ==
  REP_SUCCEEDED \in Replies => \/ osock \in {"est", "closed", "broken", "reset"}
                              \/ st = "FREED"

(* socksv5_write and copy_write_handler are never called with nothing to     *)
(* write: their early returns would drop the interest in the descriptor.     *)
WritersHaveData ==
  srv = "up" => /\ pc = "socksv5_write" \/ ci = "WRITE" => out # << >>
                /\ oh = "copy" /\ oi = "WRITE" => in # << >>

(* An interest in the selector is either to read or to write, so while data  *)
(* waits in one direction the other one is not read.  In turn one of the     *)
(* buffers is empty, and when socksv5_write lets a stopped origin read again *)
(* it does not take away the interest that would have emptied in_buff.       *)
HalfDuplex == st = "COPY" => in = << >> \/ out = << >>

(* Between two handlers, data in a buffer is matched by an interest that     *)
(* will move it, and a peer is not listened to only while the buffer it      *)
(* would fill is full.  The exception is the origin before the client has    *)
(* sent anything.                                                            *)
NoStall ==
  srv = "up" /\ pc = "select" /\ st = "COPY" =>
    /\ out # << >> => ci = "WRITE"
    /\ in # << >> => oi = "WRITE"
    /\ ci = "NOOP" => Room(in) = 0
    /\ oi = "NOOP" => Room(out) = 0 \/ orecv \o s2o = << >>

Data(n) == [i \in 1..n |-> Msg("data", i)]

(* From end to end, nothing the client sent is lost, repeated or reordered   *)
(* on its way through in_buff, whatever send() and recv() accept.            *)
RelayToOrigin ==
  st = "COPY" /\ osock = "est" => orecv \o s2o \o in \o c2s = Data(csent)

(* The same towards the client, after the replies that it has not read yet;  *)
(* and the reply to its request comes before the data.                       *)
RelayToClient ==
  st = "COPY" /\ csock = "open" =>
    /\ \E k \in 0..Len(s2c \o out) : /\ \A i \in 1..k : IsReply((s2c \o out)[i])
                                    /\ crecv \o Drop(s2c \o out, k) \o o2s = Data(osent)
    /\ crecv # << >> => creps = <<REP_SUCCEEDED>>

(* The server goes on whatever becomes of this connection. *)
ServerUp == srv = "up"

(* Whenever the thread is in the selector, the SOCKS listener is watched for *)
(* new clients.                                                              *)
ListenerReads == srv = "up" /\ pc = "select" => lis = "READ"

(* Every request is answered with a reply. *)
RequestAnswered == cstage = "data" /\ cwait > 0 ~> creps # << >>

(* When one of the addresses of the origin can be reached, the client is     *)
(* connected to it, however many of those before it cannot.                  *)
FallbackWorks ==
  (st = "CONNECTING" /\ \E i \in 1..Len(addr) : addr[i] = "up") ~> st = "COPY"

(* What the client sends reaches the origin, through full buffers and        *)
(* sockets.                                                                  *)
UpstreamDelivered == \A n \in 1..MaxData : csent >= n ~> Len(orecv) >= n

(* What the origin sends in answer to data reaches the client, through full  *)
(* buffers and sockets.  What an origin sends first is not read until the    *)
(* client has sent something.                                                *)
DownstreamDelivered == \A n \in 1..MaxData : osent >= n ~> Len(crecv) >= n
=============================================================================
