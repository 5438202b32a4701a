------------------------------- MODULE Server -------------------------------
(* The whole process: the listeners, the SOCKS and the administration       *)
(* connections, the resolver threads and the selector's rounds, seen from   *)
(* the descriptors they share.                                              *)
(*                                                                          *)
(* The kernel gives out the lowest number that is free and forgets a number *)
(* as soon as it is closed.  The program keeps such numbers in three        *)
(* places: the connections (client_fd, origin_fd), the selector's table and *)
(* the sets of events and jobs that wait to be handled.  What a connection  *)
(* says to its peers is the business of module Socks5: here a handler of a  *)
(* connection is what it does to descriptors and counters, and which of its *)
(* outcomes happens is left open.                                           *)
EXTENDS Integers, FiniteSets, Sequences, FiniteSetsExt

CONSTANTS
  Conns,    \* the clients of the SOCKS service
  Admins,   \* the clients of the administration service
  NFd,      \* descriptors the process may have
  SetSize,  \* FD_SETSIZE
  MaxAddrs, \* addresses getaddrinfo() finds for a name, at most
  MaxConns, \* the values SET_MAX_CONN may be given; the first one is the least
  Env       \* what else may happen

(* "dns": the resolver threads use descriptors; "race": they may take one    *)
(* while a handler runs; "no_mem": malloc() fails; "unreach": connect() may  *)
(* fail at once; "sigterm": the process is asked to stop.                    *)
EnvFlags == {"dns", "race", "no_mem", "unreach", "sigterm"}

Fd == 0..(NFd - 1)
SOCKS == 0 \* main closes descriptor 0 before it creates the listeners
ADMIN == 1 \* the next one but stdout, stderr and the log, which are left out
Listeners == {SOCKS, ADMIN}

Peers == Conns \cup Admins
Nobody == "nobody"
NoFd == -1

ASSUME FdAssumption == /\ NFd \in Nat /\ NFd >= 2
                       /\ SetSize \in Nat /\ MaxAddrs \in Nat
ASSUME MaxConnsAssumption == MaxConns \subseteq Nat \ {0} /\ MaxConns # {}
ASSUME PeersAssumption == /\ IsFiniteSet(Conns)
                          /\ Conns \cap Admins = {} /\ Nobody \notin Peers
ASSUME EnvAssumption == Env \subseteq EnvFlags

VARIABLES
  srv,      \* the process: "up", or how it ended
  done,     \* SIGTERM has arrived
  pc,       \* where the main thread is
  who,      \* in the middle of a handler: its connection
  file,     \* the kernel's table of descriptors
  item,     \* the selector's table
  slave,    \* the events of this round not yet looked at, with the peer they are about
  jobs,     \* s->resolution_jobs
  st,       \* the peers
  cfd, ofd, \* client_fd (or the fd of an administration connection) and origin_fd
  left,     \* addresses in addr_info
  moved,    \* history: the connections whose next socket had another number
  dns,      \* the descriptor a resolver thread is using
  current, total, max_conn

kernel == <<file, dns>>
counters == <<current, total>>
vars == <<srv, done, pc, who, file, item, slave, jobs, st, cfd, ofd, left, moved, dns,
          current, total, max_conn>>

Free == [k |-> "free", c |-> Nobody]
File(kind, p) == [k |-> kind, c |-> p]
Unused == [h |-> "none", c |-> Nobody, on |-> FALSE]
Item(handler, p, interest) == [h |-> handler, c |-> p, on |-> interest]

FreeFds == {f \in Fd : file[f] = Free}
NewFd == Min(FreeFds)

Used(f) == item[f].h # "none"
Watched == {f \in Fd : Used(f) /\ item[f].on}

LiveStates == {"nego", "resolving", "queued", "connecting", "copy", "failing"}
Live == {c \in Conns : st[c] \in LiveStates}

(* close() and the removal of an item, by number.  A number that is not open *)
(* or not registered is left alone, as EBADF and SELECTOR_IARGS do.          *)
Closed(fs) == [f \in Fd |-> IF f \in fs THEN Free ELSE file[f]]
Unregistered(fs) == [f \in Fd |-> IF f \in fs THEN Unused ELSE item[f]]

(* What main sets up before its loop. *)
Init ==
  /\ srv = "up" /\ done = FALSE /\ pc = "pselect" /\ who = Nobody
  /\ file = [f \in Fd |-> IF f \in Listeners THEN File("listener", Nobody) ELSE Free]
  /\ item = [f \in Fd |-> CASE f = SOCKS -> Item("socks_listener", Nobody, TRUE)
                            [] f = ADMIN -> Item("admin_listener", Nobody, TRUE)
                            [] OTHER -> Unused]
  /\ slave = {} /\ jobs = << >>
  /\ st = [p \in Peers |-> "none"]
  /\ cfd = [p \in Peers |-> NoFd]
  /\ ofd = [c \in Conns |-> 0] /\ left = [c \in Conns |-> 0]
  /\ moved = {} /\ dns = [c \in Conns |-> NoFd]
  /\ current = 0 /\ total = 0
  /\ max_conn = Min(MaxConns)

-----------------------------------------------------------------------------
(* The round of selector_select. *)

Waiting(S) == {p \in S : st[p] = "waiting"}

(* What pselect() may report: the listeners when somebody waits, and any of  *)
(* the other descriptors that are watched.                                   *)
ReadyListeners == (IF Waiting(Conns) # {} THEN {SOCKS} ELSE {})
                    \cup (IF Waiting(Admins) # {} THEN {ADMIN} ELSE {})

PselectReturns ==
  /\ ~done
  /\ \A f \in Watched : file[f] # Free
  /\ \E S \in SUBSET (Watched \ Listeners) :
       slave' = {<<f, item[f].c>> : f \in S \cup (ReadyListeners \cap Watched)}
  /\ pc' = "iterate"
  /\ UNCHANGED srv

(* A descriptor was closed and is still registered: main leaves its loop. *)
PselectEbadf ==
  /\ \E f \in Watched : file[f] = Free
  /\ srv' = "exited"
  /\ UNCHANGED <<pc, slave>>

(* A resolver's signal or SIGTERM: the events have to wait.  An interruption *)
(* that finds no job changes nothing and is left out.                        *)
PselectInterrupted ==
  /\ jobs # << >> \/ done
  /\ pc' = "blocks"
  /\ UNCHANGED <<srv, slave>>

selector_select ==
  /\ srv = "up" /\ pc = "pselect"
  /\ PselectReturns \/ PselectEbadf \/ PselectInterrupted
  /\ UNCHANGED <<done, who, file, item, jobs, st, cfd, ofd, left, moved, dns, current, total, max_conn>>

\* mutant of Turn: the descriptors are looked at in any order
TurnAny(f) ==
  /\ srv = "up" /\ pc = "iterate"
  /\ \E e \in slave : e[1] = f /\ slave' = slave \ {e}

(* handle_iteration looks at the descriptors in ascending order. *)
Turn(f) ==
  /\ srv = "up" /\ pc = "iterate"
  /\ \E e \in slave : e[1] = f /\ (\A g \in slave : f <= g[1]) /\ slave' = slave \ {e}

(* An event that nobody is interested in any more, or that changes neither   *)
(* descriptors nor counters: data is read, relayed or answered.              *)
Nothing(f) ==
  /\ Turn(f) /\ f \notin Listeners
  /\ UNCHANGED <<srv, done, pc, who, file, item, jobs, st, cfd, ofd, left, moved, dns, current, total, max_conn>>

IterationEnds ==
  /\ srv = "up" /\ pc = "iterate" /\ slave = {}
  /\ pc' = "blocks"
  /\ UNCHANGED <<srv, done, who, file, item, slave, jobs, st, cfd, ofd, left, moved, dns, current, total, max_conn>>

(* main looks at done before the next round. *)
BlocksEnd ==
  /\ srv = "up" /\ pc = "blocks" /\ jobs = << >>
  /\ pc' = IF done THEN "stop" ELSE "pselect"
  /\ UNCHANGED <<srv, done, who, file, item, slave, jobs, st, cfd, ofd, left, moved, dns, current, total, max_conn>>

(* The event of f is handled by h for its connection. *)
Handles(f, h) == Turn(f) /\ item[f].h = h /\ item[f].on

-----------------------------------------------------------------------------
(* connection_helper.c, socksv5_passive_accept and s5admin_passive_accept. *)

(* accept() has a number to give and selector_register takes it. *)
CanRegister == FreeFds # {} /\ NewFd < SetSize /\ ~Used(NewFd)

Registered(p, handler) ==
  /\ file' = [file EXCEPT ![NewFd] = File("client", p)]
  /\ item' = [item EXCEPT ![NewFd] = Item(handler, p, TRUE)]
  /\ cfd' = [cfd EXCEPT ![p] = NewFd]

\* mutant of Refused: the limit is looked at before accept()
RefusedUnaccepted(p) == UNCHANGED <<st, file, item, cfd>>

(* The peer's socket is closed as soon as it has been accepted. *)
Refused(p) == st' = [st EXCEPT ![p] = "refused"] /\ UNCHANGED <<file, item, cfd>>

\* mutant of MaxReached: one connection more than allowed
MaxExceeded == current > max_conn

MaxReached == current >= max_conn

metrics_dec_curr_conn(n) == IF current >= n THEN current - n ELSE 0

socksv5_passive_accept ==
  /\ Handles(SOCKS, "socks_listener")
  /\ \/ FreeFds = {} /\ UNCHANGED <<file, item, st, cfd, counters>>
     \* calloc() fails
     \/ "no_mem" \in Env /\ ~MaxReached /\ UNCHANGED <<file, item, st, cfd, counters>>
     \/ /\ FreeFds # {}
        /\ \E c \in Waiting(Conns) :
             \/ (MaxReached \/ ~CanRegister) /\ Refused(c) /\ UNCHANGED counters
             \* malloc() fails: socksv5_close undoes the registration and counts
             \/ /\ ~MaxReached /\ CanRegister /\ "no_mem" \in Env
                /\ Refused(c)
                /\ current' = metrics_dec_curr_conn(1)
                /\ UNCHANGED total
             \/ /\ ~MaxReached /\ CanRegister
                /\ Registered(c, "socks5")
                /\ st' = [st EXCEPT ![c] = "nego"]
                /\ current' = current + 1 /\ total' = total + 1
  /\ UNCHANGED <<srv, done, pc, who, jobs, ofd, left, moved, dns, max_conn>>

s5admin_passive_accept ==
  /\ Handles(ADMIN, "admin_listener")
  /\ \/ FreeFds = {} /\ UNCHANGED <<file, item, st, cfd>>
     \/ "no_mem" \in Env /\ UNCHANGED <<file, item, st, cfd>>
     \/ /\ FreeFds # {}
        /\ \E a \in Waiting(Admins) :
             \/ ~CanRegister /\ Refused(a)
             \/ /\ CanRegister
                /\ Registered(a, "admin")
                /\ st' = [st EXCEPT ![a] = "open"]
  /\ UNCHANGED <<srv, done, pc, who, jobs, ofd, left, moved, dns, counters, max_conn>>

-----------------------------------------------------------------------------
(* The end of a connection. *)

\* mutant of socksv5_close: the origin's socket is not closed
CloseForgetsOrigin(c) ==
  /\ file' = Closed({cfd[c]})
  /\ item' = Unregistered({cfd[c], ofd[c]} \ {0})
  /\ st' = [st EXCEPT ![c] = "freed"]
  /\ current' = metrics_dec_curr_conn(1)

\* mutant of socksv5_close: the counter is left alone
CloseUncounted(c) ==
  /\ file' = Closed({cfd[c], ofd[c]} \ {0})
  /\ item' = Unregistered({cfd[c], ofd[c]} \ {0})
  /\ st' = [st EXCEPT ![c] = "freed"]
  /\ UNCHANGED current

(* selector_unregister_fd on origin_fd and client_fd, and the handle_close   *)
(* that the second one runs.                                                 *)
socksv5_close(c) ==
  /\ file' = Closed({cfd[c], ofd[c]} \ {0})
  /\ item' = Unregistered({cfd[c], ofd[c]} \ {0})
  /\ st' = [st EXCEPT ![c] = "freed"]
  /\ current' = metrics_dec_curr_conn(1)

(* The client has closed, sent something wrong or read its refusal, or a     *)
(* send() to it failed.                                                      *)
ClientHangup(f) ==
  /\ Handles(f, "socks5")
  /\ socksv5_close(item[f].c)
  /\ UNCHANGED <<srv, done, pc, who, jobs, cfd, ofd, left, moved, dns, total, max_conn>>

(* The origin's socket fails during the relay: both are closed. *)
OriginError(f) ==
  /\ Handles(f, "copy")
  /\ socksv5_close(item[f].c)
  /\ UNCHANGED <<srv, done, pc, who, jobs, cfd, ofd, left, moved, dns, total, max_conn>>

(* The origin closes: its descriptor is not watched any more, and stays open *)
(* until the client goes.                                                    *)
OriginEof(f) ==
  /\ Handles(f, "copy")
  /\ item' = Unregistered({f})
  /\ UNCHANGED <<srv, done, pc, who, file, jobs, st, cfd, ofd, left, moved, dns, current, total, max_conn>>

AdminHangup(f) ==
  /\ Handles(f, "admin")
  /\ file' = Closed({f}) /\ item' = Unregistered({f})
  /\ st' = [st EXCEPT ![item[f].c] = "freed"]
  /\ UNCHANGED <<srv, done, pc, who, jobs, cfd, ofd, left, moved, dns, counters, max_conn>>

(* SET_MAX_CONN *)
set_max_conn(f, n) ==
  /\ Handles(f, "admin")
  /\ max_conn' = n
  /\ UNCHANGED <<srv, done, pc, who, file, item, jobs, st, cfd, ofd, left, moved, dns, counters>>

-----------------------------------------------------------------------------
(* The request, the resolver and the connection to the origin. *)

(* The client is not watched while its request is being resolved. *)
connection_req_read(f) ==
  /\ Handles(f, "socks5") /\ st[item[f].c] = "nego"
  /\ st' = [st EXCEPT ![item[f].c] = "resolving"]
  /\ item' = [item EXCEPT ![f].on = FALSE]
  /\ UNCHANGED <<srv, done, pc, who, file, jobs, cfd, ofd, left, moved, dns, current, total, max_conn>>

(* getaddrinfo() opens files and sockets of its own. *)
ResolverOpens(c) ==
  /\ srv = "up" /\ "dns" \in Env
  /\ st[c] = "resolving" /\ dns[c] = NoFd /\ FreeFds # {}
  /\ pc = "closed" => "race" \in Env
  /\ file' = [file EXCEPT ![NewFd] = File("dns", c)]
  /\ dns' = [dns EXCEPT ![c] = NewFd]
  /\ UNCHANGED <<srv, done, pc, who, item, slave, jobs, st, cfd, ofd, left, moved, current, total, max_conn>>

ResolverCloses(c) ==
  /\ srv = "up" /\ dns[c] # NoFd
  /\ file' = Closed({dns[c]})
  /\ dns' = [dns EXCEPT ![c] = NoFd]
  /\ UNCHANGED <<srv, done, pc, who, item, slave, jobs, st, cfd, ofd, left, moved, current, total, max_conn>>

(* selector_notify_block, which waits for the mutex while the jobs are being *)
(* handled.                                                                  *)
resolve_host_name(c) ==
  /\ srv = "up" /\ st[c] = "resolving" /\ dns[c] = NoFd
  /\ pc # "blocks"
  /\ jobs' = <<cfd[c]>> \o jobs
  /\ st' = [st EXCEPT ![c] = "queued"]
  /\ \E n \in 0..MaxAddrs : left' = [left EXCEPT ![c] = n]
  /\ UNCHANGED <<srv, done, pc, who, file, item, slave, cfd, ofd, moved, dns, current, total, max_conn>>

(* The socket for the next address in the list. *)
Socket(c) ==
  /\ left[c] > 0 /\ FreeFds # {}
  /\ file' = [file EXCEPT ![NewFd] = File("origin", c)]
  /\ ofd' = [ofd EXCEPT ![c] = NewFd]

Job == item[Head(jobs)].c

(* No address: an error reply is queued. *)
BlockNoAddress ==
  /\ st[Job] = "queued" /\ left[Job] = 0
  /\ st' = [st EXCEPT ![Job] = "failing"]
  /\ item' = [item EXCEPT ![Head(jobs)].on = TRUE]
  /\ UNCHANGED <<srv, file, ofd, left>>

(* connect() goes on in the background, for the first address or, when the   *)
(* ones before it are unreachable, for another one.                          *)
BlockInProgress ==
  /\ st[Job] = "queued" /\ Socket(Job) /\ CanRegister
  /\ \E n \in 0..(left[Job] - 1) :
       /\ n < left[Job] - 1 => "unreach" \in Env
       /\ left' = [left EXCEPT ![Job] = n]
  /\ st' = [st EXCEPT ![Job] = "connecting"]
  /\ item' = [item EXCEPT ![NewFd] = Item("connecting", Job, TRUE)]
  /\ UNCHANGED srv

(* connect() has succeeded already.  copy_on_arrival goes on without a       *)
(* registration when there is none to be had.                                *)
BlockSuccess ==
  /\ st[Job] = "queued" /\ Socket(Job)
  /\ left' = [left EXCEPT ![Job] = 0]
  /\ st' = [st EXCEPT ![Job] = "copy"]
  /\ item' = [f \in Fd |-> CASE f = Head(jobs) -> [item[f] EXCEPT !.on = TRUE]
                             [] f = NewFd /\ CanRegister -> Item("copy", Job, TRUE)
                             [] OTHER -> item[f]]
  /\ UNCHANGED srv

(* A descriptor that cannot be had or registered, or no address that can be  *)
(* tried: the connection is closed and used once more.  A job for a          *)
(* connection that does not wait for one aborts in stm_handler_block.        *)
BlockAborts ==
  /\ \/ st[Job] # "queued"
     \/ left[Job] > 0 /\ (~CanRegister \/ "unreach" \in Env)
  /\ srv' = "aborted"
  /\ UNCHANGED <<file, item, st, ofd, left>>

\* mutant of socksv5_block: the job stays in the list
BlockKeepsJob ==
  /\ srv = "up" /\ pc = "blocks" /\ jobs # << >>
  /\ UNCHANGED jobs
  /\ item[Head(jobs)].h = "socks5"
  /\ BlockNoAddress \/ BlockInProgress \/ BlockSuccess \/ BlockAborts
  /\ UNCHANGED <<done, pc, who, slave, cfd, moved, dns, current, total, max_conn>>

(* handle_block_notifications takes the jobs from the list.  Only SOCKS      *)
(* connections have a handle_block.                                          *)
socksv5_block ==
  /\ srv = "up" /\ pc = "blocks" /\ jobs # << >>
  /\ jobs' = Tail(jobs)
  /\ item[Head(jobs)].h = "socks5"
  /\ BlockNoAddress \/ BlockInProgress \/ BlockSuccess \/ BlockAborts
  /\ UNCHANGED <<done, pc, who, slave, cfd, moved, dns, current, total, max_conn>>

(* The attempt has succeeded: the descriptor is registered again for COPY.   *)
(* Without a socket (origin_fd is -1) getsockopt() fails, the error it would *)
(* have stored stays 0, and the code goes on in the same way; nothing is     *)
(* registered then.                                                          *)
Connected(c) ==
  /\ st[c] = "connecting"
  /\ st' = [st EXCEPT ![c] = "copy"]
  /\ left' = [left EXCEPT ![c] = 0]
  /\ item' = [item EXCEPT ![ofd[c]] = Item("copy", c, TRUE), ![cfd[c]].on = TRUE]
  /\ UNCHANGED <<srv, pc, who, file>>

(* The attempt has failed: first of all, the registered descriptor is        *)
(* closed.                                                                   *)
ConnectFails(c) ==
  /\ st[c] = "connecting" /\ ofd[c] # NoFd
  /\ file' = Closed({ofd[c]})
  /\ pc' = "closed" /\ who' = c
  /\ UNCHANGED <<srv, item, st, left>>

(* The item has outlived the attempt: the connection has been freed, or has  *)
(* no origin any more.  What the program does then is not followed.          *)
ConnectionGone(c) ==
  /\ st[c] # "connecting"
  /\ srv' = "lost"
  /\ UNCHANGED <<pc, who, file, item, st, left>>

handle_write_connecting(f) ==
  /\ Handles(f, "connecting")
  /\ \E c \in {item[f].c} : Connected(c) \/ ConnectFails(c) \/ ConnectionGone(c)
  /\ UNCHANGED <<done, jobs, cfd, ofd, moved, dns, current, total, max_conn>>

HandlerReturns == pc' = "iterate" /\ who' = Nobody

NumberNoted == moved' = IF ofd'[who] = ofd[who] THEN moved ELSE moved \cup {who}

(* The next address is tried with a new socket, and nothing is registered.   *)
(* Without a socket -1 is taken for CONNECTION_IN_PROGRESS.                  *)
RetryInProgress ==
  /\ \/ Socket(who) /\ left' = [left EXCEPT ![who] = @ - 1]
     \/ /\ left[who] > 0 /\ FreeFds = {}
        /\ ofd' = [ofd EXCEPT ![who] = NoFd] /\ UNCHANGED <<file, left>>
  /\ NumberNoted /\ HandlerReturns
  /\ UNCHANGED <<item, st>>

(* connect() fails at once: the socket is closed and its number is kept. *)
RetryUnreachable ==
  /\ "unreach" \in Env /\ left[who] > 0 /\ FreeFds # {}
  /\ ofd' = [ofd EXCEPT ![who] = NewFd]
  /\ left' = [left EXCEPT ![who] = @ - 1]
  /\ NumberNoted
  /\ UNCHANGED <<pc, who, file, item, st>>

(* connect() succeeds at once, which is taken for a failure: the error reply *)
(* and the end of the new socket follow in GiveUp.                           *)
RetrySuccess ==
  /\ Socket(who) /\ left' = [left EXCEPT ![who] = 0]
  /\ NumberNoted
  /\ UNCHANGED <<pc, who, item, st>>

\* mutant of GiveUp: the descriptor stays registered
GiveUpRegistered ==
  /\ left[who] = 0
  /\ file' = Closed({ofd[who]})
  /\ item' = [item EXCEPT ![cfd[who]].on = TRUE]
  /\ ofd' = [ofd EXCEPT ![who] = NoFd]
  /\ st' = [st EXCEPT ![who] = "failing"]
  /\ HandlerReturns
  /\ UNCHANGED <<left, moved>>

(* No address is left: the number is unregistered and closed once more, and  *)
(* an error reply is queued.                                                 *)
GiveUp ==
  /\ left[who] = 0
  /\ file' = Closed({ofd[who]})
  /\ item' = [Unregistered({ofd[who]}) EXCEPT ![cfd[who]].on = TRUE]
  /\ ofd' = [ofd EXCEPT ![who] = NoFd]
  /\ st' = [st EXCEPT ![who] = "failing"]
  /\ HandlerReturns
  /\ UNCHANGED <<left, moved>>

(* The rest of handle_write_connecting after the first close(). *)
connect_to_host ==
  /\ srv = "up" /\ pc = "closed"
  /\ RetryInProgress \/ RetryUnreachable \/ RetrySuccess \/ GiveUp
  /\ UNCHANGED <<srv, done, slave, jobs, cfd, dns, current, total, max_conn>>

-----------------------------------------------------------------------------
(* The peers, and the end of the process. *)

PeerArrives(p) ==
  /\ srv = "up" /\ st[p] = "none"
  /\ st' = [st EXCEPT ![p] = "waiting"]
  /\ UNCHANGED <<srv, done, pc, who, file, item, slave, jobs, cfd, ofd, left, moved, dns, current, total, max_conn>>

(* done is looked at between two rounds only: a signal that comes before     *)
(* pselect() or while events are handled might as well come after them.      *)
sigterm_handler ==
  /\ srv = "up" /\ ~done /\ "sigterm" \in Env
  /\ pc = "pselect" \/ (pc = "blocks" /\ jobs = << >>)
  /\ done' = TRUE
  /\ UNCHANGED <<srv, pc, who, file, item, slave, jobs, st, cfd, ofd, left, moved, dns, current, total, max_conn>>

(* main leaves its loop and selector_destroy unregisters everything, which   *)
(* closes every connection.                                                  *)
Shutdown ==
  /\ srv = "up" /\ pc = "stop"
  /\ LET clients == {f \in Fd : item[f].h \in {"socks5", "admin"}}
         owners == {item[f].c : f \in clients} IN
       /\ file' = Closed(clients \cup ({ofd[c] : c \in owners \cap Conns} \ {0}))
       /\ st' = [p \in Peers |-> IF p \in owners THEN "freed" ELSE st[p]]
       /\ current' = metrics_dec_curr_conn(Cardinality(owners \cap Conns))
  /\ item' = [f \in Fd |-> Unused]
  /\ jobs' = << >>
  /\ srv' = "stopped"
  /\ UNCHANGED <<done, pc, who, slave, cfd, ofd, left, moved, dns, total, max_conn>>

MainThread ==
  \/ selector_select \/ IterationEnds \/ BlocksEnd \/ Shutdown
  \/ socksv5_passive_accept \/ s5admin_passive_accept
  \/ \E f \in Fd : \/ Nothing(f) \/ ClientHangup(f) \/ OriginError(f) \/ OriginEof(f)
                   \/ AdminHangup(f) \/ (\E n \in MaxConns : set_max_conn(f, n))
                   \/ connection_req_read(f) \/ handle_write_connecting(f)
  \/ socksv5_block \/ connect_to_host

Resolver(c) == ResolverOpens(c) \/ ResolverCloses(c) \/ resolve_host_name(c)

Next == \/ MainThread
        \/ \E c \in Conns : Resolver(c)
        \/ \E p \in Peers : PeerArrives(p)
        \/ sigterm_handler

Spec == Init /\ [][Next]_vars

(* The main thread runs, and getaddrinfo() returns.  Nobody has to connect,  *)
(* and no connection has to end.                                             *)
FairSpec == Spec /\ WF_vars(MainThread) /\ \A c \in Conns : WF_vars(resolve_host_name(c))

-----------------------------------------------------------------------------
TypeOK ==
  /\ srv \in {"up", "exited", "aborted", "stopped", "lost"} /\ done \in BOOLEAN
  /\ pc \in {"pselect", "iterate", "closed", "blocks", "stop"}
  /\ who \in Conns \cup {Nobody}
  /\ file \in [Fd -> [k : {"free", "listener", "client", "origin", "dns"}, c : Peers \cup {Nobody}]]
  /\ item \in [Fd -> [h : {"none", "socks_listener", "admin_listener", "socks5",
                           "connecting", "copy", "admin"},
                      c : Peers \cup {Nobody}, on : BOOLEAN]]
  /\ slave \subseteq Fd \X (Peers \cup {Nobody})
  /\ jobs \in Seq(Fd)
  /\ st \in [Peers -> {"none", "waiting", "refused", "open", "freed"} \cup LiveStates]
  /\ cfd \in [Peers -> Fd \cup {NoFd}]
  /\ ofd \in [Conns -> Fd \cup {NoFd}] /\ left \in [Conns -> 0..MaxAddrs]
  /\ moved \subseteq Conns /\ dns \in [Conns -> Fd \cup {NoFd}]
  /\ current \in Nat /\ total \in Nat /\ max_conn \in MaxConns

(* GET_METRICS: the connections that are open are the ones that were counted *)
(* and not yet uncounted, on every path that ends one of them.               *)
CountersMatch == current = Cardinality(Live) /\ current <= total

(* S5Admin.md, SET_MAX_CONN: "no se permiten nuevas conexiones hasta que la  *)
(* cantidad de conexiones activas sea menor al nuevo máximo".  A client is   *)
(* admitted only while fewer than max_conn are active, whatever has been     *)
(* refused, closed or set in between.                                        *)
LimitKept ==
  [][\A c \in Conns : st[c] = "waiting" /\ st'[c] = "nego"
                        => Cardinality(Live) < max_conn]_vars

(* A number kept by a connection or by a resolver thread stands for the      *)
(* descriptor it was given for, as long as it is kept: no handler closes a   *)
(* number that somebody else has been given meanwhile.                       *)
KeptIsOpen ==
  /\ \A p \in Peers : st[p] \in LiveStates \cup {"open"} => file[cfd[p]] = File("client", p)
  /\ \A c \in Conns : st[c] \in {"connecting", "copy"} /\ who # c
                        => file[ofd[c]] = File("origin", c)
  /\ \A c \in Conns : dns[c] # NoFd => file[dns[c]] = File("dns", c)

(* A descriptor that is open is kept by somebody who will close it. *)
OpenIsKept ==
  \A f \in Fd :
    LET c == file[f].c IN
    CASE file[f].k = "client" -> cfd[c] = f /\ st[c] \in LiveStates \cup {"open"}
      [] file[f].k = "origin" -> ofd[c] = f /\ st[c] \in {"connecting", "copy"}
      [] file[f].k = "dns" -> dns[c] = f
      [] OTHER -> TRUE

OwnDescriptors == KeptIsOpen /\ OpenIsKept

(* Number f is open and is the one that the handler registered for it works  *)
(* on.                                                                       *)
ItemIsOpen(f) == /\ file[f].k # "free" /\ file[f].c = item[f].c
                 /\ file[f].k = "client" => item[f].h \in {"socks5", "admin"}

(* "ayuda a encontrar casos donde se cierran los fd pero no se               *)
(* desregistraron" (selector.c, EBADF): whenever pselect() is called, every  *)
(* number that is registered is open and belongs to its handler.             *)
WatchedIsOpen ==
  srv = "up" /\ pc = "pselect" => \A f \in Fd : Used(f) => ItemIsOpen(f)

(* Connections that end, fail, are refused or are retried on the same number *)
(* leave no closed descriptor in the selector: only an attempt on another    *)
(* address with a socket of another number does.                             *)
OnlyRetriesLeaveItems ==
  srv = "up" /\ pc = "pselect" =>
    \A f \in Fd : Used(f) => ItemIsOpen(f) \/ (item[f].h = "connecting" /\ item[f].c \in moved)

(* Connections end and descriptors are opened in the middle of a round.  An  *)
(* event that pselect() has reported for one connection is never given to    *)
(* another one that has got its number: the listeners have the lowest        *)
(* numbers, and the block handlers run when the events have been handled.    *)
EventsReachTheirOwner ==
  \A e \in slave : Used(e[1]) => item[e[1]].c = e[2]

(* The job of a resolver reaches the connection that waits for it. *)
JobsReachTheirOwner ==
  \A i \in 1..Len(jobs) : \E c \in Conns : /\ st[c] = "queued" /\ cfd[c] = jobs[i]
                                           /\ item[jobs[i]].c = c

(* Whoever connects is admitted or refused, while the process runs. *)
EveryPeerIsTaken ==
  \A p \in Peers : st[p] = "waiting" ~> st[p] # "waiting" \/ srv # "up" \/ done
=============================================================================
