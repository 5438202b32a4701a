---------------------------- MODULE ServerProofs ----------------------------
(* Descriptors, registrations, events, jobs and counters agree, for any     *)
(* number of clients, descriptors, addresses and rounds.                    *)
EXTENDS Server, FiniteSetTheorems, SequenceTheorems, WellFoundedInduction, TLAPS

(* The conditions under which they do.  A resolver thread that takes a      *)
(* descriptor between the close() and the socket() of a retry may be given  *)
(* the number that handle_write_connecting closes once more; and            *)
(* socksv5_passive_accept uncounts a connection that it has not counted     *)
(* when there is no memory for it.                                          *)
NoRace == "race" \notin Env
MemoryLeft == "no_mem" \notin Env

-----------------------------------------------------------------------------
(* The inductive invariant. *)

ClientStates == LiveStates \cup {"open"}
OriginStates == {"connecting", "copy"}

(* Each service has its own states. *)
Services == /\ \A c \in Conns : st[c] # "open"
            /\ \A a \in Admins : st[a] \notin LiveStates

ListenersOpen == \A f \in Listeners : file[f] = File("listener", Nobody)

(* A client's descriptor is open and registered, and is not watched while    *)
(* the origin is being looked for.                                           *)
ClientHeld(p) ==
  st[p] \in ClientStates =>
    /\ cfd[p] \in Fd /\ file[cfd[p]] = File("client", p)
    /\ item[cfd[p]].c = p
    /\ item[cfd[p]].h = IF p \in Conns THEN "socks5" ELSE "admin"
    /\ st[p] \in {"resolving", "queued", "connecting"} => ~item[cfd[p]].on

Clients == \A p \in Peers : ClientHeld(p)

OriginHeld(c) ==
  /\ st[c] \in OriginStates => ofd[c] \in Fd /\ (who # c => file[ofd[c]] = File("origin", c))
  /\ st[c] \notin OriginStates \cup {"freed"} => ofd[c] \in {0, NoFd}

Origins == \A c \in Conns : OriginHeld(c)

Resolvers ==
  \A c \in Conns : dns[c] # NoFd => dns[c] \in Fd /\ file[dns[c]] = File("dns", c)

(* Between the close() and the end of handle_write_connecting.  A socket is  *)
(* open there only when the last attempt has succeeded at once.              *)
InHandler ==
  /\ pc # "closed" => who = Nobody
  /\ pc = "closed" => /\ who \in Conns /\ st[who] = "connecting"
                      /\ \/ file[ofd[who]] = Free
                         \/ file[ofd[who]] = File("origin", who) /\ left[who] = 0

(* Who a descriptor belongs to. *)
FileHeld(f) ==
  \/ file[f] = Free
  \/ f \in Listeners
  \/ \E p \in Peers : file[f] = File("client", p) /\ cfd[p] = f /\ st[p] \in ClientStates
  \/ \E c \in Conns : file[f] = File("origin", c) /\ ofd[c] = f /\ st[c] \in OriginStates
  \/ \E c \in Conns : file[f] = File("dns", c) /\ dns[c] = f

Files == \A f \in Fd : FileHeld(f)

(* Who a registration belongs to.  The one that a retry leaves behind is at  *)
(* a number above that of the new socket.                                    *)
ItemHeld(f) ==
  LET c == item[f].c IN
  /\ item[f].h = "socks_listener" => f = SOCKS /\ c = Nobody
  /\ item[f].h = "admin_listener" => f = ADMIN /\ c = Nobody
  /\ item[f].h = "socks5" => c \in Conns /\ st[c] \in LiveStates /\ cfd[c] = f
  /\ item[f].h = "admin" => c \in Admins /\ st[c] = "open" /\ cfd[c] = f
  /\ item[f].h = "copy" => c \in Conns /\ st[c] = "copy" /\ ofd[c] = f
  /\ item[f].h = "connecting" => /\ c \in Conns /\ f \notin Listeners
                                 /\ c \in moved \/ (st[c] = "connecting" /\ ofd[c] = f)
                                 /\ st[c] = "connecting" => ofd[c] <= f

Items == \A f \in Fd : ItemHeld(f)

MovedHaveTried == \A c \in moved : st[c] \in {"connecting", "copy", "failing", "freed"}

(* While a listener's event waits, nothing that was reported has gone. *)
Rounds ==
  /\ pc \in {"pselect", "blocks", "stop"} => slave = {}
  /\ pc = "closed" => \A e \in slave : e[1] \notin Listeners
  /\ (\E e \in slave : e[1] \in Listeners) => \A e \in slave : Used(e[1])

(* Each connection that waits for its job has one. *)
Queue ==
  /\ \A i \in 1..Len(jobs) : \E c \in Conns : st[c] = "queued" /\ cfd[c] = jobs[i]
  /\ \A i, j \in 1..Len(jobs) : jobs[i] = jobs[j] => i = j

World == /\ Services /\ ListenersOpen /\ Clients /\ Origins /\ Resolvers
         /\ InHandler /\ Files /\ Items /\ MovedHaveTried /\ Queue

Inv == TypeOK /\ World /\ Rounds /\ EventsReachTheirOwner

-----------------------------------------------------------------------------
(* Descriptors. *)

(* The two listeners have the lowest numbers, and -1 is no descriptor. *)
LEMMA FdFacts == /\ 0 \in Fd /\ 1 \in Fd /\ NoFd \notin Fd /\ Fd \subseteq Nat
                 /\ Listeners = {0, 1} /\ SOCKS = 0 /\ ADMIN = 1 /\ NoFd \notin {0, 1}
  BY FdAssumption DEF Fd, NoFd, Listeners, SOCKS, ADMIN

(* A set of numbers that is not empty has a least one. *)
LEMMA MinIs ==
  ASSUME NEW S, S \subseteq Nat, S # {}
  PROVE  Min(S) \in S /\ \A y \in S : Min(S) <= y
<1>1. PICK x \in S : \A y \in S : ~(<<y, x>> \in OpToRel(<, Nat))
  BY NatLessThanWellFounded, WFMin
<1>2. \A y \in S : x <= y
  <2>1. \A y \in S : ~(y < x)
    BY <1>1 DEF OpToRel
  <2> QED BY <2>1
<1> QED BY <1>2 DEF Min

(* accept() and socket() find the lowest number that is free. *)
LEMMA NewFdIs ==
  ASSUME FreeFds # {}
  PROVE  /\ NewFd \in Fd /\ file[NewFd] = Free
         /\ \A f \in Fd : file[f] = Free => NewFd <= f
<1>1. FreeFds \subseteq Nat
  BY FdFacts DEF FreeFds
<1>2. NewFd \in FreeFds /\ \A y \in FreeFds : NewFd <= y
  BY <1>1, MinIs DEF NewFd
<1> QED BY <1>2 DEF FreeFds

(* The connections that are open can be counted. *)
LEMMA LiveFinite == IsFiniteSet(Live)
  BY PeersAssumption, FS_Subset DEF Live

-----------------------------------------------------------------------------
(* Types, action by action. *)

FileType == [k : {"free", "listener", "client", "origin", "dns"}, c : Peers \cup {Nobody}]
ItemType == [h : {"none", "socks_listener", "admin_listener", "socks5", "connecting", "copy", "admin"},
             c : Peers \cup {Nobody}, on : BOOLEAN]
PeerStates == {"none", "waiting", "refused", "open", "freed"} \cup LiveStates

Types ==
  /\ srv \in {"up", "exited", "aborted", "stopped", "lost"} /\ done \in BOOLEAN
  /\ pc \in {"pselect", "iterate", "closed", "blocks", "stop"}
  /\ who \in Conns \cup {Nobody}
  /\ file \in [Fd -> FileType] /\ item \in [Fd -> ItemType]
  /\ slave \subseteq Fd \X (Peers \cup {Nobody}) /\ jobs \in Seq(Fd)
  /\ st \in [Peers -> PeerStates] /\ cfd \in [Peers -> Fd \cup {NoFd}]
  /\ ofd \in [Conns -> Fd \cup {NoFd}] /\ left \in [Conns -> 0..MaxAddrs]
  /\ moved \subseteq Conns /\ dns \in [Conns -> Fd \cup {NoFd}]
  /\ current \in Nat /\ total \in Nat /\ max_conn \in MaxConns

(* TypeOK, in terms of the types of the fields. *)
LEMMA SameTypes == (TypeOK <=> Types) /\ (TypeOK' <=> Types')
  BY DEF TypeOK, Types, FileType, ItemType, PeerStates

(* The records that are put into the tables have the types of the tables. *)
LEMMA RecordTypes ==
  ASSUME NEW p \in Peers \cup {Nobody}
  PROVE  /\ \A k \in {"listener", "client", "origin", "dns"} : File(k, p) \in FileType
         /\ \A h \in {"socks_listener", "admin_listener", "socks5", "connecting", "copy", "admin"} :
              Item(h, p, TRUE) \in ItemType
         /\ Free \in FileType /\ Unused \in ItemType
  BY DEF FileType, ItemType, File, Item, Free, Unused

(* The states of the two services are states. *)
LEMMA StateTypes == /\ LiveStates \subseteq PeerStates
                    /\ {"none", "waiting", "refused", "open", "freed", "nego", "resolving", "queued",
                        "connecting", "copy", "failing"} \subseteq PeerStates
                    /\ Conns \subseteq Peers /\ Admins \subseteq Peers
  BY DEF PeerStates, LiveStates, Peers

(* Closing and unregistering descriptors keeps the types of the tables. *)
LEMMA ClosedType ==
  ASSUME file \in [Fd -> FileType], item \in [Fd -> ItemType], NEW S
  PROVE  Closed(S) \in [Fd -> FileType] /\ Unregistered(S) \in [Fd -> ItemType]
  BY RecordTypes DEF Closed, Unregistered

(* An interest that changes. *)
LEMMA OnType ==
  ASSUME NEW it \in [Fd -> ItemType], NEW f, NEW b \in BOOLEAN
  PROVE  [it EXCEPT ![f].on = b] \in [Fd -> ItemType]
<1>1. ASSUME NEW x \in ItemType PROVE [x EXCEPT !.on = b] \in ItemType
  BY DEF ItemType
<1>2. CASE f \in Fd
  <2>1. [it[f] EXCEPT !.on = b] \in ItemType
    BY <1>1, <1>2
  <2> QED BY <2>1
<1>3. CASE f \notin Fd
  BY <1>3
<1> QED BY <1>2, <1>3

(* The types hold when main has registered its listeners. *)
LEMMA TypeInit == Init => TypeOK
<1>1. Min(MaxConns) \in MaxConns
  <2>1. MaxConns \subseteq Nat /\ MaxConns # {}
    BY MaxConnsAssumption
  <2> QED BY <2>1, MinIs
<1>2. 0 \in 0..MaxAddrs /\ 0 \in Fd /\ << >> \in Seq(Fd)
  BY FdAssumption, FdFacts, EmptySeq
<1>3. ASSUME Init PROVE file \in [Fd -> FileType] /\ item \in [Fd -> ItemType]
  BY <1>3, RecordTypes DEF Init
<1> QED BY <1>1, <1>2, <1>3, SameTypes, StateTypes DEF Init, Types

(* The steps of the loop of main and of selector_select. *)
LEMMA TypeRound ==
  ASSUME TypeOK, selector_select \/ IterationEnds \/ BlocksEnd \/ (\E f \in Fd : Nothing(f))
                 \/ sigterm_handler \/ UNCHANGED vars
  PROVE  TypeOK'
<1>1. CASE selector_select
  <2>1. ASSUME PselectReturns PROVE slave' \subseteq Fd \X (Peers \cup {Nobody})
    BY <2>1, FdFacts DEF PselectReturns, TypeOK, Watched, ReadyListeners
  <2> QED  BY <1>1, <2>1 DEF selector_select, PselectReturns, PselectEbadf, PselectInterrupted, TypeOK
<1>2. CASE IterationEnds
  BY <1>2 DEF IterationEnds, TypeOK
<1>3. CASE BlocksEnd
  BY <1>3 DEF BlocksEnd, TypeOK
<1>4. CASE \E f \in Fd : Nothing(f)
  BY <1>4 DEF Nothing, Turn, TypeOK
<1>5. CASE sigterm_handler
  BY <1>5 DEF sigterm_handler, TypeOK
<1>6. CASE UNCHANGED vars
  BY <1>6 DEF vars, TypeOK
<1> QED  BY <1>1, <1>2, <1>3, <1>4, <1>5, <1>6

(* The two functions that accept. *)
LEMMA TypeAccept ==
  ASSUME TypeOK, socksv5_passive_accept \/ s5admin_passive_accept
  PROVE  TypeOK'
<1>0. Types
  BY SameTypes
<1>1. ASSUME NEW p \in Peers, NEW h \in {"socks5", "admin"}, Registered(p, h), FreeFds # {}
      PROVE  /\ file' \in [Fd -> FileType] /\ item' \in [Fd -> ItemType]
             /\ cfd' \in [Peers -> Fd \cup {NoFd}]
  BY <1>0, <1>1, NewFdIs, RecordTypes DEF Registered, Types
<1>2. CASE socksv5_passive_accept
  <2>1. slave' \subseteq Fd \X (Peers \cup {Nobody})
    BY <1>0, <1>2 DEF socksv5_passive_accept, Handles, Turn, Types
  <2>2. /\ file' \in [Fd -> FileType] /\ item' \in [Fd -> ItemType]
        /\ cfd' \in [Peers -> Fd \cup {NoFd}]
    BY <1>0, <1>1, <1>2, StateTypes DEF socksv5_passive_accept, Refused, Waiting, CanRegister, Types
  <2>3. st' \in [Peers -> PeerStates]
    BY <1>0, <1>2, StateTypes DEF socksv5_passive_accept, Refused, Waiting, Types
  <2>4. current' \in Nat /\ total' \in Nat
    BY <1>0, <1>2 DEF socksv5_passive_accept, metrics_dec_curr_conn, counters, Types
  <2> QED BY <1>0, <1>2, <2>1, <2>2, <2>3, <2>4, SameTypes DEF socksv5_passive_accept, Types
<1>3. CASE s5admin_passive_accept
  <2>1. slave' \subseteq Fd \X (Peers \cup {Nobody})
    BY <1>0, <1>3 DEF s5admin_passive_accept, Handles, Turn, Types
  <2>2. /\ file' \in [Fd -> FileType] /\ item' \in [Fd -> ItemType]
        /\ cfd' \in [Peers -> Fd \cup {NoFd}]
    BY <1>0, <1>1, <1>3, StateTypes DEF s5admin_passive_accept, Refused, Waiting, CanRegister, Types
  <2>3. st' \in [Peers -> PeerStates]
    BY <1>0, <1>3, StateTypes DEF s5admin_passive_accept, Refused, Waiting, Types
  <2> QED BY <1>0, <1>3, <2>1, <2>2, <2>3, SameTypes DEF s5admin_passive_accept, counters, Types
<1> QED  BY <1>2, <1>3

(* The handlers of an event that open no descriptor. *)
LEMMA TypeEvent ==
  ASSUME TypeOK, NEW f \in Fd,
         ClientHangup(f) \/ OriginError(f) \/ OriginEof(f) \/ AdminHangup(f)
         \/ connection_req_read(f) \/ (\E n \in MaxConns : set_max_conn(f, n))
  PROVE  TypeOK'
<1>a. Types
  BY SameTypes
<1>0. ASSUME Turn(f) PROVE slave' \subseteq Fd \X (Peers \cup {Nobody})
  BY <1>0 DEF Turn, TypeOK
<1>1. CASE ClientHangup(f) \/ OriginError(f)
  <2>1. socksv5_close(item[f].c) /\ Turn(f)
        /\ UNCHANGED <<srv, done, pc, who, jobs, cfd, ofd, left, moved, dns, total, max_conn>>
    BY <1>1 DEF ClientHangup, OriginError, Handles
  <2>2. current' \in Nat
    BY <1>a, <2>1 DEF socksv5_close, metrics_dec_curr_conn, Types
  <2> QED BY <1>0, <1>a, <2>1, <2>2, ClosedType, StateTypes, SameTypes DEF socksv5_close, Types
<1>2. CASE OriginEof(f)
  BY <1>0, <1>2, <1>a, ClosedType, SameTypes DEF OriginEof, Handles, Types
<1>3. CASE AdminHangup(f)
  BY <1>0, <1>3, <1>a, ClosedType, StateTypes, SameTypes DEF AdminHangup, Handles, Types, counters
<1>4. CASE connection_req_read(f)
  <2>1. item' \in [Fd -> ItemType]
    BY <1>4, <1>a, OnType DEF connection_req_read, Types
  <2> QED BY <1>0, <1>4, <1>a, <2>1, StateTypes, SameTypes DEF connection_req_read, Handles, Types
<1>5. CASE \E n \in MaxConns : set_max_conn(f, n)
  BY <1>0, <1>5 DEF set_max_conn, Handles, TypeOK, counters
<1> QED  BY <1>1, <1>2, <1>3, <1>4, <1>5

(* The resolver threads. *)
LEMMA TypeResolver ==
  ASSUME TypeOK, Clients, NEW c \in Conns, Resolver(c)
  PROVE  TypeOK'
<1>0. Types
  BY SameTypes
<1>1. CASE ResolverOpens(c)
  BY <1>0, <1>1, NewFdIs, RecordTypes, StateTypes, SameTypes DEF ResolverOpens, Types
<1>2. CASE ResolverCloses(c)
  BY <1>0, <1>2, ClosedType, SameTypes DEF ResolverCloses, Types
<1>3. CASE resolve_host_name(c)
  <2>1. cfd[c] \in Fd
    BY <1>3 DEF resolve_host_name, Clients, ClientHeld, ClientStates, LiveStates, Peers
  <2>2. jobs' \in Seq(Fd)
    BY <1>3, <2>1 DEF resolve_host_name, TypeOK
  <2> QED BY <1>3, <2>2, ZenonT(60) DEF resolve_host_name, TypeOK, LiveStates
<1> QED  BY <1>1, <1>2, <1>3 DEF Resolver

(* The handler of a job. *)
LEMMA TypeBlock ==
  ASSUME TypeOK, Items, socksv5_block
  PROVE  TypeOK'
<1>0. Types
  BY SameTypes
<1>1. jobs \in Seq(Fd) /\ jobs # << >> /\ Head(jobs) \in Fd /\ Tail(jobs) \in Seq(Fd)
  BY HeadTailProperties DEF socksv5_block, TypeOK
<1>2. Job \in Conns /\ Job \in Peers /\ Job \in Peers \cup {Nobody}
  BY <1>1, StateTypes DEF socksv5_block, Items, ItemHeld, Job
<1> HIDE DEF Job
<1>a. jobs' \in Seq(Fd) /\ UNCHANGED <<done, pc, who, slave, cfd, moved, dns, current, total, max_conn>>
  BY <1>1 DEF socksv5_block
<1>b. ASSUME Socket(Job)
      PROVE  file' \in [Fd -> FileType] /\ ofd' \in [Conns -> Fd \cup {NoFd}] /\ NewFd \in Fd
  BY <1>0, <1>2, <1>b, NewFdIs, RecordTypes DEF Socket, Types
<1>c. left[Job] \in Nat /\ left[Job] <= MaxAddrs /\ MaxAddrs \in Nat
  BY <1>0, <1>2, FdAssumption DEF Types
<1>3. CASE BlockNoAddress
  <2>1. item' \in [Fd -> ItemType]
    BY <1>0, <1>3, OnType DEF BlockNoAddress, Types
  <2> QED BY <1>0, <1>2, <1>3, <1>a, <2>1, StateTypes, SameTypes DEF BlockNoAddress, Types
<1>4. CASE BlockInProgress
  <2>1. left' \in [Conns -> 0..MaxAddrs]
    <3>2. PICK n \in 0..(left[Job] - 1) : left' = [left EXCEPT ![Job] = n]
      BY <1>4 DEF BlockInProgress
    <3>3. n \in 0..MaxAddrs
      BY <1>c
    <3> QED BY <1>0, <3>2, <3>3 DEF Types
  <2>2. item' \in [Fd -> ItemType]
    BY <1>0, <1>2, <1>4, <1>b, RecordTypes DEF BlockInProgress, Types
  <2> QED BY <1>0, <1>2, <1>4, <1>a, <1>b, <2>1, <2>2, StateTypes, SameTypes DEF BlockInProgress, Types
<1>5. CASE BlockSuccess
  <2>1. 0 \in 0..MaxAddrs
    BY <1>c
  <2>2. item' \in [Fd -> ItemType]
    <3>1. \A f \in Fd : [item[f] EXCEPT !.on = TRUE] \in ItemType
      BY <1>0 DEF Types, ItemType
    <3> QED BY <1>0, <1>2, <1>5, <1>b, <3>1, RecordTypes DEF BlockSuccess, Types
  <2> QED BY <1>0, <1>2, <1>5, <1>a, <1>b, <2>1, <2>2, StateTypes, SameTypes DEF BlockSuccess, Types
<1>6. CASE BlockAborts
  BY <1>1, <1>6 DEF socksv5_block, BlockAborts, TypeOK
<1> QED  BY <1>3, <1>4, <1>5, <1>6 DEF socksv5_block

(* The handler of a connection attempt, and the retry that it makes. *)
LEMMA TypeConnecting ==
  ASSUME TypeOK, Items, InHandler, connect_to_host \/ (\E f \in Fd : handle_write_connecting(f))
  PROVE  TypeOK'
<1>0. Types
  BY SameTypes
<1>1. CASE connect_to_host
  <2>0. /\ who \in Conns /\ who \in Peers /\ who \in Peers \cup {Nobody}
        /\ left[who] \in Nat /\ left[who] <= MaxAddrs /\ MaxAddrs \in Nat
    BY <1>1, FdAssumption, StateTypes DEF connect_to_host, InHandler, TypeOK
  <2>1. ASSUME left[who] > 0 PROVE left[who] - 1 \in 0..MaxAddrs
    BY <2>0, <2>1
  <2>a. UNCHANGED <<srv, done, slave, jobs, cfd, dns, current, total, max_conn>>
    BY <1>1 DEF connect_to_host
  <2>b. ASSUME Socket(who)
        PROVE  file' \in [Fd -> FileType] /\ ofd' \in [Conns -> Fd \cup {NoFd}] /\ left[who] > 0
    BY <1>0, <2>0, <2>b, NewFdIs, RecordTypes DEF Socket, Types
  <2>c. ASSUME NumberNoted PROVE moved' \subseteq Conns
    BY <1>0, <2>0, <2>c DEF NumberNoted, Types
  <2>2. CASE RetryInProgress
    <3>1. file' \in [Fd -> FileType] /\ ofd' \in [Conns -> Fd \cup {NoFd}]
      BY <1>0, <2>2, <2>b DEF RetryInProgress, Types
    <3>2. left' \in [Conns -> 0..MaxAddrs]
      BY <1>0, <2>1, <2>2, <2>b DEF RetryInProgress, Types
    <3> QED BY <1>0, <2>2, <2>a, <2>c, <3>1, <3>2, SameTypes DEF RetryInProgress, HandlerReturns, Types
  <2>3. CASE RetryUnreachable
    BY <1>0, <2>0, <2>1, <2>3, <2>a, <2>c, NewFdIs, SameTypes DEF RetryUnreachable, Types
  <2>4. CASE RetrySuccess
    <3>1. 0 \in 0..MaxAddrs
      BY <2>0
    <3> QED BY <1>0, <2>4, <2>a, <2>b, <2>c, <3>1, SameTypes DEF RetrySuccess, Types
  <2>5. CASE GiveUp
    <3>1. item' \in [Fd -> ItemType]
      <4>1. Unregistered({ofd[who]}) \in [Fd -> ItemType]
        BY <1>0, ClosedType DEF Types
      <4> QED BY <2>5, <4>1, OnType DEF GiveUp
    <3>2. file' \in [Fd -> FileType]
      BY <1>0, <2>5, ClosedType DEF GiveUp, Types
    <3> QED BY <1>0, <2>0, <2>5, <2>a, <3>1, <3>2, StateTypes, SameTypes DEF GiveUp, HandlerReturns, Types
  <2> QED BY <1>1, <2>2, <2>3, <2>4, <2>5 DEF connect_to_host
<1>2. ASSUME NEW f \in Fd, handle_write_connecting(f) PROVE TypeOK'
  <2>1. /\ slave' \subseteq Fd \X (Peers \cup {Nobody})
        /\ item[f].c \in Conns /\ item[f].c \in Peers /\ item[f].c \in Peers \cup {Nobody}
        /\ UNCHANGED <<done, jobs, cfd, ofd, moved, dns, current, total, max_conn>>
        /\ Connected(item[f].c) \/ ConnectFails(item[f].c) \/ ConnectionGone(item[f].c)
    BY <1>2, StateTypes DEF handle_write_connecting, Handles, Turn, TypeOK, Items, ItemHeld
  <2> DEFINE c == item[f].c
  <2>2. CASE Connected(c)
    <3>1. item' \in [Fd -> ItemType]
      <4>1. [item EXCEPT ![ofd[c]] = Item("copy", c, TRUE)] \in [Fd -> ItemType]
        BY <1>0, <2>1, RecordTypes DEF Types
      <4>2. item' = [[item EXCEPT ![ofd[c]] = Item("copy", c, TRUE)] EXCEPT ![cfd[c]].on = TRUE]
        BY <2>2 DEF Connected
      <4> HIDE DEF c
      <4> QED BY <4>1, <4>2, OnType
    <3>2. 0 \in 0..MaxAddrs
      BY FdAssumption
    <3> HIDE DEF c
    <3> QED BY <1>0, <2>1, <2>2, <3>1, <3>2, StateTypes, SameTypes DEF Connected, Types
  <2>3. CASE ConnectFails(c)
    BY <1>0, <2>1, <2>3, ClosedType, SameTypes DEF ConnectFails, Types
  <2>4. CASE ConnectionGone(c)
    BY <1>0, <2>1, <2>4, SameTypes DEF ConnectionGone, Types
  <2> QED BY <2>1, <2>2, <2>3, <2>4
<1> QED  BY <1>1, <1>2

(* The end of the process, and the arrival of a peer. *)
LEMMA TypeRest ==
  ASSUME TypeOK, Shutdown \/ (\E p \in Peers : PeerArrives(p))
  PROVE  TypeOK'
<1>1. CASE Shutdown
  <2>1. Cardinality({item[f].c : f \in {f \in Fd : item[f].h \in {"socks5", "admin"}}} \cap Conns) \in Nat
    BY PeersAssumption, FS_Intersection, FS_CardinalityType
  <2> QED BY <1>1, <2>1, EmptySeq DEF Shutdown, TypeOK, Closed, Free, Unused, metrics_dec_curr_conn
<1>2. CASE \E p \in Peers : PeerArrives(p)
  BY <1>2 DEF PeerArrives, TypeOK
<1> QED  BY <1>1, <1>2

-----------------------------------------------------------------------------
(* Steps that do not touch descriptors. *)

(* A peer belongs to one of the two services. *)
LEMMA PeerFacts == /\ Conns \subseteq Peers /\ Admins \subseteq Peers /\ Nobody \notin Peers
                   /\ \A p \in Peers : p \in Conns \/ p \in Admins
                   /\ \A p \in Conns : p \notin Admins
  BY PeersAssumption DEF Peers

(* The main thread does something else. *)
LEMMA QuietStep ==
  ASSUME Inv, UNCHANGED <<who, file, item, jobs, st, cfd, ofd, left, moved, dns>>,
         pc = pc' \/ (pc # "closed" /\ pc' # "closed")
  PROVE  World'
<1>1. Services' /\ ListenersOpen' /\ Clients' /\ Resolvers' /\ MovedHaveTried' /\ Queue'
  BY DEF Inv, World, Services, ListenersOpen, Clients, ClientHeld, Resolvers, MovedHaveTried, Queue
<1>2. Origins' /\ InHandler' /\ Files' /\ Items'
  BY DEF Inv, World, Origins, OriginHeld, InHandler, Files, FileHeld, Items, ItemHeld
<1> QED BY <1>1, <1>2 DEF World

(* A peer arrives or is refused. *)
LEMMA OutsideStep ==
  ASSUME Inv, NEW p \in Peers, NEW s \in {"waiting", "refused"}, st[p] \in {"none", "waiting"},
         st' = [st EXCEPT ![p] = s], UNCHANGED <<pc, who, file, item, jobs, cfd, ofd, left, moved, dns>>
  PROVE  World'
<1>0. TypeOK /\ World
  BY DEF Inv
<1>1. \A q \in Peers : st'[q] = IF q = p THEN s ELSE st[q]
  BY <1>0 DEF TypeOK
<1>2. \A q \in Peers : /\ st'[q] \in ClientStates <=> st[q] \in ClientStates
                       /\ st'[q] \in ClientStates => st'[q] = st[q]
                       /\ st'[q] \in LiveStates <=> st[q] \in LiveStates
                       /\ st'[q] \in OriginStates <=> st[q] \in OriginStates
                       /\ st'[q] = "freed" <=> st[q] = "freed"
                       /\ \A x \in ClientStates : st'[q] = x <=> st[q] = x
  BY <1>1 DEF ClientStates, LiveStates, OriginStates
<1>a. "open" \in ClientStates /\ "queued" \in ClientStates /\ "copy" \in ClientStates
      /\ "connecting" \in ClientStates /\ "failing" \in ClientStates
  BY DEF ClientStates, LiveStates
<1>3. Services' /\ ListenersOpen' /\ Clients' /\ Resolvers'
  BY <1>0, <1>2, <1>a, PeerFacts DEF World, Services, ListenersOpen, Clients, ClientHeld, Resolvers
<1>4. MovedHaveTried' /\ Queue'
  BY <1>0, <1>2, <1>a, PeerFacts DEF World, MovedHaveTried, Queue, TypeOK
<1>5. Origins' /\ InHandler'
  BY <1>0, <1>2, <1>a, PeerFacts DEF World, Origins, OriginHeld, InHandler, OriginStates
<1>6. Files'
  BY <1>0, <1>2, PeerFacts DEF World, Files, FileHeld
<1>7. Items'
  BY <1>0, <1>2, <1>a, PeerFacts DEF World, Items, ItemHeld
<1> QED BY <1>3, <1>4, <1>5, <1>6, <1>7 DEF World

(* What is left of a round after the turn of a descriptor. *)
LEMMA AfterTurn ==
  ASSUME Inv, NEW f \in Fd, Turn(f)
  PROVE  /\ slave' \subseteq slave /\ pc = "iterate" /\ srv = "up" /\ who = Nobody
         /\ \A e \in slave' : e[1] \in Fd /\ f <= e[1]
         /\ f \notin Listeners => \A e \in slave' : e[1] \notin Listeners
<1>1. /\ slave' \subseteq slave /\ pc = "iterate" /\ srv = "up"
      /\ \A e \in slave : e[1] \in Fd /\ f <= e[1]
  BY DEF Turn, Inv, TypeOK
<1>2. who = Nobody
  BY <1>1 DEF Inv, World, InHandler
<1>3. f \notin Listeners => \A e \in slave' : e[1] \notin Listeners
  BY <1>1, FdFacts
<1> QED BY <1>1, <1>2, <1>3

(* Registrations that are kept, or removed, leave the round right. *)
LEMMA RoundGoesOn ==
  ASSUME Inv, NEW f \in Fd, Turn(f), f \notin Listeners, pc' \in {"iterate", "closed"},
         \A e \in slave' : Used(e[1])' => Used(e[1]) /\ item'[e[1]].c = item[e[1]].c
  PROVE  Rounds' /\ EventsReachTheirOwner'
<1>1. slave' \subseteq slave /\ \A e \in slave' : e[1] \notin Listeners
  BY AfterTurn
<1>2. EventsReachTheirOwner'
  BY <1>1 DEF Inv, EventsReachTheirOwner
<1> QED BY <1>1, <1>2 DEF Rounds

(* An event that waits for its turn is still good when its descriptor stays  *)
(* registered for the same peer.                                             *)
LEMMA RoundWaits ==
  ASSUME Inv, pc' = pc, slave' = slave,
         \A e \in slave : /\ Used(e[1])' <=> Used(e[1])
                          /\ Used(e[1]) => item'[e[1]].c = item[e[1]].c
  PROVE  Rounds' /\ EventsReachTheirOwner'
  BY DEF Inv, EventsReachTheirOwner, Rounds

-----------------------------------------------------------------------------
(* Steps that open or close descriptors. *)

(* A free number is nobody's. *)
LEMMA FreeIsNobodys ==
  ASSUME Inv, NEW g \in Fd, file[g] = Free
  PROVE  /\ g \notin Listeners
         /\ \A p \in Peers : st[p] \in ClientStates => cfd[p] # g
         /\ \A c \in Conns : st[c] \in OriginStates /\ who # c => ofd[c] # g
         /\ \A c \in Conns : dns[c] # g
<1>1. /\ Free # File("listener", Nobody)
      /\ \A p : Free # File("client", p) /\ Free # File("origin", p) /\ Free # File("dns", p)
  BY DEF Free, File
<1>2. \A c \in Conns : dns[c] # g
  BY <1>1, FdFacts DEF Inv, World, Resolvers
<1> QED BY <1>1, <1>2 DEF Inv, World, ListenersOpen, Clients, ClientHeld, Origins, OriginHeld

(* The kinds of descriptors are different. *)
LEMMA KindsDiffer ==
  /\ \A p, q : /\ File("client", p) # File("origin", q) /\ File("client", p) # File("dns", q)
               /\ File("origin", p) # File("dns", q) /\ File("client", p) # File("listener", q)
               /\ File("origin", p) # File("listener", q) /\ File("dns", p) # File("listener", q)
               /\ File("client", p) = File("client", q) => p = q
               /\ File("origin", p) = File("origin", q) => p = q
               /\ File("dns", p) = File("dns", q) => p = q
  /\ \A p : Free # File("client", p) /\ Free # File("origin", p) /\ Free # File("dns", p)
            /\ Free # File("listener", p)
<1>1. \A k, l, p, q : File(k, p) = File(l, q) <=> k = l /\ p = q
  BY DEF File
<1>2. Free = File("free", Nobody)
  BY DEF Free, File
<1> QED BY <1>1, <1>2

(* accept() and selector_register. *)
LEMMA AcceptStep ==
  ASSUME Inv, NEW p \in Peers, NEW h, NEW s, st[p] = "waiting", FreeFds # {}, CanRegister,
         \/ p \in Conns /\ h = "socks5" /\ s = "nego"
         \/ p \in Admins /\ h = "admin" /\ s = "open",
         Registered(p, h), st' = [st EXCEPT ![p] = s], pc # "closed",
         UNCHANGED <<pc, who, jobs, ofd, left, moved, dns>>
  PROVE  World'
<1> DEFINE g == NewFd
<1>0. TypeOK /\ World
  BY DEF Inv
<1>1. g \in Fd /\ file[g] = Free /\ item[g].h = "none"
  BY NewFdIs DEF CanRegister, Used
<1>2. /\ \A q \in Peers : st'[q] = IF q = p THEN s ELSE st[q]
      /\ \A q \in Peers : cfd'[q] = IF q = p THEN g ELSE cfd[q]
      /\ \A f \in Fd : file'[f] = IF f = g THEN File("client", p) ELSE file[f]
      /\ \A f \in Fd : f # g => item'[f] = item[f]
  BY <1>0, <1>1 DEF TypeOK, Registered
<1>b. item'[g].h = h /\ item'[g].c = p
  BY <1>0, <1>1 DEF TypeOK, Registered, Item
<1>3. /\ g \notin Listeners
      /\ \A q \in Peers : st[q] \in ClientStates => cfd[q] # g
      /\ \A c \in Conns : st[c] \in OriginStates /\ who # c => ofd[c] # g
      /\ \A c \in Conns : dns[c] # g
  BY <1>1, FreeIsNobodys
<1>4. /\ s \in ClientStates /\ s \notin OriginStates /\ s \notin {"resolving", "queued", "connecting", "freed"}
      /\ st[p] \notin ClientStates /\ st[p] \notin OriginStates /\ st[p] # "freed"
  BY DEF ClientStates, LiveStates, OriginStates
<1>a. OriginStates \subseteq LiveStates /\ LiveStates \subseteq ClientStates /\ "open" \in ClientStates
      /\ "open" \notin LiveStates /\ "nego" \in LiveStates /\ "copy" \in OriginStates /\ "connecting" \in OriginStates
      /\ "queued" \in LiveStates
  BY DEF ClientStates, LiveStates, OriginStates
<1> HIDE DEF g
<1>5. Services' /\ ListenersOpen'
  BY <1>0, <1>2, <1>3, <1>4, <1>a, PeerFacts, FdFacts DEF World, Services, ListenersOpen
<1>c. Resolvers'
  BY <1>0, <1>2, <1>3 DEF World, Resolvers
<1>6. ASSUME NEW q \in Peers PROVE ClientHeld(q)'
  <2>1. CASE q = p
    BY <1>1, <1>2, <1>4, <1>b, <2>1, PeerFacts DEF ClientHeld
  <2>2. CASE q # p
    <3>1. ClientHeld(q) /\ st'[q] = st[q] /\ cfd'[q] = cfd[q]
      BY <1>0, <1>2, <2>2 DEF World, Clients
    <3> QED BY <1>2, <1>3, <3>1 DEF ClientHeld
  <2> QED BY <2>1, <2>2
<1>7. Origins' /\ MovedHaveTried'
  BY <1>0, <1>2, <1>3, <1>4, <1>a, PeerFacts DEF World, Origins, OriginHeld, MovedHaveTried, TypeOK
<1>8. InHandler'
  BY <1>0 DEF World, InHandler
<1>9. Files'
  BY <1>0, <1>1, <1>2, <1>3, <1>4, PeerFacts DEF World, Files, FileHeld
<1>10. ASSUME NEW f \in Fd PROVE ItemHeld(f)'
  <2>1. CASE f = g
    BY <1>2, <1>4, <1>a, <1>b, <2>1, PeerFacts DEF ItemHeld
  <2>2. CASE f # g
    <3>1. ItemHeld(f) /\ item'[f] = item[f]
      BY <1>0, <1>2, <2>2 DEF World, Items
    <3>2. item[f].c = p => item[f].h \notin {"socks5", "admin", "copy"} /\ st[p] # "connecting" /\ st'[p] # "connecting"
      BY <1>2, <1>4, <1>a, <3>1, PeerFacts DEF ItemHeld
    <3> QED BY <1>2, <3>1, <3>2, PeerFacts DEF ItemHeld
  <2> QED BY <2>1, <2>2
<1>11. Queue'
  BY <1>0, <1>2, <1>4, <1>a, PeerFacts DEF World, Queue
<1> QED BY <1>5, <1>6, <1>7, <1>8, <1>9, <1>10, <1>11, <1>c DEF World, Clients, Items

(* Which states are states of what. *)
LEMMA StateFacts ==
  /\ OriginStates \subseteq LiveStates /\ LiveStates \subseteq ClientStates /\ "open" \in ClientStates
  /\ "open" \notin LiveStates /\ "freed" \notin ClientStates /\ "freed" \notin OriginStates
  /\ {"nego", "resolving", "queued", "connecting", "copy", "failing"} = LiveStates
  /\ {"connecting", "copy"} = OriginStates /\ "waiting" \notin ClientStates
  BY DEF ClientStates, LiveStates, OriginStates

(* A connection ends: what is closed is its own. *)
LEMMA CloseStep ==
  ASSUME Inv, NEW p \in Peers, NEW S, pc # "closed",
         st[p] \in ClientStates, st[p] # "queued",
         S \subseteq Fd, cfd[p] \in S,
         \A f \in S : \/ f = cfd[p]
                      \/ p \in Conns /\ f = ofd[p] /\ st[p] \in OriginStates,
         p \in Conns /\ st[p] \in OriginStates => ofd[p] \in S,
         file' = Closed(S), item' = Unregistered(S), st' = [st EXCEPT ![p] = "freed"],
         UNCHANGED <<pc, who, jobs, cfd, ofd, left, moved, dns>>
  PROVE  World'
<1>0. TypeOK /\ World /\ who = Nobody
  BY DEF Inv, World, InHandler
<1>1. /\ \A q \in Peers : st'[q] = IF q = p THEN "freed" ELSE st[q]
      /\ \A f \in Fd : file'[f] = IF f \in S THEN Free ELSE file[f]
      /\ \A f \in Fd : f \notin S => item'[f] = item[f]
  BY <1>0 DEF TypeOK, Closed, Unregistered
<1>2. \A f \in Fd : f \in S => item'[f].h = "none"
  BY DEF Unregistered, Unused
<1>3. \A f \in S : file[f] = File("client", p) \/ (p \in Conns /\ file[f] = File("origin", p))
  BY <1>0, PeerFacts DEF World, Clients, ClientHeld, Origins, OriginHeld
<1>4. /\ \A f \in S : f \notin Listeners
      /\ \A q \in Peers : q # p /\ st[q] \in ClientStates => cfd[q] \notin S
      /\ \A c \in Conns : c # p /\ st[c] \in OriginStates => ofd[c] \notin S
      /\ \A c \in Conns : dns[c] \notin S
  <2>1. \A f \in S : f \notin Listeners
    BY <1>0, <1>3, KindsDiffer DEF World, ListenersOpen
  <2>2. ASSUME NEW q \in Peers, q # p, st[q] \in ClientStates PROVE cfd[q] \notin S
    BY <1>0, <1>3, <2>2, KindsDiffer DEF World, Clients, ClientHeld
  <2>3. ASSUME NEW c \in Conns, c # p, st[c] \in OriginStates PROVE ofd[c] \notin S
    BY <1>0, <1>3, <2>3, KindsDiffer, PeerFacts DEF World, Origins, OriginHeld
  <2>4. ASSUME NEW c \in Conns PROVE dns[c] \notin S
    <3>1. CASE dns[c] = NoFd
      BY <3>1, FdFacts
    <3>2. CASE dns[c] # NoFd
      <4>1. file[dns[c]] = File("dns", c)
        BY <1>0, <3>2 DEF World, Resolvers
      <4> QED BY <1>3, <4>1, KindsDiffer
    <3> QED BY <3>1, <3>2
  <2> QED BY <2>1, <2>2, <2>3, <2>4
<1>5. Services' /\ ListenersOpen'
  BY <1>0, <1>1, <1>4, StateFacts, PeerFacts, FdFacts DEF World, Services, ListenersOpen
<1>6. Resolvers'
  BY <1>0, <1>1, <1>4 DEF World, Resolvers
<1>7. ASSUME NEW q \in Peers PROVE ClientHeld(q)'
  <2>1. CASE q = p
    BY <1>1, <2>1, StateFacts DEF ClientHeld
  <2>2. CASE q # p
    <3>1. ClientHeld(q) /\ st'[q] = st[q] /\ cfd'[q] = cfd[q]
      BY <1>0, <1>1, <2>2 DEF World, Clients
    <3> QED BY <1>1, <1>4, <2>2, <3>1 DEF ClientHeld
  <2> QED BY <2>1, <2>2
<1>8. ASSUME NEW c \in Conns PROVE OriginHeld(c)'
  <2>1. CASE c = p
    BY <1>1, <2>1, StateFacts, PeerFacts DEF OriginHeld
  <2>2. CASE c # p
    <3>1. OriginHeld(c) /\ st'[c] = st[c] /\ ofd'[c] = ofd[c]
      BY <1>0, <1>1, <2>2, PeerFacts DEF World, Origins
    <3> QED BY <1>0, <1>1, <1>4, <2>2, <3>1 DEF OriginHeld
  <2> QED BY <2>1, <2>2
<1>9. InHandler'
  BY <1>0 DEF World, InHandler
<1>10. ASSUME NEW f \in Fd PROVE FileHeld(f)'
  <2>1. CASE f \in S
    BY <1>1, <2>1 DEF FileHeld
  <2>2. CASE f \notin S
    <3>1. FileHeld(f) /\ file'[f] = file[f]
      BY <1>0, <1>1, <2>2 DEF World, Files
    <3>2. ASSUME NEW q \in Peers, file[f] = File("client", q), cfd[q] = f, st[q] \in ClientStates
          PROVE  q # p
      BY <2>2, <3>2
    <3>3. ASSUME NEW c \in Conns, file[f] = File("origin", c), ofd[c] = f, st[c] \in OriginStates
          PROVE  c # p
      BY <2>2, <3>3
    <3> QED BY <1>1, <3>1, <3>2, <3>3, PeerFacts DEF FileHeld
  <2> QED BY <2>1, <2>2
<1>11. ASSUME NEW f \in Fd PROVE ItemHeld(f)'
  <2>1. CASE f \in S
    BY <1>2, <2>1 DEF ItemHeld
  <2>2. CASE f \notin S
    <3>1. ItemHeld(f) /\ item'[f] = item[f]
      BY <1>0, <1>1, <2>2 DEF World, Items
    <3>2. item[f].c = p => item[f].h \notin {"socks5", "admin", "copy"}
      BY <2>2, <3>1, StateFacts DEF ItemHeld
    <3>3. item[f].c = p /\ item[f].h = "connecting" => p \in moved
      BY <2>2, <3>1, StateFacts DEF ItemHeld
    <3>4. st'[p] = "freed" /\ \A q \in Peers : q # p => st'[q] = st[q]
      BY <1>1
    <3> QED BY <3>1, <3>2, <3>3, <3>4, PeerFacts DEF ItemHeld
  <2> QED BY <2>1, <2>2
<1>12. MovedHaveTried' /\ Queue'
  BY <1>0, <1>1, PeerFacts DEF World, MovedHaveTried, Queue, TypeOK
<1> QED BY <1>5, <1>6, <1>7, <1>8, <1>9, <1>10, <1>11, <1>12 DEF World, Clients, Origins, Files, Items

(* The end of a SOCKS connection, from the client's or the origin's event. *)
LEMMA HangupStep ==
  ASSUME Inv, NEW f \in Fd, ClientHangup(f) \/ OriginError(f)
  PROVE  Inv'
<1> DEFINE c == item[f].c
           S == {cfd[c], ofd[c]} \ {0}
<1>0. TypeOK /\ World /\ Turn(f) /\ item[f].on /\ item[f].h \in {"socks5", "copy"} /\ ItemHeld(f)
  BY DEF Inv, World, Items, ClientHangup, OriginError, Handles
<1>1. socksv5_close(c) /\ UNCHANGED <<srv, done, pc, who, jobs, cfd, ofd, left, moved, dns, total, max_conn>>
  BY DEF ClientHangup, OriginError
<1>2. pc = "iterate" /\ who = Nobody
  BY <1>0, AfterTurn
<1>3. c \in Conns /\ c \in Peers /\ st[c] \in LiveStates /\ st[c] # "queued" /\ f # 0 /\ f # 1
  <2>1. c \in Conns /\ st[c] \in LiveStates
    BY <1>0, StateFacts DEF ItemHeld
  <2>2. ClientHeld(c) /\ OriginHeld(c) /\ c # who
    BY <1>0, <1>2, <2>1, PeerFacts DEF World, Clients, Origins
  <2>3. st[c] # "queued"
    BY <1>0, <2>1, <2>2, StateFacts DEF ItemHeld, ClientHeld
  <2>4. file[f] = File("client", c) \/ file[f] = File("origin", c)
    BY <1>0, <2>1, <2>2, StateFacts DEF ItemHeld, ClientHeld, OriginHeld
  <2>5. f # 0 /\ f # 1
    BY <1>0, <2>4, KindsDiffer, FdFacts DEF World, ListenersOpen
  <2> QED BY <2>1, <2>3, <2>5, PeerFacts
<1>4. ClientHeld(c) /\ OriginHeld(c) /\ who # c
  BY <1>0, <1>2, <1>3, PeerFacts DEF World, Clients, Origins
<1>5. cfd[c] \in Fd /\ cfd[c] # 0
  <2>1. cfd[c] \in Fd /\ file[cfd[c]] = File("client", c)
    BY <1>3, <1>4, StateFacts DEF ClientHeld
  <2> QED BY <1>0, <2>1, KindsDiffer, FdFacts DEF World, ListenersOpen
<1>6. /\ st[c] \in OriginStates => ofd[c] \in Fd /\ ofd[c] # 0
      /\ st[c] \notin OriginStates => ofd[c] = 0 \/ ofd[c] = NoFd
  <2>1. st[c] \in OriginStates => ofd[c] \in Fd /\ file[ofd[c]] = File("origin", c)
    BY <1>4 DEF OriginHeld
  <2>2. st[c] # "freed"
    BY <1>3, StateFacts
  <2> QED BY <1>0, <1>4, <2>1, <2>2, KindsDiffer, FdFacts DEF World, ListenersOpen, OriginHeld
<1> DEFINE T == S \cap Fd
<1>7. Closed(S) = Closed(T) /\ Unregistered(S) = Unregistered(T)
  BY DEF Closed, Unregistered
<1>8. /\ file' = Closed(T) /\ item' = Unregistered(T) /\ st' = [st EXCEPT ![c] = "freed"]
  BY <1>1, <1>7 DEF socksv5_close
<1>9. /\ T \subseteq Fd /\ cfd[c] \in T
      /\ \A g \in T : g = cfd[c] \/ (c \in Conns /\ g = ofd[c] /\ st[c] \in OriginStates)
      /\ c \in Conns /\ st[c] \in OriginStates => ofd[c] \in T
  BY <1>3, <1>5, <1>6, FdFacts
<1>10. \A e \in slave' : Used(e[1])' => Used(e[1]) /\ item'[e[1]].c = item[e[1]].c
  <2>1. \A e \in slave' : e[1] \in Fd
    BY <1>0, AfterTurn
  <2> QED BY <2>1, <1>8 DEF Used, Unregistered, Unused
<1>11. TypeOK'
  BY <1>0, TypeEvent
<1> HIDE DEF T, S, c
<1>12. World'
  BY <1>1, <1>2, <1>3, <1>8, <1>9, CloseStep, StateFacts
<1>13. Rounds' /\ EventsReachTheirOwner'
  BY <1>0, <1>1, <1>2, <1>3, <1>10, RoundGoesOn, FdFacts
<1> QED BY <1>11, <1>12, <1>13 DEF Inv

(* The end of an administration connection. *)
LEMMA AdminHangupStep ==
  ASSUME Inv, NEW f \in Fd, AdminHangup(f)
  PROVE  Inv'
<1> DEFINE a == item[f].c
           S == {f}
<1>0. TypeOK /\ World /\ Turn(f) /\ item[f].h = "admin" /\ ItemHeld(f)
  BY DEF Inv, World, Items, AdminHangup, Handles
<1>1. /\ file' = Closed(S) /\ item' = Unregistered(S) /\ st' = [st EXCEPT ![a] = "freed"]
      /\ UNCHANGED <<srv, done, pc, who, jobs, cfd, ofd, left, moved, dns, max_conn>>
  BY DEF AdminHangup
<1>2. pc = "iterate" /\ who = Nobody
  BY <1>0, AfterTurn
<1>3. a \in Admins /\ a \in Peers /\ a \notin Conns /\ st[a] = "open" /\ cfd[a] = f
  BY <1>0, PeerFacts DEF ItemHeld
<1>4. f \notin Listeners
  <2>1. file[f] = File("client", a)
    BY <1>0, <1>3, StateFacts DEF World, Clients, ClientHeld
  <2> QED BY <1>0, <2>1, KindsDiffer DEF World, ListenersOpen
<1>5. \A e \in slave' : Used(e[1])' => Used(e[1]) /\ item'[e[1]].c = item[e[1]].c
  <2>1. \A e \in slave' : e[1] \in Fd
    BY <1>0, AfterTurn
  <2> QED BY <2>1, <1>1 DEF Used, Unregistered, Unused
<1>6. TypeOK'
  BY <1>0, TypeEvent
<1>7. S \subseteq Fd /\ cfd[a] \in S /\ \A g \in S : g = cfd[a]
  BY <1>3
<1> HIDE DEF a, S
<1>8. World'
  BY <1>1, <1>2, <1>3, <1>7, CloseStep, StateFacts
<1>9. Rounds' /\ EventsReachTheirOwner'
  BY <1>0, <1>1, <1>2, <1>4, <1>5, RoundGoesOn
<1> QED BY <1>6, <1>8, <1>9 DEF Inv

(* Registrations change and descriptors do not: the handlers, the            *)
(* connections and their owners stay, or an origin's item goes.              *)
LEMMA InterestStep ==
  ASSUME Inv, TypeOK', NEW p \in Conns, NEW s \in LiveStates,
         st[p] \in LiveStates, s \in OriginStates <=> st[p] \in OriginStates, s # "queued", st[p] # "queued",
         s = st[p] \/ (p \notin moved /\ s \notin OriginStates /\ st[p] \notin OriginStates),
         st' = [st EXCEPT ![p] = s],
         \A f \in Fd : \/ item'[f] = item[f]
                       \/ item'[f].h = "none" /\ item[f].h \in {"copy", "connecting"}
                       \/ item'[f].h = item[f].h /\ item'[f].c = item[f].c /\ f = cfd[p],
         s \in {"resolving", "queued", "connecting"} => ~item'[cfd[p]].on,
         UNCHANGED <<pc, who, file, jobs, cfd, ofd, left, moved, dns>>
  PROVE  World'
<1>0. TypeOK /\ World
  BY DEF Inv
<1>1. \A q \in Peers : st'[q] = IF q = p THEN s ELSE st[q]
  BY <1>0 DEF TypeOK
<1>2. \A q \in Peers : /\ st'[q] \in ClientStates <=> st[q] \in ClientStates
                       /\ st'[q] \in LiveStates <=> st[q] \in LiveStates
                       /\ st'[q] \in OriginStates <=> st[q] \in OriginStates
                       /\ st'[q] = "open" <=> st[q] = "open"
                       /\ st'[q] = "freed" <=> st[q] = "freed"
                       /\ st'[q] = "queued" <=> st[q] = "queued"
                       /\ st'[q] \in OriginStates => st'[q] = st[q]
  BY <1>1, PeerFacts, StateFacts
<1>3. Services' /\ ListenersOpen' /\ Resolvers'
  BY <1>0, <1>2, PeerFacts DEF World, Services, ListenersOpen, Resolvers
<1>4. MovedHaveTried' /\ Queue'
  BY <1>0, <1>1, <1>2, PeerFacts DEF World, MovedHaveTried, Queue, TypeOK
<1>5. Origins'
  BY <1>0, <1>2, PeerFacts DEF World, Origins, OriginHeld
<1>6. InHandler'
  BY <1>0, <1>2, PeerFacts, StateFacts DEF World, InHandler
<1>7. Files'
  BY <1>0, <1>2, PeerFacts DEF World, Files, FileHeld
<1>8. ASSUME NEW q \in Peers PROVE ClientHeld(q)'
  <2> SUFFICES ASSUME st[q] \in ClientStates PROVE ClientHeld(q)'
    BY <1>2 DEF ClientHeld
  <2>0. ClientHeld(q)
    BY <1>0 DEF World, Clients
  <2>1. /\ cfd[q] \in Fd /\ file[cfd[q]] = File("client", q) /\ item[cfd[q]].c = q
        /\ item[cfd[q]].h = IF q \in Conns THEN "socks5" ELSE "admin"
    BY <2>0 DEF ClientHeld
  <2>2. item'[cfd[q]].h = item[cfd[q]].h /\ item'[cfd[q]].c = q
    BY <2>1
  <2>3. CASE q = p
    BY <1>1, <2>1, <2>2, <2>3 DEF ClientHeld
  <2>4. CASE q # p
    <3>1. cfd[q] # cfd[p]
      <4>1. ClientHeld(p) /\ st[p] \in ClientStates
        BY <1>0, PeerFacts, StateFacts DEF World, Clients
      <4>2. file[cfd[p]] = File("client", p)
        BY <4>1 DEF ClientHeld
      <4> QED BY <2>1, <2>4, <4>2, KindsDiffer
    <3>2. item'[cfd[q]] = item[cfd[q]]
      BY <2>1, <3>1
    <3> QED BY <1>1, <2>0, <2>1, <2>4, <3>2 DEF ClientHeld
  <2> QED BY <2>3, <2>4
<1>9. ASSUME NEW f \in Fd PROVE ItemHeld(f)'
  <2>0. ItemHeld(f)
    BY <1>0 DEF World, Items
  <2>1. CASE item'[f].h = "none"
    BY <2>1 DEF ItemHeld
  <2>2. CASE item'[f].h # "none"
    <3>1. item'[f].h = item[f].h /\ item'[f].c = item[f].c
      BY <2>2
    <3>2. ASSUME item[f].c \in Peers
          PROVE  /\ st'[item[f].c] \in LiveStates <=> st[item[f].c] \in LiveStates
                 /\ st'[item[f].c] = "open" <=> st[item[f].c] = "open"
                 /\ st'[item[f].c] = "copy" <=> st[item[f].c] = "copy"
                 /\ st'[item[f].c] = "connecting" <=> st[item[f].c] = "connecting"
      BY <1>2, <3>2, StateFacts
    <3> QED BY <2>0, <3>1, <3>2, PeerFacts DEF ItemHeld
  <2> QED BY <2>1, <2>2
<1> QED BY <1>3, <1>4, <1>5, <1>6, <1>7, <1>8, <1>9 DEF World, Clients, Items

(* The origin closes. *)
LEMMA OriginEofStep ==
  ASSUME Inv, NEW f \in Fd, OriginEof(f)
  PROVE  Inv'
<1> DEFINE c == item[f].c
<1>0. TypeOK /\ World /\ Turn(f) /\ item[f].h = "copy" /\ ItemHeld(f)
  BY DEF Inv, World, Items, OriginEof, Handles
<1>1. /\ item' = Unregistered({f})
      /\ UNCHANGED <<srv, done, pc, who, file, jobs, st, cfd, ofd, left, moved, dns, current, total, max_conn>>
  BY DEF OriginEof
<1>2. pc = "iterate" /\ who = Nobody
  BY <1>0, AfterTurn
<1>3. c \in Conns /\ c \in Peers /\ st[c] = "copy" /\ ofd[c] = f
  BY <1>0, PeerFacts DEF ItemHeld
<1>4. f \notin Listeners
  <2>1. file[f] = File("origin", c)
    BY <1>0, <1>2, <1>3, StateFacts, PeerFacts DEF World, Origins, OriginHeld
  <2> QED BY <1>0, <2>1, KindsDiffer DEF World, ListenersOpen
<1>5. /\ \A g \in Fd : item'[g] = item[g] \/ (item'[g].h = "none" /\ item[g].h \in {"copy", "connecting"})
      /\ st' = [st EXCEPT ![c] = "copy"]
  <2>1. \A g \in Fd : item'[g] = item[g] \/ (item'[g].h = "none" /\ item[g].h \in {"copy", "connecting"})
    BY <1>0, <1>1 DEF Unregistered, Unused
  <2>2. st' = [st EXCEPT ![c] = "copy"]
    BY <1>0, <1>1, <1>3 DEF TypeOK
  <2> QED BY <2>1, <2>2
<1>6. \A e \in slave' : Used(e[1])' => Used(e[1]) /\ item'[e[1]].c = item[e[1]].c
  <2>1. \A e \in slave' : e[1] \in Fd
    BY <1>0, AfterTurn
  <2> QED BY <2>1, <1>1 DEF Used, Unregistered, Unused
<1>7. TypeOK'
  BY <1>0, TypeEvent
<1> HIDE DEF c
<1>8. World'
  BY <1>1, <1>3, <1>5, <1>7, InterestStep, StateFacts
<1>9. Rounds' /\ EventsReachTheirOwner'
  BY <1>0, <1>1, <1>2, <1>4, <1>6, RoundGoesOn
<1> QED BY <1>7, <1>8, <1>9 DEF Inv

(* The request has been read. *)
LEMMA RequestReadStep ==
  ASSUME Inv, NEW f \in Fd, connection_req_read(f)
  PROVE  Inv'
<1> DEFINE c == item[f].c
<1>0. TypeOK /\ World /\ Turn(f) /\ item[f].h = "socks5" /\ ItemHeld(f)
  BY DEF Inv, World, Items, connection_req_read, Handles
<1>1. /\ st[c] = "nego" /\ st' = [st EXCEPT ![c] = "resolving"] /\ item' = [item EXCEPT ![f].on = FALSE]
      /\ UNCHANGED <<srv, done, pc, who, file, jobs, cfd, ofd, left, moved, dns, current, total, max_conn>>
  BY DEF connection_req_read
<1>2. pc = "iterate" /\ who = Nobody
  BY <1>0, AfterTurn
<1>3. c \in Conns /\ c \in Peers /\ cfd[c] = f
  BY <1>0, PeerFacts DEF ItemHeld
<1>4. f \notin Listeners
  <2>1. file[f] = File("client", c)
    BY <1>0, <1>1, <1>3, StateFacts DEF World, Clients, ClientHeld
  <2> QED BY <1>0, <2>1, KindsDiffer DEF World, ListenersOpen
<1>5. /\ \A g \in Fd : g # f => item'[g] = item[g]
      /\ item'[f].h = item[f].h /\ item'[f].c = item[f].c /\ ~item'[f].on
  BY <1>0, <1>1 DEF TypeOK
<1>6. \A e \in slave' : Used(e[1])' => Used(e[1]) /\ item'[e[1]].c = item[e[1]].c
  <2>1. \A e \in slave' : e[1] \in Fd
    BY <1>0, AfterTurn
  <2> QED BY <2>1, <1>5 DEF Used
<1>7. TypeOK'
  BY <1>0, TypeEvent
<1>8. c \notin moved
  BY <1>0, <1>1 DEF World, MovedHaveTried
<1> HIDE DEF c
<1>9. World'
  <2>1. \A g \in Fd : \/ item'[g] = item[g]
                      \/ item'[g].h = item[g].h /\ item'[g].c = item[g].c /\ g = cfd[c]
    BY <1>3, <1>5
  <2>2. "resolving" \in LiveStates /\ "nego" \in LiveStates /\ "resolving" \notin OriginStates /\ "nego" \notin OriginStates
    BY StateFacts
  <2> QED BY <1>1, <1>3, <1>5, <1>7, <1>8, <2>1, <2>2, InterestStep
<1>10. Rounds' /\ EventsReachTheirOwner'
  BY <1>0, <1>1, <1>2, <1>4, <1>6, RoundGoesOn
<1> QED BY <1>7, <1>9, <1>10 DEF Inv

(* The same between the close() and the socket() of a retry, when a          *)
(* registration may go but none may come.                                    *)
LEMMA RoundInHandler ==
  ASSUME Inv, pc = "closed", pc' \in {"iterate", "closed"}, slave' = slave,
         \A e \in slave : Used(e[1])' => Used(e[1]) /\ item'[e[1]].c = item[e[1]].c
  PROVE  Rounds' /\ EventsReachTheirOwner'
  BY DEF Inv, EventsReachTheirOwner, Rounds

(* A round without events disturbs nobody. *)
LEMMA NoEvents ==
  ASSUME slave' = {}
  PROVE  Rounds' /\ EventsReachTheirOwner'
  BY DEF EventsReachTheirOwner, Rounds

-----------------------------------------------------------------------------
(* The resolver threads. *)

(* getaddrinfo() opens a socket in a thread: between handlers its number is  *)
(* free and stays its own.                                                   *)
LEMMA ResolverOpensStep ==
  ASSUME Inv, NoRace, NEW c \in Conns, ResolverOpens(c)
  PROVE  Inv'
<1> DEFINE g == NewFd
<1>0. TypeOK /\ World /\ pc # "closed" /\ who = Nobody
  BY DEF Inv, World, NoRace, ResolverOpens, InHandler
<1>1. g \in Fd /\ file[g] = Free
  BY NewFdIs DEF ResolverOpens
<1>2. /\ \A f \in Fd : file'[f] = IF f = g THEN File("dns", c) ELSE file[f]
      /\ \A d \in Conns : dns'[d] = IF d = c THEN g ELSE dns[d]
      /\ dns[c] = NoFd
      /\ UNCHANGED <<srv, done, pc, who, item, slave, jobs, st, cfd, ofd, left, moved, current, total, max_conn>>
  BY <1>0, <1>1 DEF TypeOK, ResolverOpens
<1>3. /\ g \notin Listeners
      /\ \A q \in Peers : st[q] \in ClientStates => cfd[q] # g
      /\ \A d \in Conns : st[d] \in OriginStates /\ who # d => ofd[d] # g
      /\ \A d \in Conns : dns[d] # g
  BY <1>1, FreeIsNobodys
<1> HIDE DEF g
<1>4. Services' /\ ListenersOpen' /\ Resolvers'
  <2>1. Services'
    BY <1>0, <1>1, <1>2, <1>3 DEF World, Services
  <2>2. ListenersOpen'
    BY <1>0, <1>1, <1>2, <1>3, FdFacts DEF World, ListenersOpen
  <2>3. Resolvers'
    BY <1>0, <1>1, <1>2, <1>3 DEF World, Resolvers
  <2> QED BY <2>1, <2>2, <2>3
<1>5. Clients' /\ Origins'
  BY <1>0, <1>2, <1>3 DEF World, Clients, ClientHeld, Origins, OriginHeld
<1>6. InHandler' /\ Items' /\ MovedHaveTried' /\ Queue'
  BY <1>0, <1>2 DEF World, InHandler, Items, ItemHeld, MovedHaveTried, Queue
<1>7. ASSUME NEW f \in Fd PROVE FileHeld(f)'
  <2>1. CASE f = g
    BY <1>2, <2>1 DEF FileHeld
  <2>2. CASE f # g
    <3>1. FileHeld(f) /\ file'[f] = file[f]
      BY <1>0, <1>2, <2>2 DEF World, Files
    <3>2. \A d \in Conns : dns[d] = f => dns'[d] = f
      BY <1>2, FdFacts
    <3> QED BY <1>2, <3>1, <3>2 DEF FileHeld
  <2> QED BY <2>1, <2>2
<1>8. World'
  BY <1>4, <1>5, <1>6, <1>7 DEF World, Files
<1>9. Rounds' /\ EventsReachTheirOwner'
  BY <1>2, RoundWaits DEF Used
<1>10. TypeOK'
  BY <1>0, TypeResolver DEF World, Resolver
<1> QED BY <1>8, <1>9, <1>10 DEF Inv

(* getaddrinfo() closes the descriptor that it has opened. *)
LEMMA ResolverClosesStep ==
  ASSUME Inv, NEW c \in Conns, ResolverCloses(c)
  PROVE  Inv'
<1> DEFINE g == dns[c]
<1>0. TypeOK /\ World
  BY DEF Inv
<1>1. g \in Fd /\ file[g] = File("dns", c)
  BY <1>0 DEF ResolverCloses, World, Resolvers
<1>2. /\ \A f \in Fd : file'[f] = IF f = g THEN Free ELSE file[f]
      /\ \A d \in Conns : dns'[d] = IF d = c THEN NoFd ELSE dns[d]
      /\ UNCHANGED <<srv, done, pc, who, item, slave, jobs, st, cfd, ofd, left, moved, current, total, max_conn>>
  BY <1>0, <1>1 DEF TypeOK, ResolverCloses, Closed
<1>3. /\ g \notin Listeners
      /\ \A q \in Peers : st[q] \in ClientStates => cfd[q] # g
      /\ \A d \in Conns : st[d] \in OriginStates /\ who # d => ofd[d] # g
      /\ \A d \in Conns : d # c => dns[d] # g
  <2>1. g \notin Listeners
    BY <1>0, <1>1, KindsDiffer DEF World, ListenersOpen
  <2>2. \A q \in Peers : st[q] \in ClientStates => cfd[q] # g
    BY <1>0, <1>1, KindsDiffer DEF World, Clients, ClientHeld
  <2>3. \A d \in Conns : st[d] \in OriginStates /\ who # d => ofd[d] # g
    BY <1>0, <1>1, KindsDiffer DEF World, Origins, OriginHeld
  <2>4. \A d \in Conns : d # c => dns[d] # g
    BY <1>0, <1>1, KindsDiffer, FdFacts DEF World, Resolvers
  <2> QED BY <2>1, <2>2, <2>3, <2>4
<1>4. pc = "closed" => ofd[who] # g /\ ofd[who] \in Fd
  BY <1>0, <1>1, KindsDiffer, StateFacts DEF World, InHandler, Origins, OriginHeld
<1> HIDE DEF g
<1>5. Services' /\ ListenersOpen' /\ Resolvers'
  BY <1>0, <1>1, <1>2, <1>3, FdFacts DEF World, Services, ListenersOpen, Resolvers
<1>6. Clients' /\ Origins'
  BY <1>0, <1>2, <1>3 DEF World, Clients, ClientHeld, Origins, OriginHeld
<1>7. InHandler'
  BY <1>0, <1>2, <1>4 DEF World, InHandler
<1>8. Items' /\ MovedHaveTried' /\ Queue'
  BY <1>0, <1>2 DEF World, Items, ItemHeld, MovedHaveTried, Queue
<1>9. ASSUME NEW f \in Fd PROVE FileHeld(f)'
  <2>1. CASE f = g
    BY <1>2, <2>1 DEF FileHeld
  <2>2. CASE f # g
    <3>1. FileHeld(f) /\ file'[f] = file[f]
      BY <1>0, <1>2, <2>2 DEF World, Files
    <3>2. \A d \in Conns : dns[d] = f => dns'[d] = f
      BY <1>2, <2>2 DEF g
    <3> QED BY <1>2, <3>1, <3>2 DEF FileHeld
  <2> QED BY <2>1, <2>2
<1>10. World'
  BY <1>5, <1>6, <1>7, <1>8, <1>9 DEF World, Files
<1>11. Rounds' /\ EventsReachTheirOwner'
  BY <1>2, RoundWaits DEF Used
<1>12. TypeOK'
  BY <1>0, TypeResolver DEF World, Resolver
<1> QED BY <1>10, <1>11, <1>12 DEF Inv

(* A connection that did not wait for a job gets the one job it waits for. *)
LEMMA ResolvedStep ==
  ASSUME Inv, NEW c \in Conns, resolve_host_name(c)
  PROVE  Inv'
<1>0. TypeOK /\ World
  BY DEF Inv
<1>1. /\ st[c] = "resolving" /\ jobs' = <<cfd[c]>> \o jobs /\ jobs \in Seq(Fd) /\ c \in Peers
      /\ \A q \in Peers : st'[q] = IF q = c THEN "queued" ELSE st[q]
      /\ \A d \in Conns : d # c => left'[d] = left[d]
      /\ UNCHANGED <<srv, done, pc, who, file, item, slave, cfd, ofd, moved, dns, current, total, max_conn>>
  BY <1>0, PeerFacts DEF TypeOK, resolve_host_name
<1>2. /\ \A q \in Peers : /\ st'[q] \in ClientStates <=> st[q] \in ClientStates
                          /\ st'[q] \in LiveStates <=> st[q] \in LiveStates
                          /\ st'[q] \in OriginStates <=> st[q] \in OriginStates
                          /\ st'[q] \in OriginStates => st'[q] = st[q]
                          /\ st'[q] = "open" <=> st[q] = "open"
                          /\ st'[q] = "freed" <=> st[q] = "freed"
                          /\ st[q] = "queued" => q # c /\ st'[q] = "queued"
                          /\ st'[q] \in {"resolving", "queued", "connecting"}
                               <=> st[q] \in {"resolving", "queued", "connecting"}
      /\ c \notin moved
  BY <1>0, <1>1, StateFacts DEF World, MovedHaveTried
<1>3. Services' /\ ListenersOpen' /\ Clients' /\ Resolvers'
  BY <1>0, <1>1, <1>2, PeerFacts DEF World, Services, ListenersOpen, Clients, ClientHeld, Resolvers
<1>4. Origins' /\ InHandler'
  BY <1>0, <1>1, <1>2, PeerFacts DEF World, Origins, OriginHeld, InHandler, OriginStates
<1>5. Files'
  BY <1>0, <1>1, <1>2, PeerFacts DEF World, Files, FileHeld
<1>6. Items' /\ MovedHaveTried'
  <2>1. \A q \in Conns : (st'[q] = "copy" <=> st[q] = "copy") /\ (st'[q] = "connecting" <=> st[q] = "connecting")
    BY <1>1, PeerFacts
  <2>2. MovedHaveTried'
    BY <1>0, <1>1, <1>2, PeerFacts DEF World, MovedHaveTried, TypeOK
  <2> QED BY <1>0, <1>1, <1>2, <2>1, <2>2, PeerFacts DEF World, Items, ItemHeld
<1>7. Queue'
  <2>0. cfd[c] \in Fd /\ file[cfd[c]] = File("client", c)
    BY <1>0, <1>1, StateFacts DEF World, Clients, ClientHeld
  <2>1. /\ Len(jobs') = Len(jobs) + 1 /\ Len(jobs) \in Nat /\ jobs'[1] = cfd[c]
        /\ \A i \in 2..Len(jobs') : jobs'[i] = jobs[i - 1] /\ i - 1 \in 1..Len(jobs)
    BY <1>1, <2>0
  <2>2. \A i \in 1..Len(jobs) : jobs[i] # cfd[c]
    <3> TAKE i \in 1..Len(jobs)
    <3>1. PICK d \in Conns : st[d] = "queued" /\ cfd[d] = jobs[i]
      BY <1>0 DEF World, Queue
    <3>2. file[cfd[d]] = File("client", d) /\ d # c
      BY <1>0, <1>1, <3>1, StateFacts, PeerFacts DEF World, Clients, ClientHeld
    <3> QED BY <2>0, <3>1, <3>2, KindsDiffer
  <2>3. ASSUME NEW i \in 1..Len(jobs') PROVE \E d \in Conns : st'[d] = "queued" /\ cfd'[d] = jobs'[i]
    <3>1. CASE i = 1
      BY <1>1, <2>1, <3>1
    <3>2. CASE i # 1
      <4>1. i \in 2..Len(jobs')
        BY <2>1, <3>2
      <4>2. jobs'[i] = jobs[i - 1] /\ i - 1 \in 1..Len(jobs)
        BY <2>1, <4>1
      <4>3. PICK d \in Conns : st[d] = "queued" /\ cfd[d] = jobs[i - 1]
        BY <1>0, <4>2 DEF World, Queue
      <4> QED BY <1>1, <1>2, <4>2, <4>3, PeerFacts
    <3> QED BY <3>1, <3>2
  <2>4. ASSUME NEW i \in 1..Len(jobs'), NEW j \in 1..Len(jobs'), jobs'[i] = jobs'[j] PROVE i = j
    <3>1. ASSUME NEW k \in 1..Len(jobs') PROVE k = 1 \/ (jobs'[k] = jobs[k - 1] /\ k - 1 \in 1..Len(jobs))
      <4>1. k = 1 \/ k \in 2..Len(jobs')
        BY <2>1
      <4> QED BY <2>1, <4>1
    <3>2. CASE i = 1 \/ j = 1
      BY <2>1, <2>2, <2>4, <3>1, <3>2
    <3>3. CASE i # 1 /\ j # 1
      <4>1. jobs[i - 1] = jobs[j - 1] /\ i - 1 \in 1..Len(jobs) /\ j - 1 \in 1..Len(jobs)
        BY <2>4, <3>1, <3>3
      <4>2. i - 1 = j - 1
        BY <1>0, <4>1 DEF World, Queue
      <4>3. i \in Int /\ j \in Int
        BY <2>1
      <4> QED BY <4>2, <4>3
    <3> QED BY <3>2, <3>3
  <2> QED BY <2>3, <2>4 DEF Queue
<1>8. World'
  BY <1>3, <1>4, <1>5, <1>6, <1>7 DEF World
<1>9. Rounds' /\ EventsReachTheirOwner'
  BY <1>1, RoundWaits DEF Used
<1>10. TypeOK'
  BY <1>0, TypeResolver DEF World, Resolver
<1> QED BY <1>8, <1>9, <1>10 DEF Inv

-----------------------------------------------------------------------------
(* The jobs. *)

(* The next job names a connection that waits, with its descriptor open and  *)
(* not watched.                                                              *)
LEMMA JobFacts ==
  ASSUME Inv, jobs # << >>
  PROVE  /\ Head(jobs) \in Fd /\ Tail(jobs) \in Seq(Fd) /\ Job \in Conns /\ Job \in Peers
         /\ st[Job] = "queued" /\ cfd[Job] = Head(jobs)
         /\ item[Head(jobs)].h = "socks5" /\ ~item[Head(jobs)].on
         /\ file[Head(jobs)] = File("client", Job) /\ Job \notin moved /\ ofd[Job] \in {0, NoFd}
<1>0. TypeOK /\ World
  BY DEF Inv
<1>1. jobs \in Seq(Fd) /\ Head(jobs) \in Fd /\ Tail(jobs) \in Seq(Fd) /\ 1 \in 1..Len(jobs) /\ Head(jobs) = jobs[1]
  BY <1>0, HeadTailProperties DEF TypeOK
<1>2. PICK c \in Conns : st[c] = "queued" /\ cfd[c] = Head(jobs)
  BY <1>0, <1>1 DEF World, Queue
<1>3. ClientHeld(c) /\ OriginHeld(c) /\ st[c] \in ClientStates /\ c \in Peers /\ st[c] \notin OriginStates
  BY <1>0, <1>2, PeerFacts, StateFacts DEF World, Clients, Origins
<1>4. /\ item[cfd[c]].c = c /\ item[cfd[c]].h = "socks5" /\ ~item[cfd[c]].on
      /\ file[cfd[c]] = File("client", c)
  BY <1>2, <1>3 DEF ClientHeld
<1>5. Job = c
  BY <1>2, <1>4 DEF Job
<1>6. c \notin moved /\ ofd[c] \in {0, NoFd}
  BY <1>0, <1>2, <1>3 DEF World, MovedHaveTried, OriginHeld
<1> QED BY <1>1, <1>2, <1>3, <1>4, <1>5, <1>6

(* The other jobs are those of other connections. *)
LEMMA QueueTail ==
  ASSUME Inv, jobs # << >>, jobs' = Tail(jobs), cfd' = cfd,
         \A c \in Conns : c # Job => st'[c] = st[c]
  PROVE  Queue'
<1>0. World /\ jobs \in Seq(Fd) /\ cfd[Job] = Head(jobs) /\ Head(jobs) = jobs[1]
  BY JobFacts, HeadTailProperties DEF Inv, TypeOK
<1>1. /\ Len(jobs') = Len(jobs) - 1 /\ Len(jobs) \in Nat /\ 1 \in 1..Len(jobs)
      /\ \A i \in 1..Len(jobs') : jobs'[i] = jobs[i + 1]
  BY <1>0, HeadTailProperties
<1>2. ASSUME NEW i \in 1..Len(jobs')
      PROVE  i + 1 \in 1..Len(jobs) /\ jobs'[i] = jobs[i + 1] /\ i + 1 # 1 /\ i \in Int
  BY <1>1
<1>3. ASSUME NEW i \in 1..Len(jobs') PROVE \E c \in Conns : st'[c] = "queued" /\ cfd'[c] = jobs'[i]
  <2>1. PICK c \in Conns : st[c] = "queued" /\ cfd[c] = jobs[i + 1]
    BY <1>0, <1>2 DEF World, Queue
  <2>2. jobs[i + 1] # jobs[1]
    BY <1>0, <1>1, <1>2 DEF World, Queue
  <2>3. c # Job
    BY <1>0, <2>1, <2>2
  <2> QED BY <1>2, <2>1, <2>3
<1>4. ASSUME NEW i \in 1..Len(jobs'), NEW j \in 1..Len(jobs'), jobs'[i] = jobs'[j] PROVE i = j
  <2>1. jobs[i + 1] = jobs[j + 1] /\ i + 1 \in 1..Len(jobs) /\ j + 1 \in 1..Len(jobs)
    BY <1>2, <1>4
  <2>2. i + 1 = j + 1 /\ i \in Int /\ j \in Int
    BY <1>0, <1>2, <2>1 DEF World, Queue
  <2> QED BY <2>2
<1> QED BY <1>3, <1>4 DEF Queue

(* No address: the client is told. *)
LEMMA NoAddressStep ==
  ASSUME Inv, socksv5_block, BlockNoAddress
  PROVE  World'
<1> DEFINE j == Job
           h == Head(jobs)
<1>0. TypeOK /\ World /\ pc = "blocks" /\ jobs # << >> /\ jobs' = Tail(jobs)
  BY DEF Inv, socksv5_block
<1>1. /\ h \in Fd /\ j \in Conns /\ j \in Peers /\ st[j] = "queued" /\ cfd[j] = h
      /\ item[h].h = "socks5" /\ file[h] = File("client", j) /\ j \notin moved /\ ofd[j] \in {0, NoFd}
  BY <1>0, JobFacts
<1>2. /\ \A q \in Peers : st'[q] = IF q = j THEN "failing" ELSE st[q]
      /\ \A f \in Fd : f # h => item'[f] = item[f]
      /\ item'[h].h = item[h].h /\ item'[h].c = item[h].c
      /\ UNCHANGED <<pc, who, file, ofd, left, cfd, moved, dns>>
  BY <1>0, <1>1 DEF TypeOK, socksv5_block, BlockNoAddress
<1>3. Queue'
  BY <1>0, <1>2, QueueTail, PeerFacts DEF j
<1> HIDE DEF j, h
<1>4. \A q \in Peers : /\ st'[q] \in ClientStates <=> st[q] \in ClientStates
                       /\ st'[q] \in LiveStates <=> st[q] \in LiveStates
                       /\ st'[q] \in OriginStates <=> st[q] \in OriginStates
                       /\ st'[q] \in OriginStates => st'[q] = st[q]
                       /\ st'[q] = "open" <=> st[q] = "open"
                       /\ st'[q] = "freed" <=> st[q] = "freed"
  BY <1>1, <1>2, StateFacts
<1>5. Services' /\ ListenersOpen' /\ Resolvers'
  BY <1>0, <1>2, <1>4, PeerFacts DEF World, Services, ListenersOpen, Resolvers
<1>6. Origins' /\ InHandler' /\ MovedHaveTried'
  BY <1>0, <1>1, <1>2, <1>4, PeerFacts DEF World, Origins, OriginHeld, InHandler, MovedHaveTried, TypeOK
<1>7. Files'
  BY <1>0, <1>2, <1>4, PeerFacts DEF World, Files, FileHeld
<1>8. ASSUME NEW q \in Peers PROVE ClientHeld(q)'
  <2>0. ClientHeld(q)
    BY <1>0 DEF World, Clients
  <2>1. CASE q = j
    BY <1>1, <1>2, <2>0, <2>1, StateFacts DEF ClientHeld
  <2>2. CASE q # j
    <3>1. st[q] \in ClientStates => cfd[q] # h
      BY <1>1, <2>0, <2>2, KindsDiffer DEF ClientHeld
    <3> QED BY <1>2, <2>0, <2>2, <3>1 DEF ClientHeld
  <2> QED BY <2>1, <2>2
<1>9. ASSUME NEW f \in Fd PROVE ItemHeld(f)'
  <2>0. ItemHeld(f) /\ item'[f].h = item[f].h /\ item'[f].c = item[f].c
    BY <1>0, <1>2 DEF World, Items
  <2>1. \A q \in Conns : (st'[q] = "copy" <=> st[q] = "copy") /\ (st'[q] = "connecting" <=> st[q] = "connecting")
    BY <1>1, <1>2, PeerFacts
  <2> QED BY <1>2, <1>4, <2>0, <2>1, PeerFacts DEF ItemHeld
<1> QED BY <1>3, <1>5, <1>6, <1>7, <1>8, <1>9 DEF World, Clients, Items

(* A socket for the first address. *)
LEMMA SocketStep ==
  ASSUME Inv, jobs # << >>, jobs' = Tail(jobs), pc # "closed", FreeFds # {}, NEW s \in OriginStates,
         st' = [st EXCEPT ![Job] = s], Socket(Job),
         \A f \in Fd : f # NewFd /\ f # Head(jobs) => item'[f] = item[f],
         item'[Head(jobs)].h = "socks5" /\ item'[Head(jobs)].c = Job,
         s = "connecting" => ~item'[Head(jobs)].on,
         item'[NewFd] = item[NewFd] \/ (item'[NewFd].h = s /\ item'[NewFd].c = Job),
         UNCHANGED <<pc, who, cfd, moved, dns>>
  PROVE  World'
<1> DEFINE j == Job
           h == Head(jobs)
           g == NewFd
<1>0. TypeOK /\ World /\ who = Nobody
  BY DEF Inv, World, InHandler
<1>1. /\ h \in Fd /\ j \in Conns /\ j \in Peers /\ st[j] = "queued" /\ cfd[j] = h
      /\ item[h].h = "socks5" /\ file[h] = File("client", j) /\ j \notin moved /\ ofd[j] \in {0, NoFd}
  BY JobFacts
<1>2. g \in Fd /\ file[g] = Free
  BY NewFdIs
<1>3. /\ g \notin Listeners
      /\ \A q \in Peers : st[q] \in ClientStates => cfd[q] # g
      /\ \A c \in Conns : st[c] \in OriginStates /\ who # c => ofd[c] # g
      /\ \A c \in Conns : dns[c] # g
  BY <1>2, FreeIsNobodys
<1>4. /\ \A q \in Peers : st'[q] = IF q = j THEN s ELSE st[q]
      /\ \A c \in Conns : ofd'[c] = IF c = j THEN g ELSE ofd[c]
      /\ \A f \in Fd : file'[f] = IF f = g THEN File("origin", j) ELSE file[f]
  BY <1>0, <1>1, <1>2 DEF TypeOK, Socket
<1>5. Queue'
  BY <1>4, QueueTail, PeerFacts DEF j
<1>6. g # h
  BY <1>1, <1>2, KindsDiffer
<1>7. /\ \A f \in Fd : f # g /\ f # h => item'[f] = item[f]
      /\ item'[h].h = "socks5" /\ item'[h].c = j /\ (s = "connecting" => ~item'[h].on)
      /\ item'[g] = item[g] \/ (item'[g].h = s /\ item'[g].c = j)
  OBVIOUS
<1> HIDE DEF j, h, g
<1>8. \A q \in Peers : /\ st'[q] \in ClientStates <=> st[q] \in ClientStates
                       /\ st'[q] \in LiveStates <=> st[q] \in LiveStates
                       /\ st'[q] = "open" <=> st[q] = "open"
                       /\ st'[q] = "freed" <=> st[q] = "freed"
  BY <1>1, <1>4, StateFacts
<1>9. Services' /\ ListenersOpen'
  BY <1>0, <1>3, <1>4, <1>8, PeerFacts, FdFacts DEF World, Services, ListenersOpen
<1>a. Resolvers'
  BY <1>0, <1>3, <1>4 DEF World, Resolvers
<1>10. ASSUME NEW c \in Conns PROVE OriginHeld(c)'
  <2>1. CASE c = j
    BY <1>0, <1>2, <1>4, <2>1, PeerFacts DEF OriginHeld
  <2>2. CASE c # j
    <3>1. OriginHeld(c) /\ st'[c] = st[c] /\ ofd'[c] = ofd[c] /\ who # c
      BY <1>0, <1>4, <2>2, PeerFacts DEF World, Origins
    <3> QED BY <1>3, <1>4, <3>1 DEF OriginHeld
  <2> QED BY <2>1, <2>2
<1>11. InHandler' /\ MovedHaveTried'
  BY <1>0, <1>1, <1>4, PeerFacts DEF World, InHandler, MovedHaveTried, TypeOK
<1>12. ASSUME NEW f \in Fd PROVE FileHeld(f)'
  <2>1. CASE f = g
    BY <1>1, <1>4, <2>1, PeerFacts DEF FileHeld
  <2>2. CASE f # g
    <3>1. FileHeld(f) /\ file'[f] = file[f]
      BY <1>0, <1>4, <2>2 DEF World, Files
    <3>2. \A c \in Conns : st[c] \in OriginStates => st'[c] \in OriginStates /\ ofd'[c] = ofd[c]
      BY <1>1, <1>4, StateFacts, PeerFacts
    <3> QED BY <1>8, <3>1, <3>2 DEF FileHeld
  <2> QED BY <2>1, <2>2
<1>13. ASSUME NEW q \in Peers PROVE ClientHeld(q)'
  <2>0. ClientHeld(q)
    BY <1>0 DEF World, Clients
  <2>1. CASE q = j
    BY <1>1, <1>4, <1>6, <1>7, <2>1, StateFacts DEF ClientHeld
  <2>2. CASE q # j
    <3>1. st[q] \in ClientStates => cfd[q] # h /\ cfd[q] # g /\ cfd[q] \in Fd
      BY <1>1, <1>3, <2>0, <2>2, KindsDiffer DEF ClientHeld
    <3> QED BY <1>4, <1>7, <2>0, <2>2, <3>1 DEF ClientHeld
  <2> QED BY <2>1, <2>2
<1>14. ASSUME NEW f \in Fd PROVE ItemHeld(f)'
  <2>0. ItemHeld(f)
    BY <1>0 DEF World, Items
  <2>1. CASE f = h
    BY <1>1, <1>4, <1>7, <2>1, StateFacts DEF ItemHeld
  <2>2. CASE f = g /\ item'[g] # item[g]
    <3>1. g \in Nat
      BY <1>2, FdFacts
    <3> QED BY <1>1, <1>3, <1>4, <1>7, <2>2, <3>1, StateFacts DEF ItemHeld
  <2>3. CASE f # h /\ item'[f] = item[f]
    <3>1. item[f].c = j => item[f].h \notin {"socks5", "admin", "copy", "connecting"}
      BY <1>1, <2>0, <2>3, PeerFacts DEF ItemHeld
    <3> QED BY <1>4, <1>8, <2>0, <2>3, <3>1, PeerFacts DEF ItemHeld
  <2> QED BY <1>7, <2>1, <2>2, <2>3
<1> QED BY <1>5, <1>9, <1>a, <1>10, <1>11, <1>12, <1>13, <1>14 DEF World, Clients, Origins, Files, Items

(* socksv5_block, for each outcome of the first attempt to connect. *)
LEMMA BlockStep ==
  ASSUME Inv, socksv5_block
  PROVE  Inv'
<1>0. /\ TypeOK /\ World /\ pc = "blocks" /\ jobs # << >> /\ jobs' = Tail(jobs)
      /\ UNCHANGED <<pc, who, slave, cfd, moved, dns>>
  BY DEF Inv, socksv5_block
<1>1. /\ Head(jobs) \in Fd /\ Job \in Conns /\ Job \in Peers /\ item[Head(jobs)].h = "socks5"
      /\ ~item[Head(jobs)].on /\ item[Head(jobs)].c = Job /\ file[Head(jobs)] = File("client", Job)
  BY <1>0, JobFacts DEF Job
<1>2. TypeOK'
  BY <1>0, TypeBlock DEF World
<1>3. Rounds' /\ EventsReachTheirOwner'
  BY <1>0, NoEvents DEF Inv, Rounds
<1>4. CASE BlockNoAddress
  BY <1>2, <1>3, <1>4, NoAddressStep DEF Inv
<1>5. CASE BlockInProgress
  <2>1. /\ FreeFds # {} /\ Socket(Job) /\ st' = [st EXCEPT ![Job] = "connecting"]
        /\ item' = [item EXCEPT ![NewFd] = Item("connecting", Job, TRUE)]
    BY <1>5 DEF BlockInProgress, CanRegister
  <2>2. NewFd \in Fd /\ file[NewFd] = Free
    BY <2>1, NewFdIs
  <2>3. NewFd # Head(jobs)
    BY <1>1, <2>2, KindsDiffer
  <2>4. /\ \A f \in Fd : f # NewFd => item'[f] = item[f]
        /\ item'[NewFd].h = "connecting" /\ item'[NewFd].c = Job
    BY <1>0, <2>1, <2>2 DEF TypeOK, Item
  <2>5. item'[Head(jobs)] = item[Head(jobs)]
    BY <1>1, <2>3, <2>4
  <2>6. World'
    BY <1>0, <1>1, <2>1, <2>4, <2>5, SocketStep, StateFacts
  <2> QED BY <1>2, <1>3, <2>6 DEF Inv
<1>6. CASE BlockSuccess
  <2>1. FreeFds # {} /\ Socket(Job) /\ st' = [st EXCEPT ![Job] = "copy"]
    BY <1>6 DEF BlockSuccess, Socket
  <2>2. NewFd \in Fd /\ file[NewFd] = Free
    BY <2>1, NewFdIs
  <2>3. NewFd # Head(jobs)
    BY <1>1, <2>2, KindsDiffer
  <2>4. /\ \A f \in Fd : f # NewFd /\ f # Head(jobs) => item'[f] = item[f]
        /\ item'[NewFd] = item[NewFd] \/ (item'[NewFd].h = "copy" /\ item'[NewFd].c = Job)
    BY <1>6, <2>2, <2>3 DEF BlockSuccess, Item
  <2>5. item'[Head(jobs)].h = "socks5" /\ item'[Head(jobs)].c = Job
    <3> DEFINE U(f) == CASE f = Head(jobs) -> [item[f] EXCEPT !.on = TRUE]
                         [] f = NewFd /\ CanRegister -> Item("copy", Job, TRUE)
                         [] OTHER -> item[f]
    <3>a. item' = [f \in Fd |-> U(f)]
      BY <1>6 DEF BlockSuccess
    <3>b. U(Head(jobs)) = [item[Head(jobs)] EXCEPT !.on = TRUE]
      BY <2>3
    <3> HIDE DEF U
    <3>1. item'[Head(jobs)] = [item[Head(jobs)] EXCEPT !.on = TRUE]
      BY <1>1, <3>a, <3>b
    <3> QED BY <1>0, <1>1, <3>1 DEF TypeOK
  <2>6. World'
    BY <1>0, <2>1, <2>4, <2>5, SocketStep, StateFacts
  <2> QED BY <1>2, <1>3, <2>6 DEF Inv
<1>7. CASE BlockAborts
  <2>1. UNCHANGED <<file, item, st, ofd, left>>
    BY <1>7 DEF BlockAborts
  <2>2. Queue'
    BY <1>0, <2>1, QueueTail
  <2>3. Services' /\ ListenersOpen' /\ Clients' /\ Resolvers' /\ MovedHaveTried'
    BY <1>0, <2>1 DEF World, Services, ListenersOpen, Clients, ClientHeld, Resolvers, MovedHaveTried
  <2>4. Origins' /\ InHandler' /\ Files' /\ Items'
    BY <1>0, <2>1 DEF World, Origins, OriginHeld, InHandler, Files, FileHeld, Items, ItemHeld
  <2> QED BY <1>2, <1>3, <2>2, <2>3, <2>4 DEF Inv, World
<1> QED BY <1>4, <1>5, <1>6, <1>7 DEF socksv5_block

-----------------------------------------------------------------------------
(* handle_write_connecting. *)

(* What its connection has. *)
LEMMA ConnectingFacts ==
  ASSUME Inv, NEW c \in Conns, st[c] = "connecting"
  PROVE  /\ c \in Peers /\ cfd[c] \in Fd /\ file[cfd[c]] = File("client", c) /\ ofd[c] \in Fd
         /\ item[cfd[c]].h = "socks5" /\ item[cfd[c]].c = c
         /\ ofd[c] # cfd[c]
         /\ file[ofd[c]] = Free \/ file[ofd[c]] = File("origin", c)
         /\ who # c => file[ofd[c]] = File("origin", c)
<1>0. World /\ ClientHeld(c) /\ OriginHeld(c) /\ c \in Peers /\ st[c] \in ClientStates /\ st[c] \in OriginStates
  BY PeerFacts, StateFacts DEF Inv, World, Clients, Origins
<1>1. /\ cfd[c] \in Fd /\ file[cfd[c]] = File("client", c) /\ ofd[c] \in Fd
      /\ item[cfd[c]].h = "socks5" /\ item[cfd[c]].c = c
      /\ who # c => file[ofd[c]] = File("origin", c)
  BY <1>0 DEF ClientHeld, OriginHeld
<1>2. file[ofd[c]] = Free \/ file[ofd[c]] = File("origin", c)
  BY <1>0, <1>1, PeerFacts DEF World, InHandler
<1> QED BY <1>0, <1>1, <1>2, KindsDiffer

(* A number that is free or the origin's is no one else's. *)
LEMMA OriginIsOwn ==
  ASSUME Inv, NEW c \in Conns, st[c] = "connecting"
  PROVE  /\ ofd[c] \notin Listeners
         /\ \A q \in Peers : st[q] \in ClientStates => cfd[q] # ofd[c]
         /\ \A d \in Conns : d # c /\ d # who /\ st[d] \in OriginStates => ofd[d] # ofd[c]
         /\ \A d \in Conns : dns[d] # ofd[c]
<1>0. World
  BY DEF Inv
<1>1. ofd[c] \in Fd /\ (file[ofd[c]] = Free \/ file[ofd[c]] = File("origin", c))
  BY ConnectingFacts
<1>2. ofd[c] \notin Listeners
  BY <1>0, <1>1, KindsDiffer DEF World, ListenersOpen
<1>3. ASSUME NEW q \in Peers, st[q] \in ClientStates PROVE cfd[q] # ofd[c]
  BY <1>0, <1>1, <1>3, KindsDiffer DEF World, Clients, ClientHeld
<1>4. ASSUME NEW d \in Conns, d # c, d # who, st[d] \in OriginStates PROVE ofd[d] # ofd[c]
  BY <1>0, <1>1, <1>4, KindsDiffer DEF World, Origins, OriginHeld
<1>5. ASSUME NEW d \in Conns PROVE dns[d] # ofd[c]
  <2>1. CASE dns[d] = NoFd
    BY <1>1, <2>1, FdFacts
  <2>2. CASE dns[d] # NoFd
    <3>1. file[dns[d]] = File("dns", d)
      BY <1>0, <2>2 DEF World, Resolvers
    <3> QED BY <1>1, <3>1, KindsDiffer
  <2> QED BY <2>1, <2>2
<1> QED BY <1>2, <1>3, <1>4, <1>5

(* The attempt has succeeded: copy_on_arrival registers the descriptor.      *)
LEMMA ConnectedStep ==
  ASSUME Inv, NEW f \in Fd, Handles(f, "connecting"), Connected(item[f].c),
         UNCHANGED <<done, jobs, cfd, ofd, moved, dns, current, total, max_conn>>
  PROVE  World' /\ Rounds' /\ EventsReachTheirOwner'
<1> DEFINE c == item[f].c
           o == ofd[c]
           h == cfd[c]
<1>0. TypeOK /\ World /\ Turn(f) /\ ItemHeld(f) /\ item[f].h = "connecting"
  BY DEF Inv, World, Items, Handles
<1>1. pc = "iterate" /\ who = Nobody
  BY <1>0, AfterTurn
<1>2. c \in Conns /\ c \in Peers /\ st[c] = "connecting" /\ f \notin Listeners /\ o <= f
  BY <1>0, PeerFacts DEF ItemHeld, Connected
<1>3. /\ h \in Fd /\ file[h] = File("client", c) /\ o \in Fd /\ item[h].h = "socks5" /\ item[h].c = c
      /\ o # h /\ file[o] = File("origin", c)
  BY <1>1, <1>2, ConnectingFacts, PeerFacts
<1>4. /\ o \notin Listeners
      /\ \A q \in Peers : st[q] \in ClientStates => cfd[q] # o
      /\ \A d \in Conns : d # c /\ st[d] \in OriginStates => ofd[d] # o
  BY <1>1, <1>2, OriginIsOwn, PeerFacts
<1>5. /\ \A q \in Peers : st'[q] = IF q = c THEN "copy" ELSE st[q]
      /\ UNCHANGED <<srv, pc, who, file>>
  BY <1>0 DEF Connected, TypeOK
<1>6. /\ \A g \in Fd : g # o /\ g # h => item'[g] = item[g]
      /\ item'[o].h = "copy" /\ item'[o].c = c
      /\ item'[h].h = "socks5" /\ item'[h].c = c
  <2> DEFINE it == [item EXCEPT ![o] = Item("copy", c, TRUE)]
  <2>1. item' = [it EXCEPT ![h].on = TRUE]
    BY DEF Connected
  <2>2. /\ it \in [Fd -> ItemType] /\ it[o] = Item("copy", c, TRUE) /\ \A g \in Fd : g # o => it[g] = item[g]
    <3>1. item \in [Fd -> ItemType] /\ Item("copy", c, TRUE) \in ItemType
      BY <1>0, <1>2, SameTypes, RecordTypes DEF Types
    <3> QED BY <1>3, <3>1
  <2>3. it[h] = item[h] /\ it[h] \in ItemType /\ it[o].h = "copy" /\ it[o].c = c
    BY <1>3, <2>2 DEF Item
  <2> HIDE DEF it
  <2>4. \A g \in Fd : g # h => item'[g] = it[g]
    BY <2>1, <2>2
  <2>5. item'[h] = [it[h] EXCEPT !.on = TRUE]
    BY <1>3, <2>1, <2>2
  <2>6. item'[h].h = it[h].h /\ item'[h].c = it[h].c
    BY <2>3, <2>5 DEF ItemType
  <2> QED BY <1>3, <2>2, <2>3, <2>4, <2>6
<1> HIDE DEF c, o, h
<1>7. \A q \in Peers : /\ st'[q] \in ClientStates <=> st[q] \in ClientStates
                       /\ st'[q] \in LiveStates <=> st[q] \in LiveStates
                       /\ st'[q] \in OriginStates <=> st[q] \in OriginStates
                       /\ st'[q] = "open" <=> st[q] = "open"
                       /\ st'[q] = "queued" <=> st[q] = "queued"
                       /\ st'[q] = "freed" <=> st[q] = "freed"
  BY <1>2, <1>5, StateFacts
<1>8. Services' /\ ListenersOpen' /\ Resolvers'
  BY <1>0, <1>5, <1>7, PeerFacts DEF World, Services, ListenersOpen, Resolvers
<1>9. Origins' /\ InHandler'
  BY <1>0, <1>1, <1>5, <1>7, PeerFacts DEF World, Origins, OriginHeld, InHandler
<1>10. Files'
  BY <1>0, <1>5, <1>7, PeerFacts DEF World, Files, FileHeld
<1>11. MovedHaveTried' /\ Queue'
  BY <1>0, <1>5, <1>7, PeerFacts DEF World, MovedHaveTried, Queue, TypeOK
<1>12. ASSUME NEW q \in Peers PROVE ClientHeld(q)'
  <2>0. ClientHeld(q)
    BY <1>0 DEF World, Clients
  <2>1. CASE q = c
    BY <1>2, <1>3, <1>5, <1>6, <2>1 DEF ClientHeld, h
  <2>2. CASE q # c
    <3>1. st[q] \in ClientStates => cfd[q] # h /\ cfd[q] # o /\ cfd[q] \in Fd
      BY <1>3, <1>4, <2>0, <2>2, KindsDiffer DEF ClientHeld
    <3> QED BY <1>5, <1>6, <2>0, <2>2, <3>1 DEF ClientHeld
  <2> QED BY <2>1, <2>2
<1>13. ASSUME NEW g \in Fd PROVE ItemHeld(g)'
  <2>0. ItemHeld(g)
    BY <1>0 DEF World, Items
  <2>1. CASE g = o
    BY <1>2, <1>5, <1>6, <2>1 DEF ItemHeld, o
  <2>2. CASE g = h
    BY <1>2, <1>3, <1>5, <1>6, <2>2, StateFacts DEF ItemHeld, h
  <2>3. CASE g # o /\ g # h
    <3>0. item'[g] = item[g]
      BY <1>6, <2>3
    <3>1. item[g].c = c => /\ item[g].h \notin {"socks5", "admin", "copy"}
                           /\ item[g].h = "connecting" => c \in moved
      BY <1>2, <2>0, <2>3, PeerFacts DEF ItemHeld, o, h
    <3> QED BY <1>5, <2>0, <3>0, <3>1, PeerFacts DEF ItemHeld
  <2> QED BY <2>1, <2>2, <2>3
<1>14. \A e \in slave' : Used(e[1])' => Used(e[1]) /\ item'[e[1]].c = item[e[1]].c
  <2> SUFFICES ASSUME NEW e \in slave', Used(e[1])' PROVE Used(e[1]) /\ item'[e[1]].c = item[e[1]].c
    OBVIOUS
  <2>1. e[1] \in Fd /\ f <= e[1] /\ f \in Nat /\ o \in Nat /\ e[1] \in Nat
    BY <1>0, <1>3, AfterTurn, FdFacts
  <2>2. CASE e[1] = o
    <3>1. f = o
      BY <1>2, <2>1, <2>2
    <3> QED BY <1>0, <1>6, <2>2, <3>1 DEF Used, c
  <2>3. CASE e[1] = h
    BY <1>3, <1>6, <2>3 DEF Used
  <2>4. CASE e[1] # o /\ e[1] # h
    BY <1>6, <2>1, <2>4 DEF Used
  <2> QED BY <2>2, <2>3, <2>4
<1>15. Rounds' /\ EventsReachTheirOwner'
  BY <1>0, <1>1, <1>2, <1>5, <1>14, RoundGoesOn
<1> QED BY <1>8, <1>9, <1>10, <1>11, <1>12, <1>13, <1>15 DEF World, Clients, Items

(* The attempt has failed and no address is left. *)
LEMMA ConnectFailsStep ==
  ASSUME Inv, NEW f \in Fd, Handles(f, "connecting"), ConnectFails(item[f].c),
         UNCHANGED <<done, jobs, cfd, ofd, moved, dns, current, total, max_conn>>
  PROVE  World' /\ Rounds' /\ EventsReachTheirOwner'
<1> DEFINE c == item[f].c
           o == ofd[c]
<1>0. TypeOK /\ World /\ Turn(f) /\ ItemHeld(f) /\ item[f].h = "connecting"
  BY DEF Inv, World, Items, Handles
<1>1. pc = "iterate" /\ who = Nobody
  BY <1>0, AfterTurn
<1>2. c \in Conns /\ c \in Peers /\ st[c] = "connecting" /\ f \notin Listeners
  BY <1>0, PeerFacts DEF ItemHeld, ConnectFails
<1>3. o \in Fd /\ file[o] = File("origin", c)
  BY <1>1, <1>2, ConnectingFacts, PeerFacts
<1>4. /\ o \notin Listeners
      /\ \A q \in Peers : st[q] \in ClientStates => cfd[q] # o
      /\ \A d \in Conns : d # c /\ st[d] \in OriginStates => ofd[d] # o
      /\ \A d \in Conns : dns[d] # o
  BY <1>1, <1>2, OriginIsOwn, PeerFacts
<1>5. /\ \A g \in Fd : file'[g] = IF g = o THEN Free ELSE file[g]
      /\ pc' = "closed" /\ who' = c
      /\ UNCHANGED <<srv, item, st, left>>
  BY <1>0 DEF ConnectFails, Closed
<1>6. InHandler'
  BY <1>2, <1>3, <1>5 DEF InHandler
<1> HIDE DEF c, o
<1>7. Services' /\ ListenersOpen' /\ MovedHaveTried' /\ Queue'
  BY <1>0, <1>4, <1>5, FdFacts DEF World, Services, ListenersOpen, MovedHaveTried, Queue
<1>8. Resolvers' /\ Clients'
  BY <1>0, <1>4, <1>5 DEF World, Resolvers, Clients, ClientHeld
<1>9. Origins'
  BY <1>0, <1>1, <1>4, <1>5, PeerFacts DEF World, Origins, OriginHeld
<1>10. Files'
  BY <1>0, <1>5 DEF World, Files, FileHeld
<1>11. Items'
  BY <1>0, <1>5 DEF World, Items, ItemHeld
<1>12. Rounds' /\ EventsReachTheirOwner'
  BY <1>0, <1>2, <1>5, RoundGoesOn DEF Used
<1> QED BY <1>6, <1>7, <1>8, <1>9, <1>10, <1>11, <1>12 DEF World

(* handle_write_connecting, for each outcome of the attempt. *)
LEMMA ConnectingStep ==
  ASSUME Inv, NEW f \in Fd, handle_write_connecting(f)
  PROVE  Inv'
<1>0. /\ Handles(f, "connecting")
      /\ Connected(item[f].c) \/ ConnectFails(item[f].c) \/ ConnectionGone(item[f].c)
      /\ UNCHANGED <<done, jobs, cfd, ofd, moved, dns, current, total, max_conn>>
  BY DEF handle_write_connecting
<1>1. TypeOK'
  BY TypeConnecting DEF Inv, World
<1>2. CASE ConnectionGone(item[f].c)
  <2>1. /\ Turn(f) /\ f \notin Listeners /\ pc = "iterate"
        /\ UNCHANGED <<pc, who, file, item, jobs, st, cfd, ofd, left, moved, dns>>
    BY <1>0, <1>2, AfterTurn DEF Handles, ConnectionGone, Inv, World, Items, ItemHeld
  <2>2. World'
    BY <2>1, QuietStep
  <2>3. Rounds' /\ EventsReachTheirOwner'
    BY <2>1, RoundGoesOn DEF Used
  <2> QED BY <1>1, <2>2, <2>3 DEF Inv
<1> QED BY <1>0, <1>1, <1>2, ConnectedStep, ConnectFailsStep DEF Inv

(* The next address: the number of its socket is not above the one that the *)
(* handler has closed, and is nobody's.                                     *)
LEMMA RetryStep ==
  ASSUME Inv, NEW w, w = who, pc = "closed", left[w] > 0, FreeFds # {},
         ofd' = [ofd EXCEPT ![w] = NewFd], NumberNoted,
         \/ file' = file /\ pc' = "closed" /\ who' = w
         \/ /\ file' = [file EXCEPT ![NewFd] = File("origin", w)]
            /\ \/ pc' = "closed" /\ who' = w /\ left'[w] = 0
               \/ pc' = "iterate" /\ who' = Nobody,
         UNCHANGED <<item, st, slave, jobs, cfd, dns>>
  PROVE  World' /\ Rounds' /\ EventsReachTheirOwner'
<1> DEFINE g == NewFd
           o == ofd[w]
<1>0. TypeOK /\ World /\ w \in Conns /\ w \in Peers /\ st[w] = "connecting" /\ w # Nobody
  BY PeerFacts DEF Inv, World, InHandler
<1>1. o \in Fd /\ file[o] = Free
  BY <1>0, ConnectingFacts DEF World, InHandler, TypeOK
<1>2. g \in Fd /\ file[g] = Free /\ g <= o
  BY <1>1, NewFdIs
<1>3. /\ g \notin Listeners
      /\ \A q \in Peers : st[q] \in ClientStates => cfd[q] # g
      /\ \A d \in Conns : st[d] \in OriginStates /\ d # w => ofd[d] # g
      /\ \A d \in Conns : dns[d] # g
  BY <1>2, FreeIsNobodys
<1>4. /\ \A d \in Conns : ofd'[d] = IF d = w THEN g ELSE ofd[d]
      /\ \A f \in Fd : f # g => file'[f] = file[f]
      /\ file'[g] = Free \/ file'[g] = File("origin", w)
      /\ pc' = "iterate" => file'[g] = File("origin", w)
      /\ file'[g] = File("origin", w) /\ pc' = "closed" => left'[w] = 0
      /\ pc' = "closed" => who' = w
      /\ pc' = "iterate" => who' = Nobody
      /\ pc' \in {"closed", "iterate"}
  BY <1>0, <1>2, KindsDiffer DEF TypeOK
<1>5. moved' = IF g = o THEN moved ELSE moved \cup {w}
  BY <1>0, <1>4 DEF NumberNoted
<1> HIDE DEF g, o
<1>6. Services' /\ ListenersOpen' /\ Resolvers' /\ Queue'
  <2>1. Services'
    BY <1>0, <1>3, <1>4 DEF World, Services
  <2>2. ListenersOpen'
    BY <1>0, <1>3, <1>4, FdFacts DEF World, ListenersOpen
  <2>3. Resolvers'
    BY <1>0, <1>3, <1>4 DEF World, Resolvers
  <2>4. Queue'
    BY <1>0, <1>3, <1>4 DEF World, Queue
  <2> QED BY <2>1, <2>2, <2>3, <2>4
<1>7. Clients'
  BY <1>0, <1>3, <1>4 DEF World, Clients, ClientHeld
<1>8. ASSUME NEW c \in Conns PROVE OriginHeld(c)'
  <2>1. CASE c = w
    <3>1. who' # c => file'[g] = File("origin", c)
      BY <1>4, <2>1
    <3> QED BY <1>0, <1>2, <1>4, <2>1, <3>1, StateFacts DEF OriginHeld
  <2>2. CASE c # w
    <3>1. OriginHeld(c) /\ ofd'[c] = ofd[c] /\ who # c
      BY <1>0, <1>4, <2>2 DEF World, Origins
    <3> QED BY <1>3, <1>4, <2>2, <3>1 DEF OriginHeld
  <2> QED BY <2>1, <2>2
<1>9. InHandler'
  BY <1>0, <1>4 DEF InHandler
<1>10. ASSUME NEW f \in Fd PROVE FileHeld(f)'
  <2>1. CASE f = g
    BY <1>0, <1>4, <2>1, StateFacts DEF FileHeld
  <2>2. CASE f # g
    <3>1. FileHeld(f) /\ file'[f] = file[f]
      BY <1>0, <1>4, <2>2 DEF World, Files
    <3>2. \A c \in Conns : file[f] = File("origin", c) /\ ofd[c] = f => ofd'[c] = f
      BY <1>1, <1>4, KindsDiffer DEF o
    <3> QED BY <3>1, <3>2 DEF FileHeld
  <2> QED BY <2>1, <2>2
<1>11. ASSUME NEW f \in Fd PROVE ItemHeld(f)'
  <2>0. ItemHeld(f) /\ item'[f] = item[f]
    BY <1>0 DEF World, Items
  <2>1. CASE item[f].c # w
    BY <1>4, <1>5, <2>0, <2>1 DEF ItemHeld
  <2>2. CASE item[f].c = w
    <3>1. item[f].h # "copy"
      BY <1>0, <2>0, <2>2 DEF ItemHeld
    <3>2. CASE item[f].h = "connecting"
      <4>1. f \notin Listeners /\ (w \in moved \/ o = f) /\ o <= f
        BY <1>0, <2>0, <2>2, <3>2 DEF ItemHeld, o
      <4>2. g <= f
        BY <1>1, <1>2, <4>1, FdFacts
      <4>3. w \in moved' \/ g = f
        BY <1>5, <4>1
      <4> QED BY <1>0, <1>4, <2>0, <2>2, <3>2, <4>1, <4>2, <4>3 DEF ItemHeld
    <3>3. CASE item[f].h # "connecting"
      BY <2>0, <2>2, <3>1, <3>3 DEF ItemHeld
    <3> QED BY <3>2, <3>3
  <2> QED BY <2>1, <2>2
<1>12. MovedHaveTried'
  BY <1>0, <1>5 DEF World, MovedHaveTried
<1>13. Rounds' /\ EventsReachTheirOwner'
  BY <1>4, RoundInHandler DEF Used
<1> QED BY <1>6, <1>7, <1>8, <1>9, <1>10, <1>11, <1>12, <1>13 DEF World, Clients, Origins, Files, Items

(* No address is left. *)
LEMMA GiveUpStep ==
  ASSUME Inv, NEW w, w = who, pc = "closed", GiveUp, UNCHANGED <<slave, jobs, cfd, dns>>
  PROVE  World' /\ Rounds' /\ EventsReachTheirOwner'
<1> DEFINE o == ofd[w]
           h == cfd[w]
<1>0. TypeOK /\ World /\ w \in Conns /\ w \in Peers /\ st[w] = "connecting" /\ w # Nobody
  BY PeerFacts DEF Inv, World, InHandler
<1>1. /\ o \in Fd /\ h \in Fd /\ o # h /\ file[h] = File("client", w)
      /\ item[h].h = "socks5" /\ item[h].c = w
  BY <1>0, ConnectingFacts
<1>2. /\ o \notin Listeners
      /\ \A q \in Peers : st[q] \in ClientStates => cfd[q] # o
      /\ \A d \in Conns : d # w /\ st[d] \in OriginStates => ofd[d] # o
      /\ \A d \in Conns : dns[d] # o
  BY <1>0, OriginIsOwn
<1>3. /\ \A f \in Fd : file'[f] = IF f = o THEN Free ELSE file[f]
      /\ \A d \in Conns : ofd'[d] = IF d = w THEN NoFd ELSE ofd[d]
      /\ \A q \in Peers : st'[q] = IF q = w THEN "failing" ELSE st[q]
      /\ pc' = "iterate" /\ who' = Nobody
      /\ UNCHANGED <<left, moved>>
  BY <1>0 DEF TypeOK, GiveUp, Closed, HandlerReturns
<1>4. /\ \A f \in Fd : f # o /\ f # h => item'[f] = item[f]
      /\ item'[o].h = "none" /\ item'[h].h = "socks5" /\ item'[h].c = w
  <2> DEFINE it == Unregistered({o})
  <2>1. item' = [it EXCEPT ![h].on = TRUE]
    BY DEF GiveUp
  <2>2. it \in [Fd -> ItemType] /\ it[o].h = "none" /\ \A f \in Fd : f # o => it[f] = item[f]
    <3>1. item \in [Fd -> ItemType] /\ Unused \in ItemType
      BY <1>0, SameTypes, RecordTypes DEF Types
    <3> QED BY <1>1, <3>1 DEF Unregistered, Unused
  <2>3. it[h] = item[h] /\ it[h] \in ItemType
    BY <1>1, <2>2
  <2> HIDE DEF it
  <2>4. \A f \in Fd : f # h => item'[f] = it[f]
    BY <2>1, <2>2
  <2>5. item'[h] = [it[h] EXCEPT !.on = TRUE]
    BY <1>1, <2>1, <2>2
  <2>6. item'[h].h = it[h].h /\ item'[h].c = it[h].c
    BY <2>3, <2>5 DEF ItemType
  <2> QED BY <1>1, <2>2, <2>3, <2>4, <2>6
<1> HIDE DEF o, h
<1>5. \A q \in Peers : /\ st'[q] \in ClientStates <=> st[q] \in ClientStates
                       /\ st'[q] \in LiveStates <=> st[q] \in LiveStates
                       /\ st'[q] \in OriginStates <=> st[q] \in OriginStates /\ q # w
                       /\ st'[q] = "open" <=> st[q] = "open"
                       /\ st'[q] = "queued" <=> st[q] = "queued"
                       /\ st'[q] = "freed" <=> st[q] = "freed"
  BY <1>0, <1>3, StateFacts
<1>6. Services' /\ ListenersOpen'
  BY <1>0, <1>2, <1>3, <1>5, PeerFacts, FdFacts DEF World, Services, ListenersOpen
<1>7. Resolvers'
  BY <1>0, <1>2, <1>3 DEF World, Resolvers
<1>8. MovedHaveTried' /\ Queue'
  BY <1>0, <1>3, <1>5, PeerFacts DEF World, MovedHaveTried, Queue, TypeOK
<1>9. ASSUME NEW q \in Peers PROVE ClientHeld(q)'
  <2>0. ClientHeld(q)
    BY <1>0 DEF World, Clients
  <2>1. CASE q = w
    <3>1. cfd'[q] = h /\ file'[h] = File("client", q) /\ st'[q] = "failing"
      BY <1>0, <1>1, <1>3, <2>1 DEF h
    <3> QED BY <1>0, <1>1, <1>4, <2>1, <3>1 DEF ClientHeld
  <2>2. CASE q # w
    <3>1. st[q] \in ClientStates => cfd[q] # h /\ cfd[q] # o /\ cfd[q] \in Fd
      BY <1>1, <1>2, <2>0, <2>2, KindsDiffer DEF ClientHeld
    <3> QED BY <1>3, <1>4, <2>0, <2>2, <3>1 DEF ClientHeld
  <2> QED BY <2>1, <2>2
<1>10. ASSUME NEW c \in Conns PROVE OriginHeld(c)'
  <2>1. CASE c = w
    BY <1>0, <1>3, <2>1, StateFacts DEF OriginHeld
  <2>2. CASE c # w
    <3>1. OriginHeld(c) /\ ofd'[c] = ofd[c] /\ who # c /\ st'[c] = st[c]
      BY <1>0, <1>3, <2>2, PeerFacts DEF World, Origins
    <3> QED BY <1>2, <1>3, <2>2, <3>1 DEF OriginHeld
  <2> QED BY <2>1, <2>2
<1>11. InHandler'
  BY <1>3 DEF InHandler
<1>12. ASSUME NEW f \in Fd PROVE FileHeld(f)'
  <2>1. CASE f = o
    BY <1>3, <2>1 DEF FileHeld
  <2>2. CASE f # o
    <3>1. FileHeld(f) /\ file'[f] = file[f]
      BY <1>0, <1>3, <2>2 DEF World, Files
    <3>2. \A c \in Conns : ofd[c] = f => ofd'[c] = f /\ c # w
      BY <1>3, <2>2 DEF o
    <3> QED BY <1>5, <3>1, <3>2, PeerFacts DEF FileHeld
  <2> QED BY <2>1, <2>2
<1>13. ASSUME NEW f \in Fd PROVE ItemHeld(f)'
  <2>0. ItemHeld(f)
    BY <1>0 DEF World, Items
  <2>1. CASE f = o
    BY <1>4, <2>1 DEF ItemHeld
  <2>2. CASE f = h
    BY <1>0, <1>3, <1>4, <2>2, StateFacts DEF ItemHeld, h
  <2>3. CASE f # o /\ f # h
    <3>0. item'[f] = item[f]
      BY <1>4, <2>3
    <3>1. item[f].c = w => /\ item[f].h \notin {"socks5", "admin", "copy"}
                           /\ item[f].h = "connecting" => w \in moved
      BY <1>0, <2>0, <2>3, PeerFacts DEF ItemHeld, o, h
    <3> QED BY <1>3, <2>0, <3>0, <3>1, PeerFacts DEF ItemHeld
  <2> QED BY <2>1, <2>2, <2>3
<1>14. \A e \in slave : Used(e[1])' => Used(e[1]) /\ item'[e[1]].c = item[e[1]].c
  <2>1. \A e \in slave : e[1] \in Fd
    BY <1>0 DEF TypeOK
  <2> QED BY <1>1, <1>4, <2>1 DEF Used
<1>15. Rounds' /\ EventsReachTheirOwner'
  BY <1>3, <1>14, RoundInHandler
<1> QED BY <1>6, <1>7, <1>8, <1>9, <1>10, <1>11, <1>12, <1>13, <1>15 DEF World, Clients, Origins, Files, Items

(* The rest of handle_write_connecting. *)
LEMMA RetriesStep ==
  ASSUME Inv, connect_to_host
  PROVE  Inv'
<1>0. TypeOK /\ World /\ pc = "closed" /\ UNCHANGED <<slave, jobs, cfd, dns>>
  BY DEF Inv, connect_to_host
<1>1. TypeOK'
  BY <1>0, TypeConnecting DEF World
<1>2. /\ who \in Conns /\ st[who] = "connecting" /\ ofd[who] \in Fd /\ left[who] \in Nat
      /\ left[who] > 0 => file[ofd[who]] = Free
  BY <1>0, ConnectingFacts DEF World, InHandler, TypeOK
<1>3. left[who] > 0 => FreeFds # {}
  BY <1>2 DEF FreeFds
<1>4. CASE RetryInProgress
  <2>1. /\ left[who] > 0 /\ FreeFds # {} /\ file' = [file EXCEPT ![NewFd] = File("origin", who)]
        /\ ofd' = [ofd EXCEPT ![who] = NewFd] /\ NumberNoted /\ pc' = "iterate" /\ who' = Nobody
        /\ UNCHANGED <<item, st>>
    BY <1>3, <1>4 DEF RetryInProgress, Socket, HandlerReturns
  <2> QED BY <1>0, <1>1, <2>1, RetryStep DEF Inv
<1>5. CASE RetryUnreachable
  <2>1. /\ left[who] > 0 /\ FreeFds # {} /\ file' = file /\ pc' = "closed" /\ who' = who
        /\ ofd' = [ofd EXCEPT ![who] = NewFd] /\ NumberNoted
        /\ UNCHANGED <<item, st>>
    BY <1>0, <1>5 DEF RetryUnreachable
  <2> QED BY <1>0, <1>1, <2>1, RetryStep DEF Inv
<1>6. CASE RetrySuccess
  <2>1. /\ left[who] > 0 /\ FreeFds # {} /\ file' = [file EXCEPT ![NewFd] = File("origin", who)]
        /\ pc' = "closed" /\ who' = who /\ left' = [left EXCEPT ![who] = 0]
        /\ ofd' = [ofd EXCEPT ![who] = NewFd] /\ NumberNoted
        /\ UNCHANGED <<item, st>>
    BY <1>0, <1>6 DEF RetrySuccess, Socket
  <2>2. left'[who] = 0
    BY <1>0, <1>2, <2>1 DEF TypeOK
  <2> QED BY <1>0, <1>1, <2>1, <2>2, RetryStep DEF Inv
<1>7. CASE GiveUp
  BY <1>0, <1>1, <1>7, GiveUpStep DEF Inv
<1> QED BY <1>4, <1>5, <1>6, <1>7 DEF connect_to_host

-----------------------------------------------------------------------------
(* The listeners, the rounds and the end of the process. *)

(* A listener's turn comes before all others: no event waits for a number    *)
(* that is not registered, and accept() may register it.                     *)
LEMMA ListenerTurn ==
  ASSUME Inv, NEW f \in Listeners, Turn(f), pc' = pc,
         \A g \in Fd : Used(g) => item'[g] = item[g]
  PROVE  Rounds' /\ EventsReachTheirOwner'
<1>1. slave' \subseteq slave /\ pc = "iterate" /\ (\E e \in slave : e[1] \in Listeners)
  BY DEF Turn
<1>2. \A e \in slave : e[1] \in Fd /\ Used(e[1])
  BY <1>1 DEF Inv, TypeOK, Rounds
<1>3. \A e \in slave' : Used(e[1]) /\ item'[e[1]] = item[e[1]]
  BY <1>1, <1>2
<1> QED BY <1>1, <1>3 DEF Inv, EventsReachTheirOwner, Rounds, Used

(* A connection is accepted or refused. *)
LEMMA AcceptsStep ==
  ASSUME Inv, socksv5_passive_accept \/ s5admin_passive_accept
  PROVE  Inv'
<1>0. /\ TypeOK /\ pc = "iterate" /\ UNCHANGED <<pc, who, jobs, ofd, left, moved, dns>>
      /\ \E f \in Listeners : Turn(f)
  BY DEF Inv, socksv5_passive_accept, s5admin_passive_accept, Handles, Turn, Listeners
<1>1. TypeOK'
  BY <1>0, TypeAccept
<1>2. CASE UNCHANGED <<file, item, st, cfd>>
  <2>1. World'
    BY <1>0, <1>2, QuietStep
  <2> QED BY <1>0, <1>1, <1>2, <2>1, ListenerTurn DEF Inv
<1>3. CASE \E p \in Peers : st[p] = "waiting" /\ Refused(p)
  <2>1. PICK p \in Peers : st[p] = "waiting" /\ Refused(p)
    BY <1>3
  <2>2. World'
    BY <1>0, <2>1, OutsideStep DEF Refused
  <2>3. Rounds' /\ EventsReachTheirOwner'
    BY <1>0, <2>1, ListenerTurn DEF Refused
  <2> QED BY <1>1, <2>2, <2>3 DEF Inv
<1>4. CASE \E p \in Peers, h \in {"socks5", "admin"}, s \in {"nego", "open"} :
             /\ st[p] = "waiting" /\ FreeFds # {} /\ CanRegister
             /\ \/ p \in Conns /\ h = "socks5" /\ s = "nego"
                \/ p \in Admins /\ h = "admin" /\ s = "open"
             /\ Registered(p, h) /\ st' = [st EXCEPT ![p] = s]
  <2>1. PICK p \in Peers, h \in {"socks5", "admin"}, s \in {"nego", "open"} :
             /\ st[p] = "waiting" /\ FreeFds # {} /\ CanRegister
             /\ \/ p \in Conns /\ h = "socks5" /\ s = "nego"
                \/ p \in Admins /\ h = "admin" /\ s = "open"
             /\ Registered(p, h) /\ st' = [st EXCEPT ![p] = s]
    BY <1>4
  <2>2. World'
    BY <1>0, <2>1, AcceptStep
  <2>3. \A g \in Fd : Used(g) => item'[g] = item[g]
    BY <1>0, <2>1 DEF CanRegister, Registered, TypeOK
  <2>4. Rounds' /\ EventsReachTheirOwner'
    BY <1>0, <2>3, ListenerTurn
  <2> QED BY <1>1, <2>2, <2>4 DEF Inv
<1>5. CASE socksv5_passive_accept
  <2>1. ASSUME NEW c \in Waiting(Conns) PROVE c \in Peers /\ c \in Conns /\ st[c] = "waiting"
    BY PeerFacts DEF Waiting
  <2> QED BY <1>2, <1>3, <1>4, <1>5, <2>1 DEF socksv5_passive_accept
<1>6. CASE s5admin_passive_accept
  <2>1. ASSUME NEW c \in Waiting(Admins) PROVE c \in Peers /\ c \in Admins /\ st[c] = "waiting"
    BY PeerFacts DEF Waiting
  <2> QED BY <1>2, <1>3, <1>4, <1>6, <2>1 DEF s5admin_passive_accept
<1> QED BY <1>5, <1>6

(* An event that changes nothing here, or SET_MAX_CONN. *)
LEMMA NothingStep ==
  ASSUME Inv, NEW f \in Fd, Nothing(f) \/ (\E n \in MaxConns : set_max_conn(f, n))
  PROVE  Inv'
<1>0. /\ Turn(f) /\ UNCHANGED <<pc, who, file, item, jobs, st, cfd, ofd, left, moved, dns>>
  BY DEF Nothing, set_max_conn, Handles
<1>1. f \notin Listeners
  <2>1. CASE Nothing(f)
    BY <2>1 DEF Nothing
  <2>2. CASE item[f].h = "admin"
    <3>1. PICK a \in Admins : st[a] = "open" /\ cfd[a] = f
      BY <2>2 DEF Inv, World, Items, ItemHeld
    <3>2. file[f] = File("client", a)
      BY <3>1, StateFacts, PeerFacts DEF Inv, World, Clients, ClientHeld
    <3> QED BY <3>2, KindsDiffer DEF Inv, World, ListenersOpen
  <2> QED BY <2>1, <2>2 DEF set_max_conn, Handles
<1>2. World'
  BY <1>0, QuietStep
<1>3. Rounds' /\ EventsReachTheirOwner'
  BY <1>0, <1>1, AfterTurn, RoundGoesOn DEF Used
<1>4. TypeOK'
  BY TypeRound, TypeEvent DEF Inv
<1> QED BY <1>2, <1>3, <1>4 DEF Inv

(* pselect() returns, and what comes between two rounds. *)
LEMMA RoundStep ==
  ASSUME Inv, selector_select \/ IterationEnds \/ BlocksEnd \/ sigterm_handler \/ UNCHANGED vars
  PROVE  Inv'
<1>0. TypeOK /\ World
  BY DEF Inv
<1>1. TypeOK'
  BY <1>0, TypeRound
<1>2. UNCHANGED <<who, file, item, jobs, st, cfd, ofd, left, moved, dns>>
  BY DEF selector_select, IterationEnds, BlocksEnd, sigterm_handler, vars
<1>3. World'
  BY <1>2, QuietStep DEF selector_select, IterationEnds, BlocksEnd, sigterm_handler, vars,
       PselectReturns, PselectEbadf, PselectInterrupted
<1>4. CASE selector_select /\ PselectReturns
  <2>1. PICK S \in SUBSET (Watched \ Listeners) :
          slave' = {<<f, item[f].c>> : f \in S \cup (ReadyListeners \cap Watched)}
    BY <1>4 DEF PselectReturns
  <2>2. \A e \in slave' : Used(e[1]) /\ item[e[1]].c = e[2]
    BY <2>1 DEF Watched
  <2>3. pc' = "iterate"
    BY <1>4 DEF PselectReturns
  <2> QED BY <1>1, <1>2, <1>3, <2>2, <2>3 DEF Inv, Rounds, EventsReachTheirOwner, Used
<1>5. CASE selector_select /\ ~PselectReturns
  <2>1. slave' = slave /\ pc = "pselect"
    BY <1>5 DEF selector_select, PselectEbadf, PselectInterrupted
  <2> QED BY <1>1, <1>3, <2>1, NoEvents DEF Inv, Rounds
<1>6. CASE IterationEnds \/ BlocksEnd
  <2>1. slave' = {}
    BY <1>6 DEF IterationEnds, BlocksEnd, Inv, Rounds
  <2> QED BY <1>1, <1>3, <2>1, NoEvents DEF Inv
<1>7. CASE sigterm_handler \/ UNCHANGED vars
  <2>1. slave' = slave /\ pc' = pc
    BY <1>7 DEF sigterm_handler, vars
  <2> QED BY <1>1, <1>2, <1>3, <2>1, RoundWaits DEF Inv, Used
<1> QED BY <1>4, <1>5, <1>6, <1>7

(* A client connects. *)
LEMMA ArrivalStep ==
  ASSUME Inv, NEW p \in Peers, PeerArrives(p)
  PROVE  Inv'
<1>1. TypeOK'
  BY TypeRest DEF Inv
<1>2. World'
  BY OutsideStep DEF PeerArrives
<1>3. Rounds' /\ EventsReachTheirOwner'
  BY RoundWaits DEF PeerArrives, Used
<1> QED BY <1>1, <1>2, <1>3 DEF Inv

(* Who has a client's item. *)
LEMMA OwnersAre ==
  ASSUME Inv
  PROVE  {item[f].c : f \in {f \in Fd : item[f].h \in {"socks5", "admin"}}}
           = {p \in Peers : st[p] \in ClientStates}
<1>1. ASSUME NEW f \in Fd, item[f].h \in {"socks5", "admin"}
      PROVE  item[f].c \in Peers /\ st[item[f].c] \in ClientStates
  BY <1>1, PeerFacts, StateFacts DEF Inv, World, Items, ItemHeld
<1>2. ASSUME NEW p \in Peers, st[p] \in ClientStates
      PROVE  \E f \in Fd : item[f].h \in {"socks5", "admin"} /\ item[f].c = p
  BY <1>2 DEF Inv, World, Clients, ClientHeld
<1> QED BY <1>1, <1>2

(* selector_destroy. *)
LEMMA ShutdownStep ==
  ASSUME Inv, Shutdown
  PROVE  Inv'
<1> DEFINE clients == {f \in Fd : item[f].h \in {"socks5", "admin"}}
           owners == {item[f].c : f \in clients}
           S == clients \cup ({ofd[c] : c \in owners \cap Conns} \ {0})
<1>0. /\ TypeOK /\ World /\ pc = "stop" /\ who = Nobody /\ slave = {}
      /\ UNCHANGED <<pc, who, slave, cfd, ofd, left, moved, dns>> /\ jobs' = << >>
  BY DEF Inv, World, InHandler, Rounds, Shutdown
<1>1. owners = {p \in Peers : st[p] \in ClientStates}
  BY OwnersAre
<1>2. /\ \A f \in Fd : file'[f] = IF f \in S THEN Free ELSE file[f]
      /\ \A p \in Peers : st'[p] = IF st[p] \in ClientStates THEN "freed" ELSE st[p]
      /\ \A f \in Fd : item'[f].h = "none"
  <2>1. file' = Closed(S) /\ st' = [p \in Peers |-> IF p \in owners THEN "freed" ELSE st[p]]
        /\ item' = [f \in Fd |-> Unused]
    BY DEF Shutdown
  <2>2. \A f \in Fd : file'[f] = IF f \in S THEN Free ELSE file[f]
    BY <2>1 DEF Closed
  <2>3. \A f \in Fd : item'[f].h = "none"
    BY <2>1 DEF Unused
  <2> HIDE DEF owners, S
  <2> QED BY <1>1, <2>1, <2>2, <2>3
<1>3. \A f \in clients : \E p \in Peers : file[f] = File("client", p)
  BY <1>0, PeerFacts, StateFacts DEF World, Items, ItemHeld, Clients, ClientHeld
<1>4. ASSUME NEW c \in Conns, st[c] \in OriginStates
      PROVE  ofd[c] \in Fd /\ file[ofd[c]] = File("origin", c)
  BY <1>0, <1>4, PeerFacts DEF World, Origins, OriginHeld
<1>5. ASSUME NEW c \in Conns, st[c] \in ClientStates, st[c] \notin OriginStates
      PROVE  ofd[c] \in {0, NoFd}
  BY <1>0, <1>5, StateFacts DEF World, Origins, OriginHeld
<1>6. \A f \in S : f \in Fd => \E p \in Peers : file[f] = File("client", p) \/ file[f] = File("origin", p)
  <2>1. ASSUME NEW c \in owners \cap Conns, ofd[c] # 0, ofd[c] \in Fd PROVE file[ofd[c]] = File("origin", c)
    BY <1>1, <1>4, <1>5, <2>1, FdFacts
  <2>2. \A c \in owners \cap Conns : c \in Peers
    BY PeerFacts
  <2> HIDE DEF clients, owners
  <2> QED BY <1>3, <2>1, <2>2
<1>7. /\ \A p \in Peers : st[p] \in ClientStates => cfd[p] \in S
      /\ \A c \in Conns : st[c] \in OriginStates => ofd[c] \in S
  <2>1. ASSUME NEW p \in Peers, st[p] \in ClientStates PROVE cfd[p] \in clients
    BY <1>0, <2>1 DEF World, Clients, ClientHeld
  <2>2. ASSUME NEW c \in Conns, st[c] \in OriginStates PROVE c \in owners \cap Conns /\ ofd[c] # 0
    BY <1>0, <1>1, <1>4, <2>2, KindsDiffer, FdFacts, StateFacts, PeerFacts DEF World, ListenersOpen
  <2> HIDE DEF clients, owners
  <2> QED BY <2>1, <2>2
<1> HIDE DEF clients, owners, S
<1>8. \A p \in Peers : st'[p] \notin ClientStates /\ st'[p] \notin LiveStates /\ st'[p] \notin OriginStates
                       /\ (st'[p] = st[p] \/ st'[p] = "freed") /\ st'[p] # "open"
                       /\ (st[p] \in LiveStates \cup {"freed"} => st'[p] = "freed")
  BY <1>2, StateFacts
<1>9. Services' /\ Clients' /\ Items' /\ InHandler'
  <2>1. Items'
    BY <1>2 DEF Items, ItemHeld
  <2> QED BY <1>0, <1>8, <2>1, PeerFacts DEF Services, Clients, ClientHeld, InHandler
<1>10. ListenersOpen'
  BY <1>0, <1>2, <1>6, KindsDiffer, FdFacts DEF World, ListenersOpen
<1>11. Resolvers'
  <2> SUFFICES ASSUME NEW c \in Conns, dns[c] # NoFd PROVE dns[c] \in Fd /\ file'[dns[c]] = File("dns", c)
    BY <1>0 DEF Resolvers
  <2>1. dns[c] \in Fd /\ file[dns[c]] = File("dns", c)
    BY <1>0 DEF World, Resolvers
  <2>2. dns[c] \notin S
    BY <1>6, <2>1, KindsDiffer
  <2> QED BY <1>2, <2>1, <2>2
<1>12. Origins'
  <2>1. \A c \in Conns : st'[c] # "freed" => st'[c] = st[c] /\ st[c] \notin OriginStates \cup {"freed"}
    BY <1>2, <1>8, PeerFacts, StateFacts
  <2> QED BY <1>0, <1>8, <2>1, PeerFacts DEF World, Origins, OriginHeld
<1>13. ASSUME NEW f \in Fd PROVE FileHeld(f)'
  <2>1. CASE f \in S
    BY <1>2, <2>1 DEF FileHeld
  <2>2. CASE f \notin S
    <3>1. FileHeld(f) /\ file'[f] = file[f]
      BY <1>0, <1>2, <2>2 DEF World, Files
    <3> QED BY <1>0, <1>7, <2>2, <3>1 DEF FileHeld
  <2> QED BY <2>1, <2>2
<1>14. MovedHaveTried'
  <2>1. \A c \in moved : c \in Peers /\ st[c] \in LiveStates \cup {"freed"}
    BY <1>0, PeerFacts, StateFacts DEF World, MovedHaveTried, TypeOK
  <2> QED BY <1>0, <1>8, <2>1 DEF MovedHaveTried
<1>15. Queue'
  <2>1. Len(jobs') = 0
    BY <1>0
  <2> QED BY <2>1 DEF Queue
<1>16. TypeOK'
  BY <1>0, TypeRest
<1>17. Rounds' /\ EventsReachTheirOwner'
  BY <1>0, NoEvents
<1> QED BY <1>9, <1>10, <1>11, <1>12, <1>13, <1>14, <1>15, <1>16, <1>17 DEF Inv, World, Files

(* main before its loop. *)
LEMMA InitInv == Init => Inv
<1> SUFFICES ASSUME Init PROVE Inv
  OBVIOUS
<1>0. TypeOK
  BY TypeInit
<1>1. /\ \A p \in Peers : st[p] = "none"
      /\ \A c \in Conns : ofd[c] = 0 /\ dns[c] = NoFd /\ st[c] = "none"
      /\ \A f \in Fd : file[f] = IF f \in Listeners THEN File("listener", Nobody) ELSE Free
      /\ pc = "pselect" /\ who = Nobody /\ slave = {} /\ jobs = << >> /\ moved = {}
  BY PeerFacts DEF Init
<1>2. \A f \in Fd : \/ f = SOCKS /\ item[f].h = "socks_listener" /\ item[f].c = Nobody
                    \/ f = ADMIN /\ item[f].h = "admin_listener" /\ item[f].c = Nobody
                    \/ item[f].h = "none"
  <2> DEFINE U(f) == CASE f = SOCKS -> Item("socks_listener", Nobody, TRUE)
                       [] f = ADMIN -> Item("admin_listener", Nobody, TRUE)
                       [] OTHER -> Unused
  <2>1. item = [f \in Fd |-> U(f)]
    BY DEF Init
  <2>2. ASSUME NEW f \in Fd
        PROVE  \/ f = SOCKS /\ U(f).h = "socks_listener" /\ U(f).c = Nobody
               \/ f = ADMIN /\ U(f).h = "admin_listener" /\ U(f).c = Nobody
               \/ U(f).h = "none"
    BY FdFacts DEF Item, Unused
  <2> HIDE DEF U
  <2> QED BY <2>1, <2>2
<1>3. "none" \notin ClientStates /\ "none" \notin LiveStates /\ "none" \notin OriginStates
  BY DEF ClientStates, LiveStates, OriginStates
<1>4. Services /\ ListenersOpen /\ Clients /\ Origins /\ Resolvers /\ InHandler /\ MovedHaveTried
  BY <1>1, <1>3, PeerFacts, FdFacts DEF Services, ListenersOpen, Clients, ClientHeld, Origins,
       OriginHeld, Resolvers, InHandler, MovedHaveTried
<1>5. Files /\ Items
  BY <1>1, <1>2 DEF Files, FileHeld, Items, ItemHeld
<1>6. Queue
  <2>1. Len(jobs) = 0
    BY <1>1
  <2> QED BY <2>1 DEF Queue
<1>7. Rounds /\ EventsReachTheirOwner
  BY <1>1 DEF Rounds, EventsReachTheirOwner
<1> QED BY <1>0, <1>4, <1>5, <1>6, <1>7 DEF Inv, World

(* Every step keeps the invariant. *)
LEMMA NextInv ==
  ASSUME NoRace, Inv, [Next]_vars
  PROVE  Inv'
<1>1. CASE MainThread
  BY <1>1, RoundStep, ShutdownStep, AcceptsStep, NothingStep, HangupStep, OriginEofStep,
     AdminHangupStep, RequestReadStep, ConnectingStep, BlockStep, RetriesStep DEF MainThread
<1>2. CASE \E c \in Conns : Resolver(c)
  BY <1>2, ResolverOpensStep, ResolverClosesStep, ResolvedStep DEF Resolver
<1>3. CASE \E p \in Peers : PeerArrives(p)
  BY <1>3, ArrivalStep
<1>4. CASE sigterm_handler \/ UNCHANGED vars
  BY <1>4, RoundStep
<1> QED BY <1>1, <1>2, <1>3, <1>4 DEF Next

-----------------------------------------------------------------------------
(* The theorems. *)

(* Connections, descriptors, registrations, events and jobs agree in every  *)
(* state the process reaches.                                               *)
THEOREM Invariance == ASSUME NoRace PROVE Spec => []Inv
<1>1. Inv /\ [Next]_vars => Inv'
  BY NextInv
<1> QED BY InitInv, <1>1, PTL DEF Spec

(* No handler and no thread closes a descriptor of somebody else, and none  *)
(* is lost.                                                                 *)
LEMMA InvOwn == Inv => OwnDescriptors
<1> SUFFICES ASSUME Inv PROVE OwnDescriptors
  OBVIOUS
<1>0. World
  BY DEF Inv
<1>1. KeptIsOpen
  BY <1>0, StateFacts DEF World, Clients, ClientHeld, ClientStates, Origins, OriginHeld, Resolvers, KeptIsOpen
<1>2. ASSUME NEW f \in Fd
      PROVE  /\ file[f].k = "client" => cfd[file[f].c] = f /\ st[file[f].c] \in LiveStates \cup {"open"}
             /\ file[f].k = "origin" => ofd[file[f].c] = f /\ st[file[f].c] \in {"connecting", "copy"}
             /\ file[f].k = "dns" => dns[file[f].c] = f
  <2>1. FileHeld(f)
    BY <1>0 DEF World, Files
  <2>2. /\ Free.k = "free"
        /\ \A k, p : File(k, p).k = k /\ File(k, p).c = p
    BY DEF Free, File
  <2>3. f \in Listeners => file[f].k = "listener"
    BY <1>0, <2>2 DEF World, ListenersOpen
  <2>4. CASE file[f] = Free \/ f \in Listeners
    BY <2>2, <2>3, <2>4
  <2>5. CASE \E p \in Peers : file[f] = File("client", p) /\ cfd[p] = f /\ st[p] \in ClientStates
    BY <2>2, <2>5 DEF ClientStates
  <2>6. CASE \E c \in Conns : file[f] = File("origin", c) /\ ofd[c] = f /\ st[c] \in OriginStates
    BY <2>2, <2>6 DEF OriginStates
  <2>7. CASE \E c \in Conns : file[f] = File("dns", c) /\ dns[c] = f
    BY <2>2, <2>7
  <2> QED BY <2>1, <2>4, <2>5, <2>6, <2>7 DEF FileHeld
<1>3. OpenIsKept
  BY <1>2 DEF OpenIsKept
<1> QED BY <1>1, <1>3 DEF OwnDescriptors

(* connections and resolver threads close their own descriptors only, and   *)
(* every descriptor that is open is kept by the one who will close it, in   *)
(* socksv5_close, s5admin_close and getaddrinfo().                          *)
THEOREM DescriptorsAreOwn == ASSUME NoRace PROVE Spec => []OwnDescriptors
BY Invariance, InvOwn, PTL

(* An event of a round is given to the connection that it was reported for, *)
(* whatever has been closed and opened before its turn (handle_iteration).  *)
THEOREM EventsAreOwn == ASSUME NoRace PROVE Spec => []EventsReachTheirOwner
<1>1. Inv => EventsReachTheirOwner
  BY DEF Inv
<1> QED BY Invariance, <1>1, PTL

(* A job that a resolver thread has left in resolution_jobs names a         *)
(* connection that waits for it when handle_block_notifications gets there. *)
THEOREM JobsAreOwn == ASSUME NoRace PROVE Spec => []JobsReachTheirOwner
<1>1. ASSUME Inv PROVE JobsReachTheirOwner
  <2> SUFFICES ASSUME NEW i \in 1..Len(jobs)
               PROVE  \E c \in Conns : st[c] = "queued" /\ cfd[c] = jobs[i] /\ item[jobs[i]].c = c
    BY DEF JobsReachTheirOwner
  <2>1. PICK c \in Conns : st[c] = "queued" /\ cfd[c] = jobs[i]
    BY <1>1 DEF Inv, World, Queue
  <2>2. item[cfd[c]].c = c
    BY <1>1, <2>1, StateFacts, PeerFacts DEF Inv, World, Clients, ClientHeld
  <2> QED BY <2>1, <2>2
<1> QED BY Invariance, <1>1, PTL

(* When pselect() is called, an item whose descriptor is closed or is       *)
(* somebody else's is one that a retry of connect_to_host has left behind.  *)
THEOREM StaleItemsAreRetries == ASSUME NoRace PROVE Spec => []OnlyRetriesLeaveItems
<1>1. ASSUME Inv PROVE OnlyRetriesLeaveItems
  <2> SUFFICES ASSUME pc = "pselect", NEW f \in Fd, Used(f)
               PROVE  ItemIsOpen(f) \/ (item[f].h = "connecting" /\ item[f].c \in moved)
    BY DEF OnlyRetriesLeaveItems
  <2>0. World /\ TypeOK /\ ItemHeld(f) /\ who = Nobody
    BY <1>1 DEF Inv, World, Items, InHandler
  <2> DEFINE c == item[f].c
  <2>1. \A k, p : File(k, p).k = k /\ File(k, p).c = p
    BY DEF File
  <2>2. CASE item[f].h \in {"socks_listener", "admin_listener"}
    <3>1. f \in Listeners /\ c = Nobody
      BY <2>0, <2>2 DEF ItemHeld, Listeners
    <3>2. file[f] = File("listener", Nobody)
      BY <2>0, <3>1 DEF World, ListenersOpen
    <3> QED BY <2>1, <3>1, <3>2 DEF ItemIsOpen
  <2>3. CASE item[f].h \in {"socks5", "admin"}
    <3>1. c \in Peers /\ st[c] \in ClientStates /\ cfd[c] = f
      BY <2>0, <2>3, PeerFacts, StateFacts DEF ItemHeld
    <3>2. file[f] = File("client", c)
      BY <2>0, <3>1 DEF World, Clients, ClientHeld
    <3> QED BY <2>1, <2>3, <3>1, <3>2 DEF ItemIsOpen
  <2>4. CASE item[f].h = "copy" \/ (item[f].h = "connecting" /\ c \notin moved)
    <3>1. c \in Conns /\ st[c] \in OriginStates /\ ofd[c] = f
      BY <2>0, <2>4, StateFacts DEF ItemHeld
    <3>2. file[f] = File("origin", c)
      BY <2>0, <3>1, PeerFacts DEF World, Origins, OriginHeld
    <3> QED BY <2>1, <2>4, <3>1, <3>2 DEF ItemIsOpen
  <2>5. item[f].h \in {"socks_listener", "admin_listener", "socks5", "connecting", "copy", "admin"}
    BY <2>0 DEF TypeOK, Used
  <2> QED BY <2>2, <2>3, <2>4, <2>5
<1> QED BY Invariance, <1>1, PTL

-----------------------------------------------------------------------------
(* The counters. *)

(* What a step does to the states of the connections: only an accept, the    *)
(* end of a connection and the end of the process change which are live.     *)
LEMMA StateSteps ==
  ASSUME Inv, [Next]_vars
  PROVE  \/ socksv5_passive_accept \/ Shutdown
         \/ \E f \in Fd : ClientHangup(f) \/ OriginError(f)
         \/ /\ UNCHANGED counters
            /\ \/ UNCHANGED st
               \/ \E p \in Peers, s \in PeerStates \ {"nego"} :
                    /\ st' = [st EXCEPT ![p] = s]
                    /\ p \in Conns => (s \in LiveStates <=> st[p] \in LiveStates)
<1> DEFINE Same == UNCHANGED counters /\ UNCHANGED st
           Moves(p, s) == /\ UNCHANGED counters /\ st' = [st EXCEPT ![p] = s]
                          /\ p \in Peers /\ s \in PeerStates \ {"nego"}
                          /\ p \in Conns => (s \in LiveStates <=> st[p] \in LiveStates)
<1>0. TypeOK /\ World
  BY DEF Inv
<1>s. {"waiting", "refused", "open", "freed", "resolving", "queued", "connecting", "copy", "failing"}
        \subseteq PeerStates \ {"nego"}
  BY DEF PeerStates, LiveStates
<1>l. /\ LiveStates = {"nego", "resolving", "queued", "connecting", "copy", "failing"}
      /\ \A s \in {"waiting", "refused", "none", "open", "freed"} : s \notin LiveStates
  BY DEF LiveStates
<1>1. CASE selector_select \/ IterationEnds \/ BlocksEnd \/ sigterm_handler \/ UNCHANGED vars
  BY <1>1 DEF selector_select, IterationEnds, BlocksEnd, sigterm_handler, vars, counters
<1>2. CASE s5admin_passive_accept
  <2>1. UNCHANGED counters
    BY <1>2 DEF s5admin_passive_accept
  <2>2. ASSUME ~UNCHANGED st PROVE \E p \in Peers, s \in {"refused", "open"} : Moves(p, s)
    <3>1. PICK a \in Admins, s \in {"refused", "open"} : st' = [st EXCEPT ![a] = s]
      BY <1>2, <2>2 DEF s5admin_passive_accept, Waiting, Refused
    <3>2. a \in Peers /\ a \notin Conns
      BY PeerFacts
    <3> QED BY <1>s, <2>1, <3>1, <3>2
  <2> QED BY <1>s, <2>1, <2>2
<1>3. ASSUME NEW f \in Fd, Nothing(f) \/ OriginEof(f) \/ (\E n \in MaxConns : set_max_conn(f, n)) PROVE Same
  BY <1>3 DEF Nothing, OriginEof, set_max_conn, counters
<1>4. ASSUME NEW f \in Fd, AdminHangup(f) PROVE Moves(item[f].c, "freed")
  <2>1. item[f].c \in Admins
    BY <1>0, <1>4 DEF AdminHangup, Handles, World, Items, ItemHeld
  <2> QED BY <1>4, <1>s, <2>1, PeerFacts DEF AdminHangup
<1>5. ASSUME NEW f \in Fd, connection_req_read(f) PROVE Moves(item[f].c, "resolving")
  <2>1. item[f].c \in Conns
    BY <1>0, <1>5 DEF connection_req_read, Handles, World, Items, ItemHeld
  <2> QED BY <1>5, <1>l, <1>s, <2>1, PeerFacts DEF connection_req_read, counters
<1>6. ASSUME NEW f \in Fd, handle_write_connecting(f) PROVE Same \/ Moves(item[f].c, "copy")
  <2>1. item[f].c \in Conns /\ UNCHANGED counters
    BY <1>0, <1>6 DEF handle_write_connecting, Handles, World, Items, ItemHeld, counters
  <2> QED BY <1>6, <1>l, <1>s, <2>1, PeerFacts DEF handle_write_connecting, Connected, ConnectFails, ConnectionGone
<1>7. ASSUME socksv5_block PROVE Same \/ (\E s \in {"failing", "connecting", "copy"} : Moves(Job, s))
  <2>1. Job \in Conns /\ Job \in Peers /\ st[Job] = "queued" /\ UNCHANGED counters
    BY <1>7, JobFacts DEF socksv5_block, counters
  <2> HIDE DEF Job
  <2> QED BY <1>7, <1>l, <1>s, <2>1 DEF socksv5_block, BlockNoAddress, BlockInProgress, BlockSuccess, BlockAborts
<1>8. ASSUME connect_to_host PROVE Same \/ Moves(who, "failing")
  <2>1. who \in Conns /\ st[who] = "connecting" /\ UNCHANGED counters
    BY <1>0, <1>8 DEF connect_to_host, World, InHandler, counters
  <2> QED BY <1>8, <1>l, <1>s, <2>1, PeerFacts DEF connect_to_host, RetryInProgress, RetryUnreachable, RetrySuccess, GiveUp
<1>9. ASSUME NEW c \in Conns, Resolver(c) PROVE Same \/ Moves(c, "queued")
  BY <1>9, <1>l, <1>s, PeerFacts DEF Resolver, ResolverOpens, ResolverCloses, resolve_host_name, counters
<1>10. ASSUME NEW p \in Peers, PeerArrives(p) PROVE Moves(p, "waiting")
  BY <1>10, <1>l, <1>s DEF PeerArrives, counters
<1>11. ASSUME NEW p, NEW s, Moves(p, s)
       PROVE  /\ UNCHANGED counters
              /\ \E q \in Peers, t \in PeerStates \ {"nego"} :
                    /\ st' = [st EXCEPT ![q] = t]
                    /\ q \in Conns => (t \in LiveStates <=> st[q] \in LiveStates)
  BY <1>11
<1> HIDE DEF Moves
<1>12. CASE MainThread
  BY <1>1, <1>2, <1>3, <1>4, <1>5, <1>6, <1>7, <1>8, <1>11, <1>12 DEF MainThread
<1> QED BY <1>1, <1>9, <1>10, <1>11, <1>12 DEF Next

(* The set of live connections after a step on one peer. *)
LEMMA LiveAfter ==
  ASSUME TypeOK, NEW p \in Peers, NEW s, st' = [st EXCEPT ![p] = s]
  PROVE  Live' = IF p \notin Conns THEN Live
                 ELSE IF s \in LiveStates THEN Live \cup {p} ELSE Live \ {p}
<1>1. \A q \in Conns : st'[q] = IF q = p THEN s ELSE st[q]
  BY PeerFacts DEF TypeOK
<1> HIDE DEF LiveStates
<1> QED BY <1>1 DEF Live

(* Every step keeps the counters right. *)
LEMMA CountersStep ==
  ASSUME MemoryLeft, Inv, CountersMatch, [Next]_vars
  PROVE  CountersMatch'
<1>0. TypeOK /\ World /\ current \in Nat /\ total \in Nat
  BY DEF Inv, TypeOK
<1>1. IsFiniteSet(Live) /\ current = Cardinality(Live) /\ current <= total
  BY LiveFinite DEF CountersMatch
<1>2. CASE socksv5_passive_accept
  <2>1. CASE UNCHANGED counters /\ UNCHANGED st
    <3>1. Live' = Live
      BY <2>1 DEF Live
    <3> QED BY <1>1, <2>1, <3>1 DEF CountersMatch, counters
  <2>2. CASE UNCHANGED counters /\ \E c \in Waiting(Conns) : Refused(c)
    <3>1. PICK c \in Conns : st[c] = "waiting" /\ st' = [st EXCEPT ![c] = "refused"]
      BY <2>2 DEF Waiting, Refused
    <3>2. Live' = Live \ {c} /\ c \notin Live
      BY <1>0, <3>1, LiveAfter, PeerFacts DEF Live, LiveStates
    <3>3. Live' = Live
      BY <3>2
    <3> QED BY <1>1, <2>2, <3>3 DEF CountersMatch, counters
  <2>3. CASE /\ current' = current + 1 /\ total' = total + 1
             /\ \E c \in Waiting(Conns) : st' = [st EXCEPT ![c] = "nego"]
    <3>1. PICK c \in Conns : st[c] = "waiting" /\ st' = [st EXCEPT ![c] = "nego"]
      BY <2>3 DEF Waiting
    <3>2. Live' = Live \cup {c} /\ c \notin Live
      BY <1>0, <3>1, LiveAfter, PeerFacts DEF Live, LiveStates
    <3>3. Cardinality(Live') = Cardinality(Live) + 1
      BY <1>1, <3>2, FS_AddElement
    <3> QED BY <1>0, <1>1, <2>3, <3>3 DEF CountersMatch
  <2> QED BY <1>2, <2>1, <2>2, <2>3 DEF socksv5_passive_accept, MemoryLeft
<1>3. CASE \E f \in Fd : ClientHangup(f) \/ OriginError(f)
  <2>1. PICK f \in Fd : ClientHangup(f) \/ OriginError(f)
    BY <1>3
  <2>2. item[f].c \in Live
    BY <1>0, <2>1 DEF ClientHangup, OriginError, Handles, World, Items, ItemHeld, Live, LiveStates
  <2>3. PICK c \in Live : st' = [st EXCEPT ![c] = "freed"] /\ current' = metrics_dec_curr_conn(1) /\ total' = total
    BY <2>1, <2>2 DEF ClientHangup, OriginError, socksv5_close
  <2>4. Live' = Live \ {c}
    BY <1>0, <2>3, LiveAfter, PeerFacts DEF Live, LiveStates
  <2>5. Cardinality(Live') = Cardinality(Live) - 1 /\ Cardinality(Live) >= 1
    <3>1. Cardinality(Live \ {c}) = Cardinality(Live) - 1
      BY <1>1, FS_RemoveElement
    <3>2. Cardinality(Live \ {c}) \in Nat
      BY <1>1, FS_RemoveElement, FS_CardinalityType
    <3> QED BY <1>0, <1>1, <2>4, <3>1, <3>2
  <2> QED BY <1>0, <1>1, <2>3, <2>5 DEF CountersMatch, metrics_dec_curr_conn
<1>4. CASE Shutdown
  <2> DEFINE owners == {item[f].c : f \in {f \in Fd : item[f].h \in {"socks5", "admin"}}}
  <2>1. owners = {p \in Peers : st[p] \in ClientStates}
    BY OwnersAre
  <2>2. owners \cap Conns = Live
    BY <1>0, <2>1, PeerFacts DEF Live, ClientStates, World, Services
  <2>3. /\ st' = [p \in Peers |-> IF p \in owners THEN "freed" ELSE st[p]]
        /\ current' = metrics_dec_curr_conn(Cardinality(owners \cap Conns)) /\ total' = total
    BY <1>4 DEF Shutdown
  <2> HIDE DEF owners
  <2>4. Live' = {}
    <3>1. \A c \in Conns : st'[c] \notin LiveStates
      BY <2>2, <2>3, PeerFacts DEF Live, LiveStates
    <3> QED BY <3>1 DEF Live
  <2>5. Cardinality(Live') = 0
    BY <2>4, FS_EmptySet
  <2> QED BY <1>0, <1>1, <2>2, <2>3, <2>5 DEF CountersMatch, metrics_dec_curr_conn
<1>5. CASE UNCHANGED counters /\ UNCHANGED st
  <2>1. Live' = Live
    BY <1>5 DEF Live
  <2> QED BY <1>1, <1>5, <2>1 DEF CountersMatch, counters
<1>6. CASE /\ UNCHANGED counters
           /\ \E p \in Peers, s \in PeerStates \ {"nego"} :
                    /\ st' = [st EXCEPT ![p] = s]
                    /\ p \in Conns => (s \in LiveStates <=> st[p] \in LiveStates)
  <2>1. PICK p \in Peers, s \in PeerStates : /\ st' = [st EXCEPT ![p] = s]
                                             /\ p \in Conns => (s \in LiveStates <=> st[p] \in LiveStates)
    BY <1>6
  <2>2. p \in Conns => (p \in Live <=> s \in LiveStates)
    BY <2>1 DEF Live
  <2>3. Live' = Live
    BY <1>0, <2>1, <2>2, LiveAfter
  <2> QED BY <1>1, <1>6, <2>3 DEF CountersMatch, counters
<1> QED BY <1>2, <1>3, <1>4, <1>5, <1>6, StateSteps

(* Whatever ends a connection, refuses it or stops the process, current is  *)
(* the number of connections that are open and is never above total: each   *)
(* connection is counted once and uncounted once.                           *)
THEOREM ConnectionsAreCounted == ASSUME NoRace, MemoryLeft PROVE Spec => []CountersMatch
<1>1. ASSUME Init PROVE CountersMatch
  <2>1. Live = {}
    BY <1>1, PeerFacts DEF Init, Live, LiveStates
  <2> QED BY <1>1, <2>1, FS_EmptySet DEF Init, CountersMatch
<1>2. Inv /\ CountersMatch /\ [Next]_vars => CountersMatch'
  BY CountersStep
<1> QED BY Invariance, <1>1, <1>2, PTL DEF Spec

(* A connection is admitted only while fewer than max_conn are open.        *)
LEMMA AdmitStep ==
  ASSUME Inv, CountersMatch, [Next]_vars, NEW c \in Conns, st[c] = "waiting", st'[c] = "nego"
  PROVE  Cardinality(Live) < max_conn
<1>0. TypeOK /\ c \in Peers /\ current = Cardinality(Live) /\ current \in Nat /\ max_conn \in Nat
  BY PeerFacts, MaxConnsAssumption DEF Inv, CountersMatch, TypeOK
<1>1. CASE socksv5_passive_accept
  <2>1. st' # st /\ \A d \in Conns : st' # [st EXCEPT ![d] = "refused"]
    BY <1>0, PeerFacts DEF TypeOK
  <2>2. ~MaxReached
    BY <1>1, <2>1 DEF socksv5_passive_accept, Refused, Waiting
  <2> QED BY <1>0, <2>2 DEF MaxReached
<1>2. CASE Shutdown
  BY <1>0, <1>2 DEF Shutdown
<1>3. CASE \E f \in Fd : ClientHangup(f) \/ OriginError(f)
  <2>1. PICK f \in Fd : st' = [st EXCEPT ![item[f].c] = "freed"]
    BY <1>3 DEF ClientHangup, OriginError, socksv5_close
  <2> QED BY <1>0, <2>1 DEF TypeOK
<1>4. CASE UNCHANGED st
  BY <1>4
<1>5. CASE \E p \in Peers, s \in PeerStates \ {"nego"} : st' = [st EXCEPT ![p] = s]
  BY <1>0, <1>5 DEF TypeOK
<1> QED BY <1>1, <1>2, <1>3, <1>4, <1>5, StateSteps

(* SET_MAX_CONN: the limit that socksv5_passive_accept looks at is the      *)
(* number of connections that are really open.                              *)
THEOREM LimitIsKept == ASSUME NoRace, MemoryLeft PROVE Spec => LimitKept
<1> DEFINE Admitted == \A c \in Conns : st[c] = "waiting" /\ st'[c] = "nego" => Cardinality(Live) < max_conn
<1>1. Inv /\ CountersMatch /\ [Next]_vars => [Admitted]_vars
  BY AdmitStep
<1> HIDE DEF Admitted
<1>2. Spec => [][Admitted]_vars
  BY Invariance, ConnectionsAreCounted, <1>1, PTL DEF Spec
<1> QED BY <1>2 DEF LimitKept, Admitted
=============================================================================
