# A TLA+ verification of the SOCKSv5 proxy

This directory keeps a formal model beside the code of the proxy server: TLA+
modules translated from the C sources, TLC configurations that check them on
small instances, and theorems, with proofs checked by TLAPS, that hold for
every value of the parameters. Paths below are relative to the repository
(`src/server/...`); names in `code` are C functions or TLA+ definitions, which
share their names wherever possible.

## 1. The system and its parts

The server is one process with one main thread. `main` (`src/server/server.c`)
opens two listeners, registers them in a selector and calls `selector_select`
for ever. Each accepted client gets a connection object, a state machine and two
buffers. The only other threads are the ones that resolve names.

| part | state | operations | correct when |
|---|---|---|---|
| I/O buffer (`shared/buffer.c`) | a block, a read and a write pointer | reset, write, write_adv, write_struct, read, read_adv, compact | the pointers stay inside the block and in order; it is a FIFO; a drained buffer has its whole room again |
| selector (`utils/selector.c`) | items with an interest, `max_fd`, the sets for `pselect`, the list of blocking jobs, a mutex, a signal | register, unregister, set_interest, notify_block, select | what is watched is what was asked for; no wake-up is lost; every event and every job is served |
| connection (`socks5/socks5.c`) | two descriptors, two buffers, parsers, `addr_info`, `is_error_response` | accept, read, write, block, close | it is freed once and not used afterwards; interests match the contents of the buffers |
| state machine (`socks5/socks5_stm.c`, `utils/stm.c`) | the current state | dispatch of read, write and block, arrival and departure hooks | every event finds a handler |
| state handlers (`socks5/states_handlers/*.c`) | — | handshake, authentication, request, connecting, copy | a client is authenticated before it is connected; each request gets one answer, the right one; the data arrives complete and in order |
| resolver and connect (`utils/netutils.c`) | a thread per name | `resolve_host_name`, `connect_to_host` | the addresses of a name are tried in turn; the thread never touches a freed connection |
| replies (`socks5/socks5_responses.c`) | — | build and queue a reply | the reply says what happened |
| message parsers (`socks5/parsers/*.c`, `utils/parser.c`) | automaton state and counters | feed a byte | they accept the messages of RFC 1928 and 1929, in any fragmentation |
| access register (`s5admin/access_register.c`) | a circular queue | add, print | it lists the latest entries in order |
| metrics (`s5admin/metrics.c`) | counters | add, remove | they say what the connections did |
| credentials (`utils/auth_table.c`) | a hash table of users, with chains | add, remove, look up, list | it is a map from users to passwords: a removed user is not accepted, a change affects later logins only |
| administration (`s5admin/s5admin.c`, `config.c`, `shared/s5admin_parser.c`) | connections with two buffers; the limit of connections, the buffer size, the level of the log | twelve commands, one per line | every line is executed once and in order, and its answer arrives |
| administration client (`admin_client/admin_client.c`) | a prompt or an answer awaited | check a line, send it, read | it shows the answer to the command it has sent |
| start and accept (`server.c`, `connection_helper.c`, `server_data.c`) | listeners, descriptors, limits | accept, run the loop, shut down | no more connections than the limit; every descriptor has one owner, who closes it once; whoever connects is admitted or refused |
| logger, command line | — | output, argv | — |

How they interact: the kernel reports events to the selector, which calls the
handlers of a descriptor; the state machine picks the handler of the phase; a
handler changes buffers and interests, calls `socksv5_write` directly when it has
queued something, or starts a resolver thread; the thread writes its result into
the connection and hands the descriptor over with `selector_notify_block`. The
handlers of the client's descriptor and those of the origin's share the buffers
and change each other's interest. All connections share the table of users, the
settings, the counters and, above all, the numbers of the descriptors, which the
kernel gives to the next one as soon as they are closed, and which the connections, the
selector's table, the set of events and the list of jobs go on holding.

What is hard:

* handlers nest, and an inner one may free the connection that an outer one
  goes on using;
* messages of several phases arrive in one segment;
* the resolver thread runs while the main thread may close its connection, and
  its notification may come at any point of the main loop;
* several addresses fail at once or later, in any order, and descriptors are
  closed and reopened while they are registered;
* interests are exclusive, so two directions of data share one interest per
  descriptor, with buffers and sockets that fill up;
* a descriptor is closed, and its number given to somebody else, while it is
  still in the table, in the events of the round or in a connection;
* descriptors, memory and `FD_SETSIZE` run out at any step of an acceptance or of
  a connection to an origin;
* an administration command is a line, but `recv` returns pieces of lines or
  several of them, and `strchr` looks for the newline in whatever the memory holds;
* peers close and reset at any time, and the process is asked to stop.

`PROJECT.json` lists these hazards, each at its line and with the properties
that watch over it.

## 2. The modules

| module | models | shown to implement |
|---|---|---|
| `Buffer` | `shared/buffer.c` | `BoundedFifo` |
| `AccessRegister` | `s5admin/access_register.c` | `RecentLog` |
| `Parsers` | the three message parsers and `utils/parser.c` | the grammar of the messages (as invariants) |
| `Selector` | `utils/selector.c` with resolver threads and arbitrary handlers | — |
| `Socks5` | one connection: `socks5.c`, `socks5_stm.c`, `stm.c`, the five state handlers, `netutils.c`, the replies, what it adds to register and metrics; client, origin and kernel as environment | — |
| `Server` | the process: `server.c`, `connection_helper.c`, both acceptances, the round of the selector, all connections, the resolver threads and the counters, over one table of descriptors | — |
| `AuthTable` | `utils/auth_table.c` | `Credentials` |
| `Admin` | one administration connection: `s5admin.c`, `config.c`, `s5admin_parser.c`, `admin_client.c`; extends `AuthTable` | — |
| `MCSelector`, `MCSocks5`, `MCAdmin` | values of the constants for TLC | |
| `BufferProofs`, `AccessRegisterProofs`, `ParsersProofs`, `SelectorProofs`, `Socks5Proofs`, `ServerProofs`, `AuthTableProofs`, `AdminProofs` | theorems and proofs | |

### Buffer and AccessRegister

The pointers of a buffer are offsets from `b->data`. Every function that changes
them is an action; the bytes are real, so that `buffer_compact`, which moves
them, can be shown to change nothing that a user sees. `BoundedFifo` is what the
users rely on: pieces are put behind, taken in front, or all dropped. The
refinement mapping is the sequence of bytes between the two pointers (`Unread`).

The access register is an array with `head`, `tail` and `count`.
`access_register_print` is the listing that an administrator gets;
`RecentLog` says it is the list of the latest entries.

### Parsers

`kind` says which parser is in use, `state` is the state of its automaton, `p` holds
its fields and `input` the bytes it has been fed, one at a time: a message that
arrives in pieces is the same sequence of feeds. A row of a table of transitions,
`parser_feed` and the `switch` in the parser's own feed function are one step.
`res` is what that function returns. The three messages follow each other as in a
connection, each with a new parser.

The grammar is written without the automaton: `IsHello`, `IsAuth` and `IsRequest` say
what a message is by its length and the bytes at its offsets, `Promising` which
values their fields may have, `HelloSays`, `AuthSays` and `RequestSays` what they mean.
It is the grammar of RFC 1928 and RFC 1929, not the code's, and the code leaves it in two
places, each a definition of its own that the properties name. `UnknownMethod`: a client
may offer any method, but the code drops it at the first one other than 0, 1 and 2, even
if it offers one of those as well. `ZeroLength`: a count of no methods and a name of no
bytes are in no message, but the code takes one more byte and then completes.

`Base` is 256, the number of values of a byte, and also the size of the arrays: a
smaller value keeps the relation between lengths, counters and arrays.
`classes[]` in `utils/parser.c` has 255 entries, so that the byte 255 reads beyond it
(`ClassesOverrun`); the value is not used, and the default build stops there.

### Selector

`used` and `interest` are the items, `master` the two master sets, `slave` what
`pselect` returned and the loop has not yet looked at. `pc` is the main thread:
in `pselect`, in the loop over the events (`iterate`), in a handler, in the visit
of the jobs (`jobs`, which holds the mutex) or in a block handler. While a
handler runs it may register, unregister or change the interest of any
descriptor, start a resolver thread or queue a job, any number of times: these are
the users of the selector, and nothing more is assumed of them. A resolver
queues its job under the mutex (`QueueJob`) and sends the signal afterwards
(`WakeSelector`); the signal is blocked except inside `pselect`, so it is a flag.
When it is pending `pselect` returns `EINTR` and the round skips the events.

### Socks5

`pc` names the C function that runs next and `ret` the one that called it: a
handler that calls `socksv5_write` and then goes on is two steps, with the call
in between, and only the peers, the kernel and the resolver can run in between,
as in the code. `st` is the state of the state machine, `"FREED"` after the
connection has been released. `ci` and `oi` are the interests of the two
descriptors, `oh` says which handlers the origin's descriptor has. `ofd` is
`origin_fd`: it is 0 until `connect_to_host` sets it, and descriptor 0 is the SOCKS
listener, because `main` closes stdin before it opens sockets; `lis` is the interest
of that listener. `stale` says that a closed descriptor is still registered.

A protocol message is one element of a stream, and so is a piece of data: the
parsers that cut bytes into messages are a component of their own. A garbage
element stands for anything a parser refuses. Buffers and sockets hold a bounded
number of elements, `send` and `recv` move as many as fit. A socket whose peer
has closed takes one more `send`, which is answered with a RST; the next one
raises SIGPIPE.

The process can end: `"aborted"` is a failed AddressSanitizer check (the default
build has `-fsanitize=address`) or the dereference of a NULL parser, `"killed"` is
SIGPIPE, `"exited"` is `main` leaving its loop when `selector_select` reports an
error.

The environment flags in `Env` say what peers and kernel may do beyond a minimum:
pipelining, garbage and requests without the authentication that was offered,
closing, resetting, an origin that speaks first, failing
`pthread_create` or `socket`, and a new socket with a number other than the one
just closed (`fd_shift`).

Two early returns are left out of the handlers, those of `socksv5_write` and
`copy_write_handler` for an empty buffer; `WritersHaveData` is checked to show that
no caller takes them.

### Server

`Selector` has one table and any users, `Socks5` one connection and its own
registrations. `Server` puts several connections, both services and the kernel
together, and looks only at what they share. `file` is the kernel's table of
descriptors: what is open and for whom; the lowest free number is given out next.
`item` is the selector's table, `slave` the events of the round that have not been
looked at, each with the peer it was reported for, and `jobs` the list of finished
resolutions. `cfd` and `ofd` are the numbers that a connection keeps, `st` is how far
it has got, `left` the addresses that it may still try, and `dns` the descriptor that
a resolver thread is using. `moved` is history: the connections whose second attempt
got another number than the first.

`pc` is the main thread: asleep in `pselect`, looking at events in ascending order
(`iterate`), between the two calls of `close` in `handle_write_connecting`
(`closed`), visiting the jobs with the mutex held (`blocks`) or about to shut down
(`stop`). A handler is what it does to descriptors, registrations and counters;
which of its outcomes happens (data, end of file, an error, a request) is left open,
because the peers decide that. What a handler does *inside* a connection, uses of
freed memory included, is the business of `Socks5`; here such a path ends the
process (`"aborted"`). `"lost"` is a handler that runs for a connection that is
no longer there: what the program does then is not followed. stdout, stderr and the file
of the log are left out of the numbering, and each service has one listener.

Two reductions: SIGTERM only sets `done`, which is looked at between two rounds, so
the signal comes where it can be told apart, in `pselect` or after the jobs; and an
interruption of `pselect` that finds no job is left out, as it changes nothing.

### AuthTable and Admin

`hashmap` is the array of chains, `answer` the last operation and its result.
`Credentials` is what the users of the table rely on: a map from names to passwords
with a result for each operation. The mapping is `PasswordOf`, the first entry of
that name in its chain.

In `Admin`, `mem` is the memory of `in_data` with `out_data` right behind it, as in
the structure: `admin_read` terminates lines with a NUL in place, and `strchr` reads
on past the bytes received, so that old lines and answers matter. A cell of
the memory is a newline, a NUL, a blank or a word; answers are abstracted to
as many cells as they have lines (and their text where it depends on the state), cut
off where `snprintf` cuts them. The administrator is any program
(`prog = "none"`), which may send lines in pieces or several at once, or
`admin_client`, which sends only what its own parser takes and prompts again after
one `read`. Another administrator and clients that log in change and read the table
in between, and the server may be asked to stop while `admin_client` waits. `rough` records what the administrator and the network have done beyond
sending a line in one piece and reading its answer, so that a property can say which of
it it does not bear.

## 3. The runs

Run one with `tlc -config <cfg> <module>`.

| run | cfg | distinct states | bounds |
|---|---|---|---|
| `buffer` | `MCBuffer` | 176 | 4 bytes of 2 values: every offset of both pointers, and compaction by 1, 2 and 3 |
| `access_register` | `MCAccessRegister` | 648 | 4 entries of 3 values, any number of additions: every position of the wrap-around |
| `parsers` | `MCParsers` | 57,458 | bytes 0..6, so that lengths go from 0 to their maximum 6; addresses of 4 and 5 bytes; inputs of up to 15 bytes, the longest message |
| `selector` | `MCSelector` | 43,000 | 2 descriptors, 1 resolver thread |
| `socks5_any` | `MCSocks5Any` | 58,993 | all flags; every list of at most 2 addresses of 5 kinds; buffers of 3, sockets of 2, 2 pieces of data each way |
| `socks5_relay` | `MCSocks5Relay` | 120,199 | 5 pieces each way through buffers and sockets of 2 |
| `socks5_polite` | `MCSocks5Polite` | 1,437 | polite peers, 3 pieces each way through buffers of 2 and sockets of 1 |
| `server` | `MCServer` | 295,346 | 2 clients, 1 administrator, 7 descriptors of which the selector takes 6, up to 2 addresses per name, limits 1 and 2 |
| `admin` | `MCAdmin` | 954,106 | 2 lines out of 8, `in_buff` of 5 cells, `out_buff` of 9, sockets of 3, 2 names in one chain |

* `buffer`: `PointersOrdered`, and `FifoSpec`, the refinement.
* `access_register`: `RingOrdered` and `RecentSpec`, the refinement.
* `parsers`: `DoneAtTheEnd` and `ErrorIsWrong` (a parser stops at the last byte of a
  message of the RFCs or at the first byte that none of them has there, and nowhere else
  but for the two deviations of section 2), `FieldsAreRead` (what the
  handlers find in the parser is what the message says), `ArraysInBounds`. Where the
  tables do not look at a byte, two values are fed, enough to tell positions
  apart.
* `selector`: `SetsMatchItems` (no closed descriptor is watched, no wanted one
  is beyond the first argument of `pselect`), `NoLostWakeup`, and the liveness
  properties `BlockServed` and `EventServed`. One thread is enough to have two
  jobs at once, because a handler queues jobs itself for literal addresses; for
  any number of threads the invariants are proved. Two descriptors are enough for
  one with a lower number to delay another.
* `socks5_any`: with every environment, `ResolverSafe` (the thread never works on a
  freed connection, and its job finds the state with a block handler),
  `AuthBeforeRelay`, `ReplyMatchesLog` (one answer, and the one in the access
  register), `SuccessMeansConnected`, `WritersHaveData`, `HalfDuplex`.
* `socks5_relay`: `NoStall` (whatever waits in a buffer has an
  interest that will move it), `RelayToOrigin` and `RelayToClient` (nothing lost,
  repeated or reordered from end to end). More pieces than buffer and both sockets
  hold together make every queue full at once.
* `socks5_polite`: with clients that wait for each reply and peers that stay, the
  server keeps running and listening (`ServerUp`, `ListenerReads`), every request
  is answered, the addresses of a name are tried until one works (lists of up to
  four), and all the data arrives: what the client sends, and what the origin sends in
  answer to it. An origin that speaks first is not in this run; it is not read until the
  client sends something, as said below.
* `server`: `OwnDescriptors` (every number kept by a connection or a thread is the
  descriptor it was given, and every open descriptor is kept by one who will close
  it), `EventsReachTheirOwner` and `JobsReachTheirOwner` (no event and no job goes to
  the connection that has got a number since), `OnlyRetriesLeaveItems` (nothing but a
  retry with another number leaves a closed descriptor in the selector),
  `CountersMatch`, `LimitKept` (`max_conn`, as the administrator changes it) and the
  liveness property `EveryPeerIsTaken`. Two clients are enough for one to get
  the number of the other, two addresses for one retry. With a resolver's descriptor
  all 7 numbers are taken: the last one is beyond `FD_SETSIZE`, and then there is
  none.
* `admin`: `CommandsInOrder` (as long as lines arrive whole, however many at a time,
  each is executed once and in order), `AnswersInOrder` (answers are appended, sent
  in parts and moved: what is read is what was answered), `ServerStays` (what it takes
  to bring the process down), `ShownInFull` (what `admin_client` has shown when it
  prompts), `CredentialsSpec`, the refinement, and the liveness property
  `EveryCommandAnswered`. The buffers are small against the lines and answers, so that
  two lines fill `in_buff`, a line is longer than it, an answer does not fit
  `out_buff` or the socket. Users are not changed by others while a line is in two
  pieces, a bound on the number of states.

The type invariants of `Buffer`, `AccessRegister`, `Parsers`, `Selector`, `Socks5` and
`Server` are proved (section 4) and are not in the runs.

Deadlock is checked for the buffer, the register, the parsers and the selector, which never
stop. A connection ends, and so may the process, hence `CHECK_DEADLOCK FALSE` in the
runs of `Socks5`, `Server` and `Admin`.

### Fairness

`Selector!FairSpec`: weak fairness of the main thread (main calls
`selector_select` in a loop and handlers return), weak fairness of the end of
`selector_notify_block`, and strong fairness of taking the mutex, which the main
thread releases once in every round, before it sleeps.

`Socks5!FairSpec`: weak fairness of each handler, because each round of
`selector_select` serves every descriptor that is ready — which `EventServed` shows
for the selector; of `getaddrinfo` and of the end of a connection attempt, which
have timeouts of their own; and of the peers' reading, without which nobody can
promise delivery. No peer has to send, and none has to close.

`Server!FairSpec`: weak fairness of the main thread as a whole (which of its steps it
takes is not chosen fairly: the peers decide) and of `resolve_host_name`. Nobody has
to connect, and no connection has to end.

`Admin!FairSpec`: weak fairness of the two handlers, of the arrival of the rest of a
line, and of the administrator's reading.

### Disagreements between the code and its documents

Each has a run of its own that ends with a counterexample.

| run | what it shows | line |
|---|---|---|
| `find_byte_255` | the byte 255 in a message, of an address or a port for instance, makes `parser_feed` read beyond its table | `parser.c:47` |
| `find_listener` | a byte behind a request that fails takes the read interest from descriptor 0, the listener | `socks5.c:147` |
| `find_retry_fd` | the retry on another address leaves a closed descriptor registered when the new one has another number, here because another connection has taken the lowest one | `socks5_connecting.c:98` |

The models have more steps of this kind without a run of their own. In `Parsers`:

* a hello that offers a method other than 0, 1 and 2 closes the connection without a
  reply, whatever else it offers (`UnknownMethod`, which `ErrorIsWrong` requires to be an
  error; `handshake_parser.c:111` and `:136`). RFC 1928, which the server has to implement
  (`docs/20251-r1.txt:78`), gives the methods up to 254 a meaning, and a client without a
  common one is to be answered with 0xFF (`socks5_stm.h:30`);
* a hello that announces no method and a name of no bytes are not refused: one more byte is
  taken for them (`ZeroLength`; `handshake_parser.c:115`, `conn_req_parser.c:270`).

In `Socks5`:

* the reply code comes from `errno` and not from the error of the socket
  (`socks5_connecting.c:91`);
* what a client sends behind its request, ahead of the reply, is dropped
  (`socks5_connecting.c:131`);
* an origin that speaks first is not read until the client sends something
  (`socks5_copy.c:17`);
* refused credentials: `auth_read` reads the connection that its own reply has
  freed (`auth_read` with `st = "FREED"`; `auth.c:11`);
* a second message in the segment of the hello is fed to a parser that is NULL (the
  last disjunct of `handshake_read`; `handshake.c:18`);
* a `send` to a peer that has gone raises SIGPIPE, which nothing ignores
  (`WriteSigpipe`, `CopySigpipe`; `socks5.c:133`, `socks5_copy.c:95`);
* a list whose addresses all fail at once is not answered, and the block handler then
  uses the freed connection (`BlockFailed`; `socks5_connecting.c:43`, `socks5.c:178`).

In `Server`, where `Env` keeps them apart:

* `"race"`: `handle_write_connecting` closes the same number twice; a resolver thread
  that opens a descriptor in between loses it, and `OwnDescriptors` is violated
  (`socks5_connecting.c:95` and `:114`);
* `"no_mem"`: when `malloc` fails during an acceptance, `socksv5_close` takes back a
  connection that has not been counted, and `CountersMatch` is violated
  (`socks5.c:51`);
* a retry whose `connect` succeeds at once is answered as a failure (`RetrySuccess`;
  `socks5_connecting.c:98`);
* without a free number `accept` fails, the peer stays in the queue and the loop
  turns without rest until a descriptor is closed (`connection_helper.c:7`).

In `Admin`, where `rough` says what leads to them:

* a command in two segments: the first is answered as too long and discarded, the
  second is taken for a command of its own (`NoCommand`; `s5admin.c:63`);
* a line of blanks has no word, and `strcmp` gets NULL (`CommandAborts`;
  `s5admin_parser.c:29`);
* the newline found belongs to an older command, and the assertion of
  `buffer_read_adv` fails (`CommandAborts`; `s5admin.c:62`);
* an answer that the socket takes in part: the rest waits until the next
  command is answered (`Sent`; `s5admin.c:132`);
* a `send` to an administrator that has reset the connection closes and frees it
  twice (`SendError`; `s5admin.c:123`);
* `admin_client` prompts after one `read`, because one of the ends of an answer
  it looks for is the empty string (`ProgramReads`; `admin_client.c:104`).

These steps are why `ServerUp` and the liveness properties of a connection are checked
with polite peers, and why the safety properties are checked with all of them.

Each property of a passing run has a mutant: a definition with the kind of
mistake that could be made in the code, placed before the definition that it
replaces and marked `mutant of`, under which TLC finds the property violated.

## 4. What is proved

Proofs are checked with `tlapm <module>`. Assumptions on the constants are the
named `ASSUME`s of the modules: sizes are positive, the inputs have their types, a
buffer of a connection has room for two messages (`BUFF_MIN_LEN` is 256 bytes), the
answers of an administration have room for more than a terminator
(`MAX_RESPONSE_LEN` is 100 KiB), the chains of the table are numbered from 0, and
`get_code` never returns "succeeded" (it has a case for some values of `errno` and a
default, all of them failures). A theorem that needs more of the environment says so
as a hypothesis, discussed below.

| theorem | statement | hypothesis |
|---|---|---|
| `Socks5Proofs!TypeCorrect` | `Spec => []TypeOK` | |
| `Socks5Proofs!Invariance` | `Spec => []IndInv`, the first inductive invariant | |
| `Socks5Proofs!ResolverIsSafe` | `Spec => []ResolverSafe` | |
| `Socks5Proofs!AuthenticatedBeforeRelay` | `Spec => []AuthBeforeRelay` | |
| `Socks5Proofs!RelayInvariance` | `Spec => [](IndInv /\ RelayInv)`, the second one | |
| `Socks5Proofs!OneAnswer` | `Spec => []ReplyMatchesLog` | |
| `Socks5Proofs!SuccessIsReal` | `Spec => []SuccessMeansConnected` | |
| `Socks5Proofs!WritersAreFed` | `Spec => []WritersHaveData` | |
| `Socks5Proofs!OneDirectionAtATime` | `Spec => []HalfDuplex` | |
| `Socks5Proofs!DataIsWatched` | `Spec => []NoStall` | |
| `Socks5Proofs!DownstreamIsExact` | `Spec => []RelayToClient` | |
| `Socks5Proofs!TurnInvariance` | `Spec => [](IndInv /\ RelayInv /\ TurnInv)`, the third one | `NoPipeline` |
| `Socks5Proofs!UpstreamIsExact` | `Spec => []RelayToOrigin` | `NoPipeline` |
| `Socks5Proofs!PoliteInvariance` | the three and `PoliteInv`, the fourth one | `Polite` |
| `Socks5Proofs!ProcessGoesOn` | `Spec => []ServerUp` | `Polite` |
| `Socks5Proofs!ListenerIsWatched` | `Spec => []ListenerReads` | `Polite` |
| `ServerProofs!Invariance` | `Spec => []Inv`, the inductive invariant | `NoRace` |
| `ServerProofs!DescriptorsAreOwn` | `Spec => []OwnDescriptors` | `NoRace` |
| `ServerProofs!EventsAreOwn` | `Spec => []EventsReachTheirOwner` | `NoRace` |
| `ServerProofs!JobsAreOwn` | `Spec => []JobsReachTheirOwner` | `NoRace` |
| `ServerProofs!StaleItemsAreRetries` | `Spec => []OnlyRetriesLeaveItems` | `NoRace` |
| `ServerProofs!ConnectionsAreCounted` | `Spec => []CountersMatch` | `NoRace`, `MemoryLeft` |
| `ServerProofs!LimitIsKept` | `Spec => LimitKept` | `NoRace`, `MemoryLeft` |
| `ParsersProofs!Invariance` | `Spec => []IndInv`, the inductive invariant | |
| `ParsersProofs!DoneExactlyAtTheEnd` | `Spec => []DoneAtTheEnd` | |
| `ParsersProofs!ErrorsAreReal` | `Spec => []ErrorIsWrong` | |
| `ParsersProofs!GoodIsKept` | `Spec => []NothingIsLost` | |
| `ParsersProofs!MessagesAreRead` | `Spec => []FieldsAreRead` | |
| `ParsersProofs!StoresStayInBounds` | `Spec => []ArraysInBounds` | |
| `SelectorProofs!WatchedIsWanted` | `Spec => [](TypeOK /\ SetsMatchItems)` | |
| `SelectorProofs!WakeupIsNotLost` | `Spec => []NoLostWakeup` | |
| `BufferProofs!BufferSafe` | `Spec => [](TypeOK /\ PointersOrdered /\ DrainedIsReset)` | |
| `BufferProofs!BufferIsFifo` | `Spec => FifoSpec` | |
| `AccessRegisterProofs!Ring` | `Spec => [](TypeOK /\ RingOrdered)` | |
| `AccessRegisterProofs!ListsRecent` | `Spec => RecentSpec` | |
| `AdminProofs!InvAlways` | `Spec => []Inv`, the inductive invariant | |
| `AdminProofs!AnswersArriveInOrder` | `Spec => []AnswersInOrder` | |
| `AdminProofs!OrderAlways` | `Spec => []InOrder`, the second inductive invariant | |
| `AdminProofs!CommandsAreInOrder` | `Spec => []CommandsInOrder` | |
| `AdminProofs!LineByLineAlways` | `Spec => []LineByLine`, the third inductive invariant | |
| `AdminProofs!TheServerStays` | `Spec => []ServerStays` | |
| `AdminProofs!TurnsAlways` | `Spec => []TakesTurns`, the fourth inductive invariant | |
| `AdminProofs!AnswersAreShown` | `Spec => []ShownInFull` | |
| `AuthTableProofs!ChainsStayWellFormed` | `AuthSpec => [](TableOK /\ ChainsWellFormed)` | |
| `AuthTableProofs!TableImplementsCredentials` | `AuthSpec => CredentialsSpec` | |

**The connection: negotiation.** Types, `ResolverSafe` and `AuthBeforeRelay` are not
inductive. The strengthening, `IndInv`, is `TypeOK /\ Control /\ Resolution /\ Negotiation /\ InFlight /\
Credentials`:

* `Control`: where the thread is, the state of the state machine and the
  registrations agree; the client's descriptor is watched for reading only in
  states that have a read handler, which is what gives `stm_handler_read` one, and
  the origin's handlers exist only in CONNECTING and COPY.
* `Resolution`: while a resolver runs or its job waits, the state is CONNECTING,
  no handler of the connection is running, the client's interest is OP_NOOP and
  the origin has no descriptor, so that no event can close the connection.
* `Negotiation`: a reply of the negotiation is alone in `out_buff`, from when it is
  queued until it is sent, and exactly then the client's interest is OP_WRITE.
* `InFlight`: a hello or credentials on the wire or in `in_buff` are the ones that
  the client has sent, in whatever pieces they arrive.
* `Credentials`: what the server has made of these messages so far: which state
  follows from which method, and that CONN_REQ and what comes after it are reached
  only by a client that may.

Types are shown action by action (one lemma each), then each conjunct has a step
lemma with one case per action; for `InFlight` the server's and the environment's
actions are separate lemmas, because the server only moves messages and the
environment only adds them.

**The connection: relay and answer.** `HalfDuplex`, `WritersHaveData`, `NoStall`,
`ReplyMatchesLog`, `SuccessMeansConnected` and `RelayToClient` follow from a second
invariant, `RelayInv`, that is inductive together with the first:

* `Directions`: in COPY one of the buffers is empty, a buffer that is not has the one
  interest that empties it, and a peer is left alone only while its buffer is full (or,
  for the origin, while nothing has come from it since its interest was OP_NOOP).
* `Ending`: an error reply is on its way out, and a freed connection is not
  registered. `BeforeRelay`: nothing has reached the origin, and the client has been
  sent results of the negotiation only.
* `Answer`: the register has the result exactly from when its reply is queued, and a
  reply of success is queued for a socket that has connected. `connect_to_host` may
  have failed for other addresses before; that `get_code` does not say "succeeded"
  is what tells the two answers apart.
* `Downstream`: what the client has read, what is on its way to it and what
  waits in the socket of the origin, put together, are the replies, of which only the
  last one answers the request, and then everything that the origin has sent.

No hypothesis is needed: these hold for clients that send ahead, for garbage,
resets and every failure of a call.

**The connection: from the client to the origin.** `RelayToOrigin` does not hold for a
client that sends data before it has the reply: what follows the request in its
segment is in `in_buff`, and `buffer_reset` drops it when the connection to the origin
is made (`socks5_connecting.c:131`, and `:40` when that succeeds at once). TLC shows it in 13 steps when
`"pipeline"` is added to the flags of `socks5_relay`. For
clients that wait (`NoPipeline`, a flag of `Env`; RFC 1928 has them wait) there is a
third invariant, `TurnInv`. `Turns`: a message, the work on it and its reply are one
token of the negotiation, of which at most one exists in sockets, buffers and state, and the
client waits while there is one. `Stages`: what is on its way is what the client said
last. When the relay begins `in_buff` is therefore empty and the client has sent no data.

**The connection: what it may do to the process.** `ServerUp` and `ListenerReads` are
false in general: section 3 lists the ways in which one connection ends the process or
silences the listener. `Polite` leaves each of them out by its cause: no peer closes or
resets, no client is refused a method or a password (the reply then frees the connection
that `handshake_read` or `auth_read` goes on using), no descriptor number is lost to
somebody else, and a list of addresses that is not empty has one that does not fail at once.
What it does not exclude is garbage, requests that are not supported or not
authenticated, names without an address, origins that refuse or speak first, and a failing
`pthread_create`. `PoliteInv` has one conjunct per way: `Returns` (the functions that go on
after `socksv5_write` find their connection, because a reply they wait for is no
error), `Sockets` with `Greetings` (a client closes only when it has read a refusal, which is
sent by the step that frees the connection), `Resolved`, and `Received`. That a reply of the
negotiation leaves the listener alone is where `TurnInv` is needed: `in_buff` is empty
while a reply is on its way.

**The process.** For any number of clients, administrators, descriptors, addresses per
name and rounds. `Inv` relates the places that hold a number: `Files`, `Items` and
`Queue` say for the kernel's table, the selector's table and the list of jobs whose each
entry is; `Clients`, `Origins` and `Resolvers` say the converse for the numbers that
connections and threads keep. `InHandler` is the exception, between the two calls of
`close` in `handle_write_connecting`. A retry with another number leaves an item behind;
it is at a higher number than the new socket (`ItemHeld`), because `socket` returns the
lowest free one, and that is why the item of the new socket is not the stale one.
`EventsReachTheirOwner` needs `Rounds`: numbers are looked at in ascending order and the
listeners have the lowest, so a number closed in this round is not given to a new
client before its own event has been skipped.

`NoRace` excludes what a resolver thread does between those two calls of `close`, where it
may get the number that is closed a second time: `OwnDescriptors` is then false, as
section 3 says. `MemoryLeft` excludes a failing `malloc` in `socksv5_passive_accept`, which
uncounts a connection that was never counted: `CountersMatch` is then false, and a limit
that trusts the counter too. Both flags leave every other step, and so all states in
which the two do not happen, in the model; no other theorem of the module needs
`MemoryLeft`.

**The parsers.** For bytes of any number of values, addresses and messages of any length.
The automata have counters and states, the grammar has lengths and offsets; `IndInv` says
what each state means as a position in the message (`HelloAt`, `AuthAt`, `RequestAt`): which
bytes have been read, which counter has which value and which part of the input each
array holds. `Verdict` says that a parser stops only at the end of a message or at a byte
that is wrong. What is wrong is stated field by field (`Promising`), which TLC can evaluate;
`GoodIsKept` states it with whole messages only: after an error that is not an
`UnknownMethod`, no message of the RFCs, of any length, begins with the bytes received.
The counters of one byte do not wrap because the length that they
are compared with is a byte as well.

**The selector.** `NoLostWakeup` speaks of `pselect` only. `WakeupPending` extends
it to every place where the mutex is free; it is inductive because jobs are added
with the mutex free and the signal still to come, and the signal is consumed only on
the way to the visit of the list, at whose end the list is empty. `SetsMatchItems`
is inductive with the types; that `items_max_fd` finds a maximum for every table is
a consequence of the well-foundedness of the natural numbers.

**The buffer and the register.** The invariants are inductive as they stand; each
operation is shown to be the step, or the stuttering, of the abstract specification
by comparing two sequences element by element.

**The table of users.** For every set of names, every number of chains and every hash
function: an entry is in the chain of its name and a name is in one entry only
(`ChainsWellFormed`), which is inductive with the types. `auth_remove_user` takes out
the first entry of a name; that no second one is left, and so that the removed user is
not accepted any more, is what the invariant is needed for. Lemmas say what an insertion
at the head and a removal from the middle do to the entries of a chain; each operation
is then the step of `Credentials` of that name.

**The administration.** For buffers and sockets of any size, any lines in any pieces, and
any table of users. An answer is in up to three places at once: read, in the socket, and
in `out_data`, between the pointers of `out_buff`. `Delivered` says that these, put
together, are all that was answered. What has to be known for that is that nothing else
writes there: `recv` writes in front of `InCap`, but the newline that is overwritten with a NUL
is where `strchr` finds one, which may be an answer in `out_data`. Then the newline is
past the bytes received, and the process ends in the same step, at the assertion of
`buffer_read_adv`; otherwise it is in `in_data`. `Bounds` has the pointers and, because
`buffer_compact` follows every `send` and the interest is READ again only then, room for the
terminator whenever a command is read. `NulBehind` is what makes `strchr` stop inside
the memory: the NUL that `snprintf` wrote behind the last answer, or one further on.

`CommandsInOrder` speaks of lines that arrive whole, which a full `in_buff` cuts all the
same. `InOrder` adds that what waits and what is on its way are whole lines that fit
`in_buff` (`Rows`), and that what waits in `in_buff` is whole lines until it is full. So a
`recv`, which needs room, finds or completes a line, and the newline of the first one is
among the bytes received, where `strchr` finds it: nothing is discarded as too long. When
`in_buff` is full its end may be a part of a line, which is never completed: after
the lines in front of it have been taken `recv` is called without room, and the connection
is closed.

`ServerStays` needs a third invariant, whose parts need one another (`LineByLine`).
`InOrder` is the case of lines sent ahead of the answers. `OneLine` is the case of lines
in two pieces, each sent after the answer to the last one: nothing waits in `in_buff`
between two steps, and no newline is left in `in_data`, whose last cell is a NUL (`Clean`): a
first piece without its newline is discarded, but `strchr` stops behind it and does not
find the newline of an answer in `out_data`, past what has been received. `Loaded` says
that something waits in `out_buff` whenever the interest is WRITE, for which no answer may
be empty: `auth_list_users` is a recursive function over the chains, and that it has a
value at all, a text that ends with END, is a lemma. `Answered` says of an administrator
that has left after all its answers that the interest is READ and nothing is on its
way, so that no `send` fails.

`ShownInFull` is about the program `admin_client`, which takes the first `read` for the
whole answer. `TakesTurns` says why it may, while nothing is cut: a command that is on its
way has no answer in front of it, an answer that is in the socket has left `out_buff` entirely, and
when the program prompts there is neither. With that, every command it sends is sent after
the answer to the last one, which is the case of `OneLine`: the `recv` that finds `in_buff`
empty takes it whole.

Two corrections of the model came from the attempt to prove more. `ServerStays` was
true of the lines in the run, and false for others: `admin_client` prompts early, so
that it may take a late BYE for the end and leave while a command is on its way; `rough` now says
`"gone"` of it. And a line of blanks can be cut out of a line that begins with a word,
which counts as `"blank"` now.

Only model-checked:

* The refinement of `Credentials` by `Admin`; the one by the table of users alone is proved
  in `AuthTableProofs`. A theorem for `Admin` would have to assume of the lines that
  whatever `recv` makes of them names only `Names`.
* Liveness: `BlockServed`, `EventServed`, `EveryPeerIsTaken`, `EveryCommandAnswered`,
  `RequestAnswered`, `FallbackWorks`, `UpstreamDelivered` and `DownstreamDelivered` rest on
  fairness, and so on `ENABLED`.

## 5. What is not modelled

* The logger and the command line: output, and a sequential parse of `argv` before
  anything else runs.
* Of the selector: the growth of the table, which the server never needs
  (`INITIAL_QUANTITY_FDS` is `FD_SETSIZE`).
* Of a connection: the contents of BND.ADDR and BND.PORT in replies. Which `errno` a failed
  `connect` leaves: the code of an error reply is any one of `ErrnoCodes`, of which the
  runs have one or two. The failure of `getsockopt` in `handle_write_connecting`
  (`socks5_connecting.c:86`) is not in `Socks5`, because a single connection cannot reach
  it: the socket of the event is open unless the next `socket` has failed, and then
  `pselect` finds the closed number and the process ends. With other
  connections, one of which may have been given that number, it is a step of `Server`
  (`Connected` with `ofd` at `NoFd`), which goes on as after a success, like the code; it
  needs the flag `"race"` and a full table, outside the run.
* Of the start: failures before the loop begins, and more than one address per
  listener. Of the end: the release of the tables (`auth_destroy`,
  `server_data_destroy`) after the last connection is closed, and what a resolver
  thread does that outlives them.
* Of the administration: names and passwords of 256 bytes, which do not fit their
  arrays; the text of the answers; the connection of `admin_client` to the server, and
  answers as long as its whole buffer. `passive_accept` writes the
  peer's address and port into the administration connection as if it were a SOCKS
  connection (`connection_helper.c:17`); the bytes it overwrites are not in the model.

## 6. Plan

What is left is an abstract `Connection` (negotiate, connect, relay, end) that `Socks5`
implements as long as the server is up, as a property of the runs first and then as a
theorem, for which the invariants of section 4 are the lemmas.
