------------------------------- MODULE Admin --------------------------------
(* One connection of the administration protocol: src/server/s5admin, the   *)
(* parser of its commands and the tables that the commands change.          *)
(*                                                                          *)
(* admin_read looks for the end of a line with strchr(), in the memory that *)
(* starts at the read pointer of in_buff: it stops at a newline or at a NUL *)
(* and not at the last byte received.  So the memory is in the model:       *)
(* in_data and, right behind it, out_data.  A cell of it holds a newline, a *)
(* NUL, a blank or a word: commands and answers are sequences of cells.     *)
(*                                                                          *)
(* The administrator is the program of src/admin_client, or any other that  *)
(* speaks the protocol.  Another administrator and the connections of the   *)
(* proxy use the table of users at the same time.                           *)
EXTENDS AuthTable, TLC

CONSTANTS
  InCap,    \* MAX_CMD_LEN
  OutCap,   \* MAX_RESPONSE_LEN
  SockCap,  \* cells that fit the socket before send() takes only a part
  Lines,    \* what the administrator may send
  MaxLines, \* how many lines it sends
  Env       \* what it may do beyond sending a line and waiting for the answer

(* "batch": a line follows before the previous one is answered; "split": a   *)
(* line, or an answer, arrives in two segments; "close", "reset": the        *)
(* connection ends; "others": the table of users is used by others;          *)
(* "program": the administrator uses the program admin_client; "stop": the   *)
(* server is asked to stop.                                                  *)
EnvFlags == {"batch", "split", "close", "reset", "others", "program", "stop"}

BUFF_MIN_LEN == 256
BUFF_DEFAULT_LEN == 131072
MAX_CONN_DEFAULT == 500

SetCommands == {"SET_LOGLEVEL", "SET_MAX_CONN", "SET_BUFF"}

Nl == "\n"
Nul == "NUL"
Blank == " "

ASSUME CapAssumption == /\ InCap \in Nat \ {0} /\ OutCap \in Nat \ {0, 1}
                        /\ SockCap \in Nat \ {0} /\ MaxLines \in Nat
ASSUME FlagsAssumption == Env \subseteq EnvFlags
ASSUME BucketsAssumption == /\ IsFiniteSet(Buckets)
                            /\ Buckets = 0..(Cardinality(Buckets) - 1)
(* A line ends with its newline. *)
ASSUME LinesAssumption ==
  \A l \in Lines : /\ l \in Seq(STRING) /\ l # << >> /\ l[Len(l)] = Nl
                   /\ \A i \in 1..(Len(l) - 1) : l[i] \notin {Nl, Nul}

VARIABLES
  srv,          \* the process
  conn,         \* the connection: "open" or "closed" (and freed)
  interest,
  mem,          \* in_data and out_data
  r_in, w_in,   \* the pointers of in_buff
  r_out, w_out, \* the pointers of out_buff
  config,       \* server_data and the level of the log
  csock,        \* the administrator's socket, as in Socks5
  c2s, s2c,     \* cells in flight
  unsent,       \* the rest of a line that has been sent in part
  prog,         \* admin_client: "prompt" or "wait"; "none" for another program
  asked,        \* lines the administrator has sent
  got,          \* cells it has read
  rough,        \* what it, or the network, has done beyond the minimum
  sent,         \* all that it has sent
  consumed,     \* all that has been taken as commands
  answers       \* all that has been answered

inbuf == <<r_in, w_in>>
outbuf == <<r_out, w_out>>
wire == <<c2s, s2c, unsent>>
client == <<csock, prog, asked, got, rough, sent>>
history == <<consumed, answers>>
vars == <<srv, conn, interest, mem, inbuf, outbuf, config, wire, client, history, table>>

Least(a, b) == IF a <= b THEN a ELSE b
Take(s, n) == SubSeq(s, 1, n)
Drop(s, n) == SubSeq(s, n + 1, Len(s))

Init ==
  /\ srv = "up" /\ conn = "open" /\ interest = "READ"
  /\ mem = [i \in 1..(InCap + OutCap) |-> Nul]
  /\ r_in = 0 /\ w_in = 0 /\ r_out = 0 /\ w_out = 0
  /\ config = [loglevel |-> "INFO", buffer_size |-> BUFF_DEFAULT_LEN, max_conn |-> MAX_CONN_DEFAULT]
  /\ csock = "open" /\ c2s = << >> /\ s2c = << >> /\ unsent = << >>
  /\ prog \in {"none"} \cup (IF "program" \in Env THEN {"prompt"} ELSE {})
  /\ asked = 0 /\ got = << >> /\ rough = {}
  /\ sent = << >> /\ consumed = << >> /\ answers = << >>
  /\ auth_init

-----------------------------------------------------------------------------
(* s5admin_parser.c and config.c.  A command is the words of its line. *)

expected_args ==
  [ADD_USER |-> 2, REMOVE_USER |-> 1, LIST_USERS |-> 0, GET_METRICS |-> 0,
   GET_ACCESS_REGISTER |-> 0, SET_LOGLEVEL |-> 1, SET_MAX_CONN |-> 1, SET_BUFF |-> 1,
   GET_CONFIG |-> 0, HELP |-> 0, PING |-> 0, EXIT |-> 0]

(* A known verb with neither too few nor too many arguments. *)
IsValid(words) == /\ words[1] \in DOMAIN expected_args
                  /\ Len(words) = 1 + expected_args[words[1]]

(* The numbers that the lines of an instance use. *)
atoi(w) == CASE w = "7" -> 7 [] w = "300" -> 300 [] OTHER -> 0

(* Whether the argument of a SET_ command is taken. *)
Accepted(words) ==
  CASE words[1] = "SET_LOGLEVEL" -> words[2] \in {"DEBUG", "INFO", "WARNING", "ERROR"}
    [] words[1] = "SET_MAX_CONN" -> atoi(words[2]) >= 1
    [] words[1] = "SET_BUFF" -> atoi(words[2]) >= BUFF_MIN_LEN

SetConfig(words) ==
  IF ~Accepted(words) THEN config
  ELSE CASE words[1] = "SET_LOGLEVEL" -> [config EXCEPT !.loglevel = words[2]]
         [] words[1] = "SET_MAX_CONN" -> [config EXCEPT !.max_conn = atoi(words[2])]
         [] words[1] = "SET_BUFF" -> [config EXCEPT !.buffer_size = atoi(words[2])]

(* What the handler of the command changes. *)
config_handler(words) ==
  IF ~IsValid(words) THEN UNCHANGED <<table, config>>
  ELSE CASE words[1] = "ADD_USER" -> auth_add_user(words[2], words[3]) /\ UNCHANGED config
         [] words[1] = "REMOVE_USER" -> auth_remove_user(words[2]) /\ UNCHANGED config
         [] words[1] \in SetCommands -> config' = SetConfig(words) /\ UNCHANGED table
         [] OTHER -> UNCHANGED <<table, config>>

(* auth_list_users: a line per entry, bucket by bucket. *)
auth_list_users ==
  LET lines[k \in 0..Cardinality(Buckets)] ==
        IF k = 0 THEN << >>
        ELSE lines[k - 1] \o
             [i \in 1..(2 * Len(hashmap[k - 1])) |->
                IF i % 2 = 1 THEN hashmap[k - 1][(i + 1) \div 2].name ELSE Nl]
  IN lines[Cardinality(Buckets)] \o <<"END", Nl>>

OkOr(ok) == IF ok THEN <<"OK", Nl>> ELSE <<"ERROR", Nl>>

(* The answer, given the outcome of the handler. *)
ResponseTo(words) ==
  CASE ~IsValid(words) -> OkOr(FALSE)
    [] IsValid(words) /\ words[1] \in {"ADD_USER", "REMOVE_USER"} -> OkOr(answer'[2])
    [] IsValid(words) /\ words[1] \in SetCommands -> OkOr(Accepted(words))
    [] words = <<"LIST_USERS">> -> auth_list_users
    [] words = <<"GET_CONFIG">> ->
         <<config.loglevel, Nl, ToString(config.buffer_size), Nl, ToString(config.max_conn), Nl, "END", Nl>>
    [] words = <<"PING">> -> <<"PONG", Nl>>
    [] words = <<"EXIT">> -> <<"BYE", Nl>>
    [] OTHER -> <<"TEXT", Nl, "END", Nl>>

-----------------------------------------------------------------------------
(* s5admin.c: reading a command. *)

(* Offsets start at 0, as the pointers do. *)
Write(m, at, cells) == Take(m, at) \o cells \o Drop(m, at + Len(cells))
Cells(m, from, to) == SubSeq(m, from + 1, to)

(* strchr: the first newline, unless a NUL comes before it. *)
strchr(m, from) ==
  CHOOSE i \in from..(Len(m) - 1) :
    /\ m[i + 1] \in {Nl, Nul}
    /\ \A j \in from..(i - 1) : m[j + 1] \notin {Nl, Nul}

IsWord(c) == c # Blank

\* mutant of admin_close: what has been freed is freed again
AdminClosesTwice ==
  /\ srv' = "aborted"
  /\ UNCHANGED <<conn, interest, mem, inbuf, outbuf, config, wire, client, history, table>>

admin_close ==
  /\ conn' = "closed"
  /\ UNCHANGED <<srv, interest, mem, inbuf, outbuf, config, wire, client, history, table>>

\* mutant of Respond: the interest is left alone
RespondUnnoticed(m, text) ==
  \E n \in 0..(OutCap - w_out - 1) :
    /\ n = Least(Len(text), OutCap - w_out - 1)
    /\ mem' = Write(m, InCap + w_out, Take(text, n) \o <<Nul>>)
    /\ w_out' = w_out + n
    /\ answers' = answers \o Take(text, n)
    /\ UNCHANGED interest

(* snprintf: the n cells that fit, with the NUL behind them. *)
Respond(m, text) ==
  \E n \in 0..(OutCap - w_out - 1) :
    /\ n = Least(Len(text), OutCap - w_out - 1)
    /\ mem' = Write(m, InCap + w_out, Take(text, n) \o <<Nul>>)
    /\ w_out' = w_out + n
    /\ answers' = answers \o Take(text, n)
    /\ interest' = "WRITE"

\* mutant of CommandRead: in_buff is reset after a command
CommandReadAll(len, w) == r_in' = 0 /\ w_in' = 0

(* buffer_read_adv. *)
CommandRead(len, w) ==
  IF r_in + len = w THEN r_in' = 0 /\ w_in' = 0
                    ELSE r_in' = r_in + len /\ w_in' = w

(* m is the memory after recv(), w the write pointer, e the end of the line. *)
Command(m, w, e) ==
  LET line == Cells(m, r_in, e)
      words == SelectSeq(line, IsWord)
      m0 == Write(m, e, <<Nul>>) IN
  /\ w_out < OutCap /\ e < w /\ (line # << >> => words # << >>)
  /\ IF line = << >>
       THEN \* an empty line is answered with a NUL
            /\ mem' = Write(m0, InCap + w_out, <<Nul>>)
            /\ w_out' = w_out + 1
            /\ answers' = Append(answers, Nul)
            /\ interest' = "WRITE"
            /\ UNCHANGED <<config, table>>
       ELSE /\ config_handler(words)
            /\ Respond(m0, ResponseTo(words))
  /\ CommandRead(e - r_in + 1, w)
  /\ consumed' = consumed \o line \o <<Nl>>
  /\ UNCHANGED srv

(* There is no room for an answer: the newline is gone, the command is not.  *)
CommandPostponed(m, w, e) ==
  /\ w_out = OutCap
  /\ mem' = Write(m, e, <<Nul>>) /\ w_in' = w
  /\ UNCHANGED <<srv, interest, r_in, w_out, config, table, history>>

(* strtok_r finds no word in a line of blanks, and strcmp gets NULL; or the  *)
(* newline is past what has been received, and the assertion of              *)
(* buffer_read_adv fails.                                                    *)
CommandAborts(m, w, e) ==
  /\ w_out < OutCap
  /\ e >= w \/ (e > r_in /\ \A i \in r_in..(e - 1) : m[i + 1] = Blank)
  /\ srv' = "aborted"
  /\ UNCHANGED <<interest, mem, r_in, w_in, w_out, config, table, history>>

(* No newline: the bytes are discarded, however few they are. *)
NoCommand(m, w) ==
  /\ IF w_out < OutCap
       THEN Respond(m, <<"LONG", Nl>>)
       ELSE mem' = m /\ UNCHANGED <<w_out, answers, interest>>
  /\ r_in' = 0 /\ w_in' = 0
  /\ UNCHANGED <<srv, config, table, consumed>>

Received ==
  /\ w_in < InCap /\ c2s # << >>
  /\ \E n \in {Least(Len(c2s), InCap - w_in)} :
     \E m \in {Write(mem, w_in, Take(c2s, n))} :
     \E e \in {strchr(m, r_in)} :
       /\ c2s' = Drop(c2s, n)
       /\ IF m[e + 1] = Nl
            THEN Command(m, w_in + n, e) \/ CommandPostponed(m, w_in + n, e) \/ CommandAborts(m, w_in + n, e)
            ELSE NoCommand(m, w_in + n)
  /\ UNCHANGED <<conn, r_out, s2c, unsent, client>>

Running == srv = "up" /\ conn = "open"

(* in_buff is full, or recv() returned no data. *)
Ended == w_in = InCap \/ csock = "reset" \/ (c2s = << >> /\ csock # "open")

admin_read ==
  /\ Running /\ interest = "READ"
  /\ c2s # << >> \/ csock # "open"
  /\ Received \/ (Ended /\ admin_close)

-----------------------------------------------------------------------------
(* s5admin.c: writing an answer. *)

Pending == Cells(mem, InCap + r_out, InCap + w_out)

\* mutant of SendSome: what send() did not take is dropped
SendAll(n) ==
  /\ s2c' = s2c \o Take(Pending, n)
  /\ r_out' = 0 /\ w_out' = 0 /\ UNCHANGED mem

(* buffer_read_adv and buffer_compact. *)
SendSome(n) ==
  /\ s2c' = s2c \o Take(Pending, n)
  /\ r_out' = 0 /\ w_out' = w_out - r_out - n
  /\ mem' = Write(mem, InCap, Drop(Pending, n))

Sent(n) ==
  /\ csock = "open" /\ n > 0
  /\ SendSome(n)
  /\ interest' = "READ" \* whether or not all of the answer has gone out
  /\ rough' = IF n < Len(Pending) THEN rough \cup {"partial"} ELSE rough
  /\ UNCHANGED <<srv, csock>>

(* The peer has closed its side and answers with a RST. *)
SentInVain ==
  /\ csock = "closed"
  /\ r_out' = 0 /\ w_out' = 0 /\ interest' = "READ"
  /\ csock' = "broken"
  /\ UNCHANGED <<srv, mem, s2c, rough>>

(* The connection has been reset: it is closed and freed twice; or SIGPIPE. *)
SendError ==
  /\ csock \in {"reset", "broken"}
  /\ srv' = IF csock = "reset" THEN "aborted" ELSE "killed"
  /\ UNCHANGED <<interest, mem, outbuf, s2c, csock, rough>>

(* With an empty out_buff it does nothing. *)
admin_write ==
  /\ Running /\ interest = "WRITE"
  /\ Sent(Least(Len(Pending), SockCap - Len(s2c))) \/ SentInVain \/ SendError
  /\ UNCHANGED <<conn, inbuf, config, c2s, unsent, prog, asked, got, sent, history, table>>

-----------------------------------------------------------------------------
(* The administrator, and the others. *)

server == <<srv, conn, interest, mem, inbuf, outbuf, config, history, table>>

Quiet == c2s \o unsent \o s2c = << >> /\ Len(got) = Len(answers) /\ consumed = sent

Notes(l, k) ==
  rough \cup (IF Quiet THEN {} ELSE {"batch"}) \cup (IF k < Len(l) THEN {"split"} ELSE {})
        \cup (IF Len(l) > InCap THEN {"long"} ELSE {})
        \cup (IF l[1] = Blank \/ (k < Len(l) /\ l[k + 1] = Blank) THEN {"blank"} ELSE {})

(* admin_client parses a line itself and sends it only if it is valid and    *)
(* fits its buffer.                                                          *)
Passes(l) ==
  LET words == SelectSeq(Take(l, Len(l) - 1), IsWord) IN
  Len(l) < InCap /\ words # << >> /\ IsValid(words)

ClientSends ==
  /\ csock = "open" /\ unsent = << >> /\ asked < MaxLines
  /\ \/ prog = "none" /\ (Quiet \/ "batch" \in Env) /\ UNCHANGED prog
     \/ prog = "prompt" /\ prog' = "wait"
  /\ \E l \in Lines : \E k \in 1..Len(l) :
       /\ prog = "prompt" => Passes(l)
       /\ k < Len(l) => "split" \in Env
       /\ c2s' = c2s \o Take(l, k) /\ unsent' = Drop(l, k)
       /\ sent' = sent \o l
       /\ rough' = Notes(l, k)
  /\ asked' = asked + 1
  /\ UNCHANGED <<server, csock, s2c, got>>

RestArrives ==
  /\ unsent # << >>
  /\ c2s' = c2s \o unsent /\ unsent' = << >>
  /\ UNCHANGED <<server, s2c, client>>

ClientReads ==
  /\ csock = "open" /\ prog = "none" /\ s2c # << >>
  /\ got' = got \o s2c /\ s2c' = << >>
  /\ UNCHANGED <<server, c2s, unsent, csock, prog, asked, rough, sent>>

\* mutant of ReadOf: sizeof() is taken of a pointer
ReadOfPointer(cells) == Take(cells, 1)

(* What read() returns of the bytes that have arrived. *)
ReadOf(cells) == cells

(* admin_client looks for the end of the answer in what it has read.  One of *)
(* the ends it looks for is the empty string, which is always found: after   *)
(* one read() it prompts for the next command.                               *)
ProgramReads ==
  /\ csock = "open" /\ prog = "wait" /\ s2c # << >>
  /\ \E k \in 1..Len(s2c) :
       LET resp == ReadOf(Take(s2c, k)) IN
       /\ k < Len(s2c) => "split" \in Env
       /\ got' = got \o resp /\ s2c' = Drop(s2c, Len(resp))
       /\ csock' = IF \E i \in 1..Len(resp) : resp[i] = "BYE" THEN "closed" ELSE csock
       /\ prog' = "prompt"
       /\ UNCHANGED <<server, c2s, unsent, asked, sent>>
       /\ rough' = rough \cup (IF k < Len(s2c) THEN {"partial"} ELSE {})
                         \cup (IF csock' = "closed" /\ ~Quiet' THEN {"gone"} ELSE {})

(* SIGTERM: selector_destroy closes the connection.  Only admin_client, when *)
(* it waits for an answer, can tell.                                         *)
ServerStops ==
  /\ Running /\ "stop" \in Env
  /\ csock = "open" /\ prog = "wait"
  /\ srv' = "stopped" /\ conn' = "closed"
  /\ UNCHANGED <<interest, mem, inbuf, outbuf, config, wire, client, history, table>>

(* The server is gone: read() returns 0 or an error. *)
ProgramEnds ==
  /\ csock = "open" /\ prog = "wait" /\ s2c = << >>
  /\ conn = "closed" \/ srv # "up"
  /\ csock' = "closed"
  /\ UNCHANGED <<server, wire, prog, asked, got, rough, sent>>

(* admin_client leaves at the end of its input, and fails for a line without *)
(* a word, as the server does.                                               *)
ClientLeaves ==
  /\ csock = "open" /\ conn = "open"
  /\ \/ "close" \in Env /\ csock' = "closed"
     \/ "reset" \in Env /\ csock' = "reset"
  /\ rough' = IF Quiet THEN rough ELSE rough \cup {"gone"}
  /\ UNCHANGED <<server, wire, prog, asked, got, sent>>

(* Another administrator adds and removes users, and a client logs in.  What *)
(* they do is told apart by the next command only: they do it while one is   *)
(* on its way, and, a bound, not while lines are cut into segments.          *)
Others ==
  /\ Running /\ "others" \in Env
  /\ c2s # << >> /\ csock = "open" /\ "split" \notin rough
  /\ AuthNext
  /\ UNCHANGED <<srv, conn, interest, mem, inbuf, outbuf, config, history, wire, client>>

Next == \/ admin_read \/ admin_write
        \/ ClientSends \/ RestArrives \/ ClientReads \/ ClientLeaves
        \/ ProgramReads \/ ProgramEnds
        \/ ServerStops
        \/ Others

Spec == Init /\ [][Next]_vars

(* The selector serves the connection, the network delivers, and the         *)
(* administrator reads.                                                      *)
FairSpec == /\ Spec
            /\ WF_vars(admin_read) /\ WF_vars(admin_write)
            /\ WF_vars(RestArrives) /\ WF_vars(ClientReads) /\ WF_vars(ProgramReads)

-----------------------------------------------------------------------------
(* Answers are appended while others wait in out_buff or in the socket, sent *)
(* in parts and moved by buffer_compact: what the administrator reads is     *)
(* what was answered, in that order.                                         *)
AnswersInOrder ==
  Running /\ csock = "open" => got \o s2c \o Pending = answers

(* "Cada comando y respuesta se transmite como una línea de texto terminada  *)
(* en \n" (S5Admin.md).  While lines arrive in one piece, however many at a  *)
(* time, what has been executed and what waits in in_buff and in the socket  *)
(* are together what the administrator has sent.                             *)
CommandsInOrder ==
  Running /\ rough \cap {"split", "long"} = {}
    => consumed \o Cells(mem, r_in, w_in) \o c2s \o unsent = sent

(* The assertion of buffer_read_adv, the NULL that strcmp may get and the    *)
(* double free of a failed send(): they need a line longer than in_buff (or  *)
(* one that a batch leaves cut at its end), a segment that begins with a     *)
(* blank, or an administrator that leaves before it has read its answer.     *)
ServerStays ==
  \/ srv \in {"up", "stopped"}
  \/ rough \cap {"long", "blank", "gone"} # {}
  \/ {"batch", "split"} \subseteq rough

(* "Respuesta: una línea por variable de configuración, luego END"           *)
(* (S5Admin.md): when admin_client prompts for the next command, it has      *)
(* shown the whole answer to the last one and nothing else, as long as every *)
(* command and every answer travels in one piece.                            *)
ShownInFull ==
  Running /\ csock = "open" /\ prog = "prompt" /\ rough \cap {"split", "partial"} = {}
    => got = answers /\ consumed = sent

(* An administrator that sends line after line and reads each answer gets    *)
(* every answer, unless the socket takes only a part of one.                 *)
EveryCommandAnswered ==
  ~Quiet ~> Quiet \/ rough # {} \/ csock # "open" \/ conn # "open"
=============================================================================
