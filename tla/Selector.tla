------------------------------ MODULE Selector ------------------------------
(* The multiplexer of src/server/utils/selector.c: the table of registered *)
(* descriptors, the main loop around pselect(), and the hand-over of the   *)
(* results of blocking jobs from the resolver threads to the main thread.  *)
(*                                                                         *)
(* The handlers are the users of the selector.  While one runs (pc is      *)
(* "handler" or "block") it calls the operations of the selector in any    *)
(* order and any number of times.                                          *)
(*                                                                         *)
(* server.h sets INITIAL_QUANTITY_FDS to FD_SETSIZE, so the table is made   *)
(* for every valid descriptor at once and never grows.                     *)
EXTENDS Naturals, Sequences, FiniteSets

CONSTANTS SetSize, \* FD_SETSIZE
          Threads, \* resolver threads that may exist at a time
          Interest \* the interests the users ask for, subsets of Op

Op == {"READ", "WRITE"}
Fd == 0..(SetSize - 1)
Event == Fd \X Op

ASSUME SetSizeAssumption == SetSize \in Nat \ {0}
ASSUME InterestAssumption == Interest \subseteq SUBSET Op

VARIABLES
  pc,       \* where the main thread is
  used,     \* the descriptors whose item is in use
  interest, \* item->interest
  max_fd,   \* s->max_fd
  master,   \* master_r and master_w
  slave,    \* slave_r and slave_w: the events not yet looked at
  jobs,     \* s->resolution_jobs
  rest,     \* the part of the list that handle_block_notifications has to visit
  sig,      \* SIGALRM is pending: it is blocked outside of pselect()
  thr,      \* the resolver threads: [at, fd]
  ready,    \* what the kernel would report
  owed      \* descriptors whose blocking job has not been handed over yet

table == <<used, interest, max_fd, master>>
vars == <<pc, table, slave, jobs, rest, sig, thr, ready, owed>>

NoThread == [at |-> "none", fd |-> 0]

Init == /\ pc = "pselect"
        /\ used = {0} /\ interest = [f \in Fd |-> IF f = 0 THEN {"READ"} ELSE {}]
        /\ max_fd = 0 /\ master = {<<0, "READ">>}
        /\ slave = {}
        /\ jobs = << >> /\ rest = << >> /\ sig = FALSE
        /\ thr = [t \in Threads |-> NoThread]
        /\ ready = {} /\ owed = {}

-----------------------------------------------------------------------------
(* The operations. *)

InHandler == pc \in {"handler", "block"}

\* mutant of items_max_fd: the last item is not looked at
MaxFdTooLow(u) == CHOOSE m \in Fd : /\ m + 1 \in u \/ m = 0
                                    /\ \A f \in u : f <= m + 1

(* The largest descriptor in use, 0 when there is none. *)
items_max_fd(u) == CHOOSE m \in u \cup {0} : \A f \in u : f <= m

\* mutant of items_update_fdset_for_fd: the old bits are not cleared
UpdateKeepsBits(f, i) == master' = master \cup ({f} \X i)

items_update_fdset_for_fd(f, i) == master' = (master \ ({f} \X Op)) \cup ({f} \X i)

selector_register(f, i) ==
  /\ InHandler /\ f \notin used
  /\ used' = used \cup {f}
  /\ interest' = [interest EXCEPT ![f] = i]
  /\ max_fd' = IF f > max_fd THEN f ELSE max_fd
  /\ items_update_fdset_for_fd(f, i)
  /\ UNCHANGED <<pc, slave, jobs, rest, sig, thr, ready, owed>>

(* handle_close closes the descriptor, the kernel forgets it. *)
selector_unregister_fd(f) ==
  /\ InHandler /\ f \in used
  /\ used' = used \ {f}
  /\ interest' = [interest EXCEPT ![f] = {}]
  /\ max_fd' = items_max_fd(used \ {f})
  /\ items_update_fdset_for_fd(f, {})
  /\ ready' = ready \ ({f} \X Op)
  /\ UNCHANGED <<pc, slave, jobs, rest, sig, thr, owed>>

selector_set_interest(f, i) ==
  /\ InHandler /\ f \in used
  /\ interest' = [interest EXCEPT ![f] = i]
  /\ items_update_fdset_for_fd(f, i)
  /\ UNCHANGED <<pc, used, max_fd, slave, jobs, rest, sig, thr, ready, owed>>

-----------------------------------------------------------------------------
(* selector_notify_block, by a resolver thread and by the main thread. *)

(* The main thread holds resolution_mutex. *)
Locked == pc \in {"jobs", "block"}

(* A read handler starts a thread for a connection that has none. *)
StartThread(t, f) ==
  /\ pc = "handler" /\ f \in used \ owed /\ thr[t].at = "none"
  /\ thr' = [thr EXCEPT ![t] = [at |-> "working", fd |-> f]]
  /\ owed' = owed \cup {f}
  /\ UNCHANGED <<pc, table, slave, jobs, rest, sig, ready>>

\* mutant of QueueJob: the mutex is not taken
QueueUnlocked(t) ==
  /\ thr[t].at = "working"
  /\ jobs' = <<thr[t].fd>> \o jobs
  /\ thr' = [thr EXCEPT ![t].at = "queued"]
  /\ UNCHANGED <<pc, table, slave, rest, sig, ready, owed>>

QueueJob(t) ==
  /\ thr[t].at = "working" /\ ~Locked
  /\ jobs' = <<thr[t].fd>> \o jobs
  /\ thr' = [thr EXCEPT ![t].at = "queued"]
  /\ UNCHANGED <<pc, table, slave, rest, sig, ready, owed>>

\* mutant of WakeSelector: the selector is left to find the job by itself
WakeNobody(t) ==
  /\ thr[t].at = "queued"
  /\ thr' = [thr EXCEPT ![t] = NoThread]
  /\ UNCHANGED <<pc, table, slave, jobs, rest, sig, ready, owed>>

(* pthread_kill, after the mutex has been released. *)
WakeSelector(t) ==
  /\ thr[t].at = "queued"
  /\ sig' = TRUE
  /\ thr' = [thr EXCEPT ![t] = NoThread]
  /\ UNCHANGED <<pc, table, slave, jobs, rest, ready, owed>>

(* A literal address needs no thread: the handler itself notifies. *)
NotifySelf(f) ==
  /\ pc = "handler" /\ f \in used \ owed
  /\ jobs' = <<f>> \o jobs
  /\ sig' = TRUE
  /\ owed' = owed \cup {f}
  /\ UNCHANGED <<pc, table, slave, rest, thr, ready>>

-----------------------------------------------------------------------------
(* selector_select *)

(* pselect() looks at the descriptors below its first argument only. *)
Reported == {e \in master \cap ready : e[1] < max_fd + 1}

(* pselect() reports events, or nothing after the timeout.  *)
SelectReturns ==
  /\ pc = "pselect"
  /\ Reported # {} \/ ~sig
  /\ slave' = Reported
  /\ pc' = "iterate"
  /\ UNCHANGED <<table, jobs, rest, sig, thr, ready, owed>>

(* EINTR: handle_iteration is skipped. *)
SelectInterrupted ==
  /\ pc = "pselect" /\ sig
  /\ sig' = FALSE
  /\ pc' = "jobs" /\ rest' = jobs
  /\ UNCHANGED <<table, slave, jobs, thr, ready, owed>>

(* The order of the loop: by descriptor, a read before a write. *)
FirstEvent == CHOOSE e \in slave : \A d \in slave :
                e[1] < d[1] \/ (e[1] = d[1] /\ (e[2] = "READ" \/ d[2] = "WRITE"))

(* The next event.  An earlier handler of this round may have unregistered  *)
(* the descriptor or dropped the interest.  A handler consumes the event.   *)
handle_iteration ==
  /\ pc = "iterate" /\ slave # {}
  /\ LET e == FirstEvent IN
       /\ slave' = slave \ {e}
       /\ IF e[1] \in used /\ e[2] \in interest[e[1]]
            THEN pc' = "handler" /\ ready' = ready \ {e}
            ELSE UNCHANGED <<pc, ready>>
  /\ UNCHANGED <<table, jobs, rest, sig, thr, owed>>

(* handle_block_notifications takes the mutex for the whole visit. *)
LockJobs ==
  /\ pc = "iterate" /\ slave = {}
  /\ pc' = "jobs" /\ rest' = jobs
  /\ UNCHANGED <<table, slave, jobs, sig, thr, ready, owed>>

VisitJob ==
  /\ pc = "jobs" /\ rest # << >>
  /\ rest' = Tail(rest)
  /\ owed' = owed \ {Head(rest)}
  /\ pc' = IF Head(rest) \in used THEN "block" ELSE "jobs"
  /\ UNCHANGED <<table, slave, jobs, sig, thr, ready>>

UnlockJobs ==
  /\ pc = "jobs" /\ rest = << >>
  /\ jobs' = << >>
  /\ pc' = "pselect"
  /\ UNCHANGED <<table, slave, rest, sig, thr, ready, owed>>

HandlerReturns ==
  /\ InHandler
  /\ pc' = IF pc = "handler" THEN "iterate" ELSE "jobs"
  /\ UNCHANGED <<table, slave, jobs, rest, sig, thr, ready, owed>>

(* The kernel: something that a user may wait for happens on an open        *)
(* descriptor.                                                              *)
KernelEvent ==
  /\ \E e \in (used \X UNION Interest) \ ready : ready' = ready \cup {e}
  /\ UNCHANGED <<pc, table, slave, jobs, rest, sig, thr, owed>>

-----------------------------------------------------------------------------
MainThread == \/ SelectReturns \/ SelectInterrupted \/ handle_iteration
              \/ LockJobs \/ VisitJob \/ UnlockJobs \/ HandlerReturns

Next == \/ MainThread
        \/ \E f \in Fd, i \in Interest : selector_register(f, i) \/ selector_set_interest(f, i)
        \/ \E f \in Fd : selector_unregister_fd(f) \/ NotifySelf(f)
        \/ \E t \in Threads, f \in Fd : StartThread(t, f)
        \/ \E t \in Threads : QueueJob(t) \/ WakeSelector(t)
        \/ KernelEvent

Spec == Init /\ [][Next]_vars

(* main calls selector_select() for ever, handlers return, getaddrinfo()     *)
(* returns, and a resolver that waits for the mutex gets it some time: the   *)
(* main thread releases it in every round, before it sleeps in pselect().    *)
FairSpec == /\ Spec
            /\ WF_vars(MainThread)
            /\ \A t \in Threads : SF_vars(QueueJob(t)) /\ WF_vars(WakeSelector(t))

-----------------------------------------------------------------------------
TypeOK ==
  /\ pc \in {"pselect", "iterate", "handler", "jobs", "block"}
  /\ used \subseteq Fd /\ max_fd \in Fd
  /\ interest \in [Fd -> SUBSET Op]
  /\ master \subseteq Event /\ slave \subseteq Event /\ ready \subseteq Event
  /\ jobs \in Seq(Fd) /\ rest \in Seq(Fd)
  /\ sig \in BOOLEAN
  /\ thr \in [Threads -> [at : {"none", "working", "queued"}, fd : Fd]]
  /\ owed \subseteq Fd

(* What is passed to pselect() is what the items say, after any sequence of   *)
(* operations: no descriptor that has been unregistered (and closed) is       *)
(* watched, and none that is wanted lies at or beyond the first argument.     *)
SetsMatchItems ==
  /\ master = {e \in Event : e[1] \in used /\ e[2] \in interest[e[1]]}
  /\ \A f \in used : f <= max_fd
  /\ max_fd \in used \cup {0}

(* The job of a resolver is never left in the list while the main thread      *)
(* sleeps without a signal on its way, wherever in selector_select() the      *)
(* main thread is when the resolver queues the job.                           *)
NoLostWakeup ==
  pc = "pselect" /\ jobs # << >> => sig \/ \E t \in Threads : thr[t].at = "queued"

(* Every blocking job is handed over, however many are queued at once.        *)
BlockServed == \A f \in Fd : f \in owed ~> f \notin owed

(* An event on a watched descriptor reaches its handler, or is no longer      *)
(* wanted: a busy descriptor with a low number does not starve one with a     *)
(* higher number, and neither do the signals, each of which skips a round.    *)
EventServed ==
  \A e \in Event : e \in master \cap ready ~> e \notin master \cap ready
=============================================================================
