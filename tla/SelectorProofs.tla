--------------------------- MODULE SelectorProofs ---------------------------
(* What holds of the selector for every FD_SETSIZE, every number of         *)
(* resolver threads and every set of interests.                             *)
EXTENDS Selector, TLAPS, WellFoundedInduction, SequenceTheorems

(* NoLostWakeup speaks of the moment of pselect() only.  The step from the  *)
(* handlers to pselect() goes through the visit of the list, which needs    *)
(* the same fact wherever the mutex is free, and that nobody adds a job     *)
(* while the main thread holds it.                                          *)
WakeupPending ==
  ~Locked /\ jobs # << >> => sig \/ \E t \in Threads : thr[t].at = "queued"

IndInv == TypeOK /\ SetsMatchItems /\ WakeupPending

-----------------------------------------------------------------------------
(* Every set of descriptors has the largest element that items_max_fd looks *)
(* for, 0 standing for the one of an empty table.                           *)
LEMMA MaxFdIs ==
  ASSUME NEW u \in SUBSET Fd
  PROVE  /\ items_max_fd(u) \in u \cup {0}
         /\ \A f \in u : f <= items_max_fd(u)
         /\ items_max_fd(u) \in Fd
<1> DEFINE S == u \cup {0}
           T == {SetSize - 1 - f : f \in S}
<1>1. S \subseteq Fd /\ \A f \in Fd : SetSize - 1 - f \in Nat
  BY SetSizeAssumption DEF Fd
<1>2. T \subseteq Nat /\ T # {}
  BY <1>1
<1>3. PICK x \in T : \A y \in T : ~(<<y, x>> \in OpToRel(<, Nat))
  BY <1>2, NatLessThanWellFounded, WFMin
<1>4. \A y \in T : ~(y < x)
  BY <1>2, <1>3 DEF OpToRel
<1>5. PICK m \in S : x = SetSize - 1 - m
  BY <1>3
<1>6. ASSUME NEW f \in u PROVE f <= m
  <2>1. f \in Nat /\ m \in Nat /\ SetSize - 1 - f \in T
    BY <1>1 DEF Fd
  <2>2. ~(SetSize - 1 - f < SetSize - 1 - m)
    BY <1>4, <1>5, <2>1, Zenon
  <2> QED BY <2>1, <2>2, SetSizeAssumption
<1>7. \E n \in u \cup {0} : \A f \in u : f <= n
  BY <1>6
<1>8. /\ items_max_fd(u) \in u \cup {0}
      /\ \A f \in u : f <= items_max_fd(u)
  BY <1>7 DEF items_max_fd
<1> QED BY <1>1, <1>8

(* The bits of a descriptor that is not touched stay, and those of the      *)
(* other become what its item says.                                         *)
LEMMA MasterUpdated ==
  ASSUME TypeOK, SetsMatchItems, NEW f \in Fd, NEW i \in SUBSET Op,
         items_update_fdset_for_fd(f, i),
         interest' = [interest EXCEPT ![f] = i],
         f \in used' \/ i = {},
         \A g \in Fd : g # f => (g \in used' <=> g \in used)
  PROVE  master' = {e \in Event : e[1] \in used' /\ e[2] \in interest'[e[1]]}
<1>1. ASSUME NEW g \in Fd, NEW o \in Op
      PROVE  <<g, o>> \in master' <=> g \in used' /\ o \in interest'[g]
  <2>1. <<g, o>> \in master <=> g \in used /\ o \in interest[g]
    BY DEF SetsMatchItems, Event
  <2>2. interest'[g] = IF g = f THEN i ELSE interest[g]
    BY DEF TypeOK
  <2>3. <<g, o>> \in master' <=> (g # f /\ <<g, o>> \in master) \/ (g = f /\ o \in i)
    BY DEF items_update_fdset_for_fd
  <2> QED BY <2>1, <2>2, <2>3
<1>2. master' \subseteq Event
  BY DEF items_update_fdset_for_fd, TypeOK, Event
<1> QED BY <1>1, <1>2 DEF Event

(* A job put in front of the list leaves a list of descriptors that is not  *)
(* empty.                                                                   *)
LEMMA JobAdded ==
  ASSUME NEW q \in Seq(Fd), NEW f \in Fd
  PROVE  <<f>> \o q \in Seq(Fd)
BY ConcatProperties

-----------------------------------------------------------------------------
(* Types: every operation, handler and signal keeps them; the jobs are      *)
(* descriptors of the table and max_fd is one too.                          *)
LEMMA TypeStep == TypeOK /\ [Next]_vars => TypeOK'
<1> SUFFICES ASSUME TypeOK, [Next]_vars PROVE TypeOK'
  OBVIOUS
<1> USE DEF TypeOK
<1>1. CASE SelectReturns
  BY <1>1 DEF SelectReturns, Reported, table
<1>2. CASE SelectInterrupted
  BY <1>2 DEF SelectInterrupted, table
<1>3. CASE handle_iteration
  <2>1. slave' \subseteq slave /\ ready' \subseteq ready /\ pc' \in {pc, "handler"}
    BY <1>3 DEF handle_iteration
  <2> QED BY <1>3, <2>1 DEF handle_iteration, table
<1>4. CASE LockJobs
  BY <1>4 DEF LockJobs, table
<1>5. CASE VisitJob
  <2>1. Tail(rest) \in Seq(Fd)
    BY <1>5, HeadTailProperties DEF VisitJob
  <2> QED BY <1>5, <2>1 DEF VisitJob, table
<1>6. CASE UnlockJobs
  BY <1>6 DEF UnlockJobs, table
<1>7. CASE HandlerReturns
  BY <1>7 DEF HandlerReturns, table
<1>8. ASSUME NEW f \in Fd, NEW i \in Interest, selector_register(f, i) PROVE TypeOK'
  BY <1>8, InterestAssumption DEF selector_register, items_update_fdset_for_fd, Event
<1>9. ASSUME NEW f \in Fd, NEW i \in Interest, selector_set_interest(f, i) PROVE TypeOK'
  BY <1>9, InterestAssumption DEF selector_set_interest, items_update_fdset_for_fd, Event
<1>10. ASSUME NEW f \in Fd, selector_unregister_fd(f) PROVE TypeOK'
  <2>1. items_max_fd(used \ {f}) \in Fd
    BY MaxFdIs
  <2> QED BY <1>10, <2>1 DEF selector_unregister_fd, items_update_fdset_for_fd, Event
<1>11. ASSUME NEW f \in Fd, NotifySelf(f) PROVE TypeOK'
  <2>1. <<f>> \o jobs \in Seq(Fd)
    BY JobAdded
  <2> QED BY <1>11, <2>1 DEF NotifySelf, table
<1>12. ASSUME NEW t \in Threads, NEW f \in Fd, StartThread(t, f) PROVE TypeOK'
  BY <1>12 DEF StartThread, table
<1>13. ASSUME NEW t \in Threads, QueueJob(t) PROVE TypeOK'
  <2>1. <<thr[t].fd>> \o jobs \in Seq(Fd)
    BY JobAdded
  <2> QED BY <1>13, <2>1 DEF QueueJob, table
<1>14. ASSUME NEW t \in Threads, WakeSelector(t) PROVE TypeOK'
  BY <1>14, SetSizeAssumption DEF WakeSelector, table, NoThread, Fd
<1>15. CASE KernelEvent
  <2>1. PICK e \in (used \X UNION Interest) \ ready : ready' = ready \cup {e}
    BY <1>15 DEF KernelEvent
  <2>2. e \in Event
    BY InterestAssumption DEF Event
  <2> QED BY <1>15, <2>1, <2>2 DEF KernelEvent, table
<1>16. CASE UNCHANGED vars
  BY <1>16 DEF vars, table
<1> QED BY <1>1, <1>2, <1>3, <1>4, <1>5, <1>6, <1>7, <1>8, <1>9, <1>10, <1>11, <1>12,
           <1>13, <1>14, <1>15, <1>16 DEF Next, MainThread

(* The table: only three operations write it. *)
LEMMA SetsStep == TypeOK /\ SetsMatchItems /\ [Next]_vars => SetsMatchItems'
<1> SUFFICES ASSUME TypeOK, SetsMatchItems, [Next]_vars PROVE SetsMatchItems'
  OBVIOUS
<1>1. CASE UNCHANGED table
  BY <1>1 DEF table, SetsMatchItems
<1>2. ASSUME NEW f \in Fd, NEW i \in Interest, selector_register(f, i) PROVE SetsMatchItems'
  <2>1. master' = {e \in Event : e[1] \in used' /\ e[2] \in interest'[e[1]]}
    BY <1>2, MasterUpdated, InterestAssumption DEF selector_register
  <2>2. (\A g \in used' : g <= max_fd') /\ max_fd' \in used' \cup {0}
    BY <1>2, SetSizeAssumption DEF selector_register, SetsMatchItems, TypeOK, Fd
  <2> QED BY <2>1, <2>2 DEF SetsMatchItems
<1>3. ASSUME NEW f \in Fd, NEW i \in Interest, selector_set_interest(f, i) PROVE SetsMatchItems'
  <2>1. master' = {e \in Event : e[1] \in used' /\ e[2] \in interest'[e[1]]}
    BY <1>3, MasterUpdated, InterestAssumption DEF selector_set_interest
  <2> QED BY <1>3, <2>1 DEF SetsMatchItems, selector_set_interest
<1>4. ASSUME NEW f \in Fd, selector_unregister_fd(f) PROVE SetsMatchItems'
  <2>1. master' = {e \in Event : e[1] \in used' /\ e[2] \in interest'[e[1]]}
    BY <1>4, MasterUpdated DEF selector_unregister_fd
  <2>2. (\A g \in used' : g <= max_fd') /\ max_fd' \in used' \cup {0}
    BY <1>4, MaxFdIs DEF selector_unregister_fd, TypeOK
  <2> QED BY <2>1, <2>2 DEF SetsMatchItems
<1> QED BY <1>1, <1>2, <1>3, <1>4 DEF Next, MainThread, vars, SelectReturns,
     SelectInterrupted, handle_iteration, LockJobs, VisitJob, UnlockJobs, HandlerReturns,
     NotifySelf, StartThread, QueueJob, WakeSelector, KernelEvent

(* The wake-up: whoever adds a job has yet to send the signal or has sent   *)
(* it, and the signal is consumed only on the way to the visit of the list. *)
LEMMA WakeupStep == TypeOK /\ WakeupPending /\ [Next]_vars => WakeupPending'
<1> SUFFICES ASSUME TypeOK, WakeupPending, [Next]_vars PROVE WakeupPending'
  OBVIOUS
<1> USE DEF WakeupPending, Locked
<1>1. CASE SelectReturns
  BY <1>1 DEF SelectReturns
<1>2. CASE SelectInterrupted
  BY <1>2 DEF SelectInterrupted
<1>3. CASE handle_iteration
  BY <1>3 DEF handle_iteration
<1>4. CASE LockJobs
  BY <1>4 DEF LockJobs
<1>5. CASE VisitJob
  BY <1>5 DEF VisitJob
<1>6. CASE UnlockJobs
  BY <1>6 DEF UnlockJobs
<1>7. CASE HandlerReturns
  BY <1>7 DEF HandlerReturns, InHandler
<1>8. ASSUME NEW f \in Fd, NEW i \in Interest,
             selector_register(f, i) \/ selector_set_interest(f, i)
      PROVE  WakeupPending'
  BY <1>8 DEF selector_register, selector_set_interest
<1>9. ASSUME NEW f \in Fd, selector_unregister_fd(f) PROVE WakeupPending'
  BY <1>9 DEF selector_unregister_fd
<1>10. ASSUME NEW f \in Fd, NotifySelf(f) PROVE WakeupPending'
  BY <1>10 DEF NotifySelf
<1>11. ASSUME NEW t \in Threads, NEW f \in Fd, StartThread(t, f) PROVE WakeupPending'
  <2>1. \A u \in Threads : thr[u].at = "queued" => thr'[u].at = "queued"
    BY <1>11 DEF StartThread, TypeOK
  <2> QED BY <1>11, <2>1 DEF StartThread
<1>12. ASSUME NEW t \in Threads, QueueJob(t) PROVE WakeupPending'
  <2>1. thr'[t].at = "queued"
    BY <1>12 DEF QueueJob, TypeOK
  <2> QED BY <2>1
<1>13. ASSUME NEW t \in Threads, WakeSelector(t) PROVE WakeupPending'
  BY <1>13 DEF WakeSelector
<1>14. CASE KernelEvent
  BY <1>14 DEF KernelEvent
<1>15. CASE UNCHANGED vars
  BY <1>15 DEF vars
<1> QED BY <1>1, <1>2, <1>3, <1>4, <1>5, <1>6, <1>7, <1>8, <1>9, <1>10, <1>11, <1>12,
           <1>13, <1>14, <1>15 DEF Next, MainThread

(* All three, from the table that main leaves to the first selector_select. *)
LEMMA SelectorInvariant == Spec => []IndInv
<1>1. Init => IndInv
  <2> SUFFICES ASSUME Init PROVE IndInv
    OBVIOUS
  <2>1. 0 \in Fd
    BY SetSizeAssumption DEF Fd
  <2>2. TypeOK
    <3>1. thr \in [Threads -> [at : {"none", "working", "queued"}, fd : Fd]]
      BY <2>1 DEF Init, NoThread
    <3>2. interest \in [Fd -> SUBSET Op]
      BY DEF Init, Op
    <3>3. master \subseteq Event
      BY <2>1 DEF Init, Event, Op
    <3>4. jobs \in Seq(Fd) /\ rest \in Seq(Fd)
      BY DEF Init
    <3>5. /\ pc \in {"pselect", "iterate", "handler", "jobs", "block"} /\ sig \in BOOLEAN
          /\ used \subseteq Fd /\ max_fd \in Fd
          /\ slave \subseteq Event /\ ready \subseteq Event /\ owed \subseteq Fd
      BY <2>1 DEF Init
    <3> QED BY <3>1, <3>2, <3>3, <3>4, <3>5 DEF TypeOK
  <2>3. SetsMatchItems
    <3>1. master = {e \in Event : e[1] \in used /\ e[2] \in interest[e[1]]}
      BY <2>1 DEF Init, Event, Op
    <3> QED BY <2>1, <3>1 DEF Init, SetsMatchItems
  <2> QED BY <2>2, <2>3 DEF Init, IndInv, WakeupPending
<1>2. IndInv /\ [Next]_vars => IndInv'
  BY TypeStep, SetsStep, WakeupStep DEF IndInv
<1> QED BY <1>1, <1>2, PTL DEF Spec

-----------------------------------------------------------------------------
(* What is passed to pselect() is what the items say, for every FD_SETSIZE, *)
(* after any sequence of registrations, changes of interest and removals.   *)
THEOREM WatchedIsWanted == Spec => [](TypeOK /\ SetsMatchItems)
<1>1. IndInv => TypeOK /\ SetsMatchItems
  BY DEF IndInv
<1> QED BY <1>1, SelectorInvariant, PTL

(* selector_notify_block by any number of threads, and by the main thread,  *)
(* never leaves a job behind a pselect() that sleeps.                       *)
THEOREM WakeupIsNotLost == Spec => []NoLostWakeup
<1>1. IndInv => NoLostWakeup
  BY DEF IndInv, WakeupPending, NoLostWakeup, Locked
<1> QED BY <1>1, SelectorInvariant, PTL
=============================================================================
