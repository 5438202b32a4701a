--------------------------- MODULE AccessRegister ---------------------------
(* The access register of src/server/s5admin/access_register.c: a circular *)
(* queue of REGISTER_MAX_ENTRIES entries, filled by the connections and    *)
(* listed by the administration protocol.                                  *)
EXTENDS Naturals, Sequences

CONSTANTS Entry, \* what an entry may be
          Max    \* REGISTER_MAX_ENTRIES

ASSUME MaxAssumption == Max \in Nat \ {0}
ASSUME EntryAssumption == Entry # {}

VARIABLES entries, \* the array; malloc() leaves anything in it
          head,    \* the oldest entry
          tail,    \* where the next one goes
          count    \* how many there are

vars == <<entries, head, tail, count>>

Index == 0..(Max - 1)

Init == /\ entries \in [Index -> Entry]
        /\ head = 0 /\ tail = 0 /\ count = 0

\* mutant of access_register_add_entry: a full register keeps its head
AddKeepsHead(e) ==
  /\ entries' = [entries EXCEPT ![tail] = e]
  /\ tail' = (tail + 1) % Max
  /\ count' = IF count < Max THEN count + 1 ELSE count
  /\ UNCHANGED head

\* mutant of access_register_add_entry: the entry goes where the oldest one is
AddAtHead(e) ==
  /\ entries' = [entries EXCEPT ![head] = e]
  /\ tail' = (tail + 1) % Max
  /\ IF count < Max
       THEN count' = count + 1 /\ UNCHANGED head
       ELSE head' = (head + 1) % Max /\ UNCHANGED count

access_register_add_entry(e) ==
  /\ entries' = [entries EXCEPT ![tail] = e]
  /\ tail' = (tail + 1) % Max
  /\ IF count < Max
       THEN count' = count + 1 /\ UNCHANGED head
       ELSE head' = (head + 1) % Max /\ UNCHANGED count

(* The lines of the answer, between the heading and END.  The response      *)
(* buffer (100 KB) has room for all of them.                                *)
access_register_print == [i \in 1..count |-> entries[(head + i - 1) % Max]]

Next == \E e \in Entry : access_register_add_entry(e)

Spec == Init /\ [][Next]_vars

-----------------------------------------------------------------------------
TypeOK == /\ entries \in [Index -> Entry]
          /\ head \in Index /\ tail \in Index
          /\ count \in 0..Max

(* head, tail and count agree: add_entry writes behind the newest entry,     *)
(* over the oldest one when the register is full, and never over another.    *)
RingOrdered == tail = (head + count) % Max

(* Through any number of wrap-arounds the listing is that of the latest      *)
(* entries in their order, without a gap, a repetition or an entry that was  *)
(* never added.                                                              *)
Recent == INSTANCE RecentLog WITH recent <- access_register_print
RecentSpec == Recent!Spec
=============================================================================
