---------------------------- MODULE Credentials -----------------------------
(* What the table of users promises: a user is registered with one password *)
(* until it is removed, an addition or removal says whether it took place,  *)
(* and a login succeeds for the registered password only.                   *)
CONSTANTS Names, Passwords

VARIABLES
  pass,  \* the password of every user, or None
  answer \* the last operation and what it returned

None == "none"

Init == pass = [n \in Names |-> None] /\ answer = <<"init", TRUE>>

(* An addition may fail for lack of memory. *)
Add(n, p) ==
  \/ /\ pass[n] = None
     /\ pass' = [pass EXCEPT ![n] = p]
     /\ answer' = <<"add", TRUE>>
  \/ answer' = <<"add", FALSE>> /\ UNCHANGED pass

Remove(n) ==
  /\ pass' = [pass EXCEPT ![n] = None]
  /\ answer' = <<"remove", pass[n] # None>>

Check(n, p) ==
  /\ answer' = <<"check", pass[n] = p>>
  /\ UNCHANGED pass

Next == \E n \in Names : \/ Remove(n)
                         \/ \E p \in Passwords : Add(n, p) \/ Check(n, p)

Spec == Init /\ [][Next]_<<pass, answer>>
=============================================================================
