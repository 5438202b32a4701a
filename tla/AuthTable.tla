----------------------------- MODULE AuthTable ------------------------------
(* The hash table of users of src/server/utils/auth_table.c: an array of    *)
(* chains, new entries at the head.  The command line and the               *)
(* administration protocol change it, and the connections of the proxy look *)
(* their users up in it.                                                    *)
(*                                                                          *)
(* Names and passwords are the ones that fit an entry (255 bytes).          *)
EXTENDS Integers, Sequences, FiniteSets

CONSTANTS
  Names, Passwords,
  Buckets, \* the indices of hashmap
  hash(_)  \* which bucket a name belongs to

None == "none"
Entry == [name : Names, pass : Passwords]

ASSUME HashAssumption == \A n \in Names : hash(n) \in Buckets
ASSUME PasswordsAssumption == None \notin Passwords

VARIABLES
  hashmap,
  answer \* the last operation and what it returned

Find(chain, n) == {i \in 1..Len(chain) : chain[i].name = n}
First(S) == CHOOSE i \in S : \A j \in S : i <= j

Has(n) == Find(hashmap[hash(n)], n) # {}

\* mutant of Unlinked: the chain is cut at the entry
UnlinkedTail(chain, i) == SubSeq(chain, 1, i - 1)

(* The chain without its i-th entry. *)
Unlinked(chain, i) == SubSeq(chain, 1, i - 1) \o SubSeq(chain, i + 1, Len(chain))

auth_init == hashmap = [b \in Buckets |-> << >>] /\ answer = <<"init", TRUE>>

(* The name is not in its chain; or it is, or there is no memory for the     *)
(* entry.                                                                    *)
auth_add_user(n, p) ==
  \/ /\ ~Has(n)
     /\ hashmap' = [hashmap EXCEPT ![hash(n)] = <<[name |-> n, pass |-> p]>> \o @]
     /\ answer' = <<"add", TRUE>>
  \/ answer' = <<"add", FALSE>> /\ UNCHANGED hashmap

(* The first entry of that name is taken out of its chain. *)
auth_remove_user(n) ==
  \/ /\ Has(n)
     /\ hashmap' = [hashmap EXCEPT ![hash(n)] = Unlinked(@, First(Find(@, n)))]
     /\ answer' = <<"remove", TRUE>>
  \/ /\ ~Has(n)
     /\ answer' = <<"remove", FALSE>>
     /\ UNCHANGED hashmap

(* Any entry of the chain with that name and that password. *)
Matches(n, p) == \E i \in Find(hashmap[hash(n)], n) : hashmap[hash(n)][i].pass = p

auth_check_credentials(n, p) ==
  /\ answer' = <<"check", Matches(n, p)>>
  /\ UNCHANGED hashmap

AuthNext == \E n \in Names : \/ auth_remove_user(n)
                             \/ \E p \in Passwords : \/ auth_add_user(n, p)
                                                     \/ auth_check_credentials(n, p)

table == <<hashmap, answer>>
AuthSpec == auth_init /\ [][AuthNext]_table

-----------------------------------------------------------------------------
TableOK == /\ hashmap \in [Buckets -> Seq(Entry)]
           /\ answer \in {"init", "add", "remove", "check"} \X BOOLEAN

(* An entry is in the chain of its name, and a name is in one entry only:    *)
(* otherwise a removed user would go on being accepted.                      *)
WellFormed(chain, b) ==
  \A i, j \in 1..Len(chain) : /\ hash(chain[i].name) = b
                              /\ chain[i].name = chain[j].name => i = j
ChainsWellFormed == \A b \in Buckets : WellFormed(hashmap[b], b)

PasswordIn(chain, n) ==
  IF Find(chain, n) = {} THEN None ELSE chain[First(Find(chain, n))].pass
PasswordOf(n) == PasswordIn(hashmap[hash(n)], n)

(* Through collisions and removals in the middle of a chain, the table is    *)
(* the set of users that the operations have made.                           *)
Users == INSTANCE Credentials WITH pass <- [n \in Names |-> PasswordOf(n)]
CredentialsSpec == Users!Spec
=============================================================================
