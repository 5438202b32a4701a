----------------------------- MODULE RecentLog -----------------------------
(* What the access register promises an administrator: GET_ACCESS_REGISTER  *)
(* lists the latest connections, at most Max of them, the oldest first.    *)
EXTENDS Naturals, Sequences

CONSTANTS Entry, Max

VARIABLE recent

Init == recent = << >>

Add(e) == recent' = IF Len(recent) < Max THEN Append(recent, e)
                                         ELSE Append(Tail(recent), e)

Next == \E e \in Entry : Add(e)

Spec == Init /\ [][Next]_recent
=============================================================================
