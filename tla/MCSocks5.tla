------------------------------ MODULE MCSocks5 ------------------------------
(* Instances of Socks5 for TLC: the answers of getaddrinfo(). *)
EXTENDS Socks5

(* Every list of at most two addresses, and a name that does not resolve. *)
AllLists == UNION {[1..k -> AddrKind] : k \in 0..2}

OneUp == {<<"up">>}
NoAddress == {<< >>}

(* Lists in which some address answers later, or a name without address. *)
PoliteLists == {<< >>, <<"up">>, <<"refused">>, <<"instant">>, <<"unreach", "up">>,
                <<"refused", "unreach">>, <<"timeout", "unreach", "refused", "up">>}
=============================================================================
