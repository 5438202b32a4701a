----------------------------- MODULE MCSelector -----------------------------
(* Instance of Selector for TLC: the interests that handlers ask for. *)
EXTENDS Selector

OneAtATime == {{}, {"READ"}, {"WRITE"}}
=============================================================================
