------------------------------ MODULE MCAdmin -------------------------------
(* An instance of Admin for TLC: two names in one chain, and the lines. *)
EXTENDS Admin

OneChain(n) == 0

SomeLines ==
  {<<"ADD_USER", "ana", "pw", Nl>>, <<"REMOVE_USER", "ana", Nl>>, <<"SET_MAX_CONN", "7", Nl>>,
   <<"GET_CONFIG", Nl>>, <<"EXIT", Nl>>, <<Nl>>, <<Blank, Nl>>,
   <<"x", "x", "x", "x", "x", Nl>>}
=============================================================================
