------------------------------ MODULE MCSession ------------------------------
(* The session with few identifiers and short lists: three identifiers are  *)
(* enough for both subscription lists and the outbound list to compete for  *)
(* one, for swap_remove to move an entry, and for free_handle to run out.   *)
EXTENDS Session
===============================================================================
