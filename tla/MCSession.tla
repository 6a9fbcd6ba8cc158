----------------------------- MODULE MCSession ------------------------------
(* One account whose object is replaced once, and two requests with different budgets. *)
EXTENDS Session
=============================================================================
