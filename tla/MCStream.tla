------------------------------ MODULE MCStream ------------------------------
(* Instances of EventStream for TLC: one busy account and a quiet one. *)
EXTENDS EventStream

Accounts == {"work", "home"}
Numbers == [a \in Accounts |-> IF a = "work" THEN 4 ELSE 1]
=============================================================================
