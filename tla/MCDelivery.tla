----------------------------- MODULE MCDelivery -----------------------------
(* An instance of Delivery for TLC: four events of two chats, the third of the second. *)
EXTENDS Delivery

Lanes == {"a", "b"}
Chats == <<"a", "a", "b", "a">>
=============================================================================
