------------------------- MODULE ActionPromise_proofs -------------------------
(* What follows from the contract alone, for every set of actions and works. *)
EXTENDS ActionPromise, TLAPS

\* The actions in hand only lose members, except by Accept.
LEMMA InHandShrinks ==
    ASSUME NEW i \in Item, Next, i \in InHand', i \notin InHand
    PROVE  Accept(i)
<1>1. ASSUME NEW j \in Item, Refuse(j) \/ Accept(j) PROVE Accept(i)
  <2>1. ~Refuse(j)
    BY <1>1 DEF Refuse, Move, At, InHand
  <2>2. Accept(j) /\ j = i
    BY <1>1, <2>1 DEF Accept, Move, InHand
  <2> QED
    BY <2>2
<1>2. ASSUME NEW S \in SUBSET Item, Begin(S) \/ Interrupt(S) PROVE FALSE
  BY <1>2 DEF Begin, Interrupt, Move, At, InHand
<1>3. ASSUME NEW S \in SUBSET Item, NEW T \in SUBSET Item, Settle(S, T) \/ Withdraw(S, T)
      PROVE  FALSE
  BY <1>3 DEF Settle, Withdraw, Move, At, InHand
<1>4. CASE Stop
  BY <1>4 DEF Stop, InHand
<1> QED
  BY <1>1, <1>2, <1>3, <1>4 DEF Next

\* One piece of work is never in hand twice.
THEOREM NeverTwiceInHand == Spec => []OnceInHand
<1>1. Init => OnceInHand
  BY DEF Init, OnceInHand, InHand
<1>2. OnceInHand /\ [Next]_vars => OnceInHand'
  <2> SUFFICES ASSUME OnceInHand, [Next]_vars,
                      NEW i \in InHand', NEW j \in InHand', WorkOf[i] = WorkOf[j]
               PROVE  i = j
    BY DEF OnceInHand
  <2>0. i \in Item /\ j \in Item
    BY DEF InHand
  <2>1. CASE UNCHANGED vars
    BY <2>1 DEF vars, InHand, OnceInHand
  <2>2. CASE Next
    <3>1. CASE i \in InHand /\ j \in InHand
      BY <3>1 DEF OnceInHand
    <3>2. ASSUME i \notin InHand, i # j PROVE FALSE
      <4>1. Accept(i)
        BY <2>0, <2>2, <3>2, InHandShrinks
      <4>2. j \in InHand
        BY <2>0, <3>2, <4>1 DEF Accept, Move, InHand
      <4> QED
        BY <4>1, <4>2 DEF Accept
    <3>3. ASSUME j \notin InHand, i # j PROVE FALSE
      <4>1. Accept(j)
        BY <2>0, <2>2, <3>3, InHandShrinks
      <4>2. i \in InHand
        BY <2>0, <3>3, <4>1 DEF Accept, Move, InHand
      <4> QED
        BY <4>1, <4>2 DEF Accept
    <3> QED
      BY <3>1, <3>2, <3>3
  <2> QED
    BY <2>1, <2>2
<1> QED
  BY <1>1, <1>2, PTL DEF Spec
===============================================================================
