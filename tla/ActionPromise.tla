---------------------------- MODULE ActionPromise ----------------------------
(***************************************************************************)
(* What the job-action scheduler promises the jobs, with no queue, clock,  *)
(* pacer or retry in it: an action that is offered is refused or accepted; *)
(* accepted, it waits, is acted on, may be put back, and is settled; one   *)
(* piece of work is never in hand twice; work withdrawn while it is acted  *)
(* on is not put back, unless the scheduler is stopping.                   *)
(* ActionScheduler implements this specification (PromiseKept there).      *)
(***************************************************************************)

CONSTANTS
    Item,      \* the actions that may be offered
    WorkOf     \* WorkOf[i]: the piece of work an action stands for

VARIABLES
    stage,     \* how far each action is
    withdrawn, \* the actions withdrawn while they were acted on
    stopping   \* the scheduler is closing

vars == <<stage, withdrawn, stopping>>

InHand == {i \in Item : stage[i] \in {"waiting", "acting"}}
At(s)  == {i \in Item : stage[i] = s}
Move(S, s) == stage' = [i \in Item |-> IF i \in S THEN s ELSE stage[i]]

TypeOK ==
    /\ stage \in [Item -> {"offered", "refused", "waiting", "acting", "settled"}]
    /\ withdrawn \subseteq Item
    /\ stopping \in BOOLEAN

Init ==
    /\ stage = [i \in Item |-> "offered"]
    /\ withdrawn = {}
    /\ stopping = FALSE

Refuse(i) == i \in At("offered") /\ Move({i}, "refused") /\ UNCHANGED <<withdrawn, stopping>>

Accept(i) ==
    /\ i \in At("offered")
    /\ \A j \in InHand : WorkOf[j] # WorkOf[i]
    /\ Move({i}, "waiting")
    /\ UNCHANGED <<withdrawn, stopping>>

Begin(S) ==
    /\ S \subseteq At("waiting")
    /\ Move(S, "acting")
    /\ UNCHANGED <<withdrawn, stopping>>

\* Actions are settled or put back together; withdrawn ones are settled.
Settle(S, back) ==
    /\ S \subseteq InHand /\ back \subseteq S
    /\ \A i \in back : i \in At("acting") => i \notin withdrawn
    /\ stage' = [i \in Item |-> IF i \in back THEN "waiting"
                                ELSE IF i \in S THEN "settled" ELSE stage[i]]
    /\ withdrawn' = withdrawn \ (S \ back)
    /\ UNCHANGED stopping

\* A command settles what waits and marks what is acted on.
Withdraw(S, D) ==
    /\ S \subseteq At("waiting") /\ D \subseteq At("acting")
    /\ Move(S, "settled")
    /\ withdrawn' = (withdrawn \cup D) \ S
    /\ UNCHANGED stopping

Stop == stopping' = TRUE /\ UNCHANGED <<stage, withdrawn>>
Interrupt(S) ==
    /\ stopping /\ S \subseteq At("acting")
    /\ Move(S, "waiting")
    /\ UNCHANGED <<withdrawn, stopping>>

Next ==
    \/ \E i \in Item : Refuse(i) \/ Accept(i)
    \/ \E S \in SUBSET Item :
        \/ Begin(S) \/ Interrupt(S)
        \/ \E T \in SUBSET Item : Settle(S, T) \/ Withdraw(S, T)
    \/ Stop

Spec == Init /\ [][Next]_vars
-----------------------------------------------------------------------------
\* No piece of work is in hand twice.
OnceInHand == \A i, j \in InHand : WorkOf[i] = WorkOf[j] => i = j
=============================================================================
