--------------------------- MODULE Session_proofs ---------------------------
(***************************************************************************)
(* The properties of Session for every number of objects and requests, all *)
(* budgets and any number of drops.  They do not rest on each other's      *)
(* fairness or on the network, only on what the states exclude: an object  *)
(* that was stopped is never used again (Retired), the registered object   *)
(* is not one that is being stopped (InUse), and a request keeps a budget  *)
(* on the stack only of an object that had a client (CountedOnce).         *)
(***************************************************************************)
EXTENDS Session, WellFoundedInduction, TLAPS

\* A fresh object has no supervisor yet, a stopped one none any more.
Retired ==
    \A s \in Object : /\ state[s] = "new" => sup[s] = "none"
                      /\ state[s] = "stopped" => sup[s] = "ended"
\* The account's object was started and is not being stopped.
InUse == registered # None => state[registered] \notin {"new", "stopping", "stopped"}
\* An object whose client is gone under a request's budget never builds another one.
CountedOnce ==
    \A r \in Request : req[r].counted /\ client[req[r].object] = "none" => state[req[r].object] = "stopped"

Structure == SessionTypeOK /\ OneSessionFile /\ Retired /\ InUse
IInv == Structure /\ CaughtUpWhenOnline /\ CountedOnce /\ BudgetKept

\* A set of numbers that is not empty has a least one, and Min is it.
LEMMA MinIsLeast ==
    ASSUME NEW N \in SUBSET Nat, N # {}
    PROVE  Min(N) \in N /\ \A n \in N : Min(N) <= n
<1> DEFINE Less == {p \in Nat \X Nat : p[1] < p[2]}
<1>1. IsWellFoundedOn(Less, Nat)
  BY NatLessThanWellFounded, Zenon DEF OpToRel
<1> HIDE DEF Less
<1>2. PICK x \in N : \A y \in N : <<y, x>> \notin Less
  BY <1>1, WFMin
<1>3. ASSUME NEW y \in N PROVE x <= y
  <2> DEFINE p == <<y, x>>
  <2>1. p \in Nat \X Nat /\ p[1] = y /\ p[2] = x /\ p \notin Less
    BY <1>2
  <2>2. ~(p[1] < p[2])
    BY <2>1, Zenon DEF Less
  <2> HIDE DEF p
  <2> QED
    BY <2>1, <2>2
<1> QED
  BY <1>3 DEF Min

\* What Enter and Leave set the threshold to.
LEMMA SmallestOfStack ==
    ASSUME SessionTypeOK, NEW s \in Object, NEW r \in Request, Stacked(s, r) # {}
    PROVE  /\ Smallest(s, r) \in Nat
           /\ \A q \in Stacked(s, r) : Smallest(s, r) <= req[q].budget
<1> DEFINE B == {req[q].budget : q \in Stacked(s, r)}
<1>1. B \in SUBSET Nat /\ B # {}
  <2>1. \A q \in Stacked(s, r) : req[q].budget \in Nat
    BY DEF SessionTypeOK, Stacked
  <2>2. PICK q \in Stacked(s, r) : TRUE
    OBVIOUS
  <2> QED
    BY <2>1, <2>2
<1>2. Min(B) \in B /\ \A n \in B : Min(B) <= n
  BY <1>1, MinIsLeast
<1>3. Smallest(s, r) = Min(B)
  BY DEF Smallest
<1> QED
  BY <1>1, <1>2, <1>3

\* The threshold of an object with a further budget b on the stack.
LEMMA SmallestWithNew ==
    ASSUME SessionTypeOK, NEW s \in Object, NEW r \in Request, NEW b \in Budgets
    PROVE  LET m == Min({b} \cup {req[q].budget : q \in Stacked(s, r)})
           IN /\ m \in Nat /\ m <= b
              /\ \A q \in Stacked(s, r) : m <= req[q].budget
<1> DEFINE B == {b} \cup {req[q].budget : q \in Stacked(s, r)}
<1>1. \A q \in Stacked(s, r) : req[q].budget \in Nat
  BY DEF SessionTypeOK, Stacked
<1>2. B \in SUBSET Nat /\ B # {}
  BY <1>1, SessionAssumption
<1>3. Min(B) \in B /\ \A n \in B : Min(B) <= n
  BY <1>2, MinIsLeast
<1> QED
  BY <1>2, <1>3

LEMMA InitStructure == Init => Structure
BY SessionAssumption DEF Init, Structure, SessionTypeOK, OneSessionFile, Retired, InUse, NoRequest

\* Every step keeps the objects, the lock and the requests consistent.
LEMMA NextStructure == Structure /\ [Next]_vars => Structure'
<1> SUFFICES ASSUME Structure, [Next]_vars PROVE Structure'
  OBVIOUS
<1> USE SessionAssumption DEF Structure, SessionTypeOK, OneSessionFile, Retired, InUse, NoRequest
<1>1. ASSUME Release PROVE Structure'
  BY <1>1 DEF Release, connection
<1>2. ASSUME NEW s \in Object, ConnectFails(s) PROVE Structure'
  BY <1>2 DEF ConnectFails, connection
<1>3. ASSUME NEW s \in Object, LoginLost(s) PROVE Structure'
  BY <1>3 DEF LoginLost, connection
<1>4. ASSUME NEW s \in Object, ShutDown(s) PROVE Structure'
  BY <1>4 DEF ShutDown, connection
<1>5. ASSUME NEW s \in Object, Drop(s) PROVE Structure'
  BY <1>5 DEF Drop, connection
<1>6. ASSUME NEW s \in Object, Reconnected(s) PROVE Structure'
  BY <1>6 DEF Reconnected, connection
<1>7. ASSUME NEW s \in Object, Connected(s) PROVE Structure'
  BY <1>7 DEF Connected, connection
<1>8. ASSUME NEW s \in Object, Authorized(s) PROVE Structure'
  BY <1>8 DEF Authorized, connection
<1>9. ASSUME NEW s \in Object, CaughtUp(s) PROVE Structure'
  BY <1>9 DEF CaughtUp, connection
<1>10. ASSUME NEW s \in Object, NoticesDrop(s) PROVE Structure'
  BY <1>10 DEF NoticesDrop, connection
<1>11. ASSUME NEW s \in Object, Retry(s) PROVE Structure'
  BY <1>11 DEF Retry, connection
<1>12. ASSUME NEW s \in Object, OnReconnect(s) PROVE Structure'
  BY <1>12 DEF OnReconnect, connection
<1>13. ASSUME NEW r \in Request, Found(r) PROVE Structure'
  BY <1>13 DEF Found, connection
<1>14. ASSUME NEW r \in Request, Refuse(r) PROVE Structure'
  BY <1>14 DEF Refuse, connection, Refused
<1>15. ASSUME NEW r \in Request, Acquire(r) PROVE Structure'
  BY <1>15 DEF Acquire, connection
<1>16. ASSUME NEW r \in Request, Wait(r) PROVE Structure'
  BY <1>16 DEF Wait, connection, Refused
<1>17. ASSUME NEW r \in Request, TimesOut(r) PROVE Structure'
  BY <1>17 DEF TimesOut, connection
<1>18. ASSUME NEW r \in Request, Leave(r) PROVE Structure'
  <2> DEFINE s == req[r].object
  <2>1. Stacked(s, r) # {} /\ s \in Object => Smallest(s, r) \in Nat
    BY SmallestOfStack
  <2>2. s \in Object
    BY <1>18 DEF Leave
  <2>3. threshold' \in [Object -> Nat]
    BY <1>18, <2>1, <2>2 DEF Leave
  <2> QED
    BY <1>18, <2>3 DEF Leave, connection
<1>19. ASSUME NEW r \in Request, NEW s \in Object, Made(r, s) PROVE Structure'
  BY <1>19 DEF Made, connection
<1>20. ASSUME NEW r \in Request, NEW b \in Budgets, Enter(r, b) PROVE Structure'
  <2>1. req[r].object \in Object
    BY <1>20 DEF Enter
  <2>2. threshold' \in [Object -> Nat]
    BY SMTT(30), <1>20, <2>1, SmallestWithNew DEF Enter
  <2> QED
    BY <1>20, <2>2 DEF Enter, connection
<1>21. CASE UNCHANGED vars
  BY <1>21 DEF vars, connection, Stacked
<1> QED
  BY <1>1, <1>2, <1>3, <1>4, <1>5, <1>6, <1>7, <1>8, <1>9, <1>10, <1>11, <1>12, <1>13, <1>14, <1>15, <1>16, <1>17, <1>18, <1>19, <1>20, <1>21 DEF Next, Supervise

\* An account only becomes online by catching up, and a connection is only made behind its
\* back together with the hook that catches up again.
LEMMA NextCaughtUp == Structure /\ CaughtUpWhenOnline /\ [Next]_vars => CaughtUpWhenOnline'
<1> SUFFICES ASSUME Structure, CaughtUpWhenOnline, [Next]_vars PROVE CaughtUpWhenOnline'
  OBVIOUS
<1> USE DEF Structure, SessionTypeOK, CaughtUpWhenOnline, connection
<1>1. ASSUME Release PROVE CaughtUpWhenOnline'
  BY <1>1 DEF Release
<1>2. ASSUME NEW s \in Object, ConnectFails(s) PROVE CaughtUpWhenOnline'
  BY <1>2 DEF ConnectFails
<1>3. ASSUME NEW s \in Object, LoginLost(s) PROVE CaughtUpWhenOnline'
  BY <1>3 DEF LoginLost
<1>4. ASSUME NEW s \in Object, ShutDown(s) PROVE CaughtUpWhenOnline'
  BY <1>4 DEF ShutDown
<1>5. ASSUME NEW s \in Object, Drop(s) PROVE CaughtUpWhenOnline'
  BY <1>5 DEF Drop
<1>6. ASSUME NEW s \in Object, Reconnected(s) PROVE CaughtUpWhenOnline'
  BY <1>6 DEF Reconnected
<1>7. ASSUME NEW s \in Object, Connected(s) PROVE CaughtUpWhenOnline'
  BY <1>7 DEF Connected
<1>8. ASSUME NEW s \in Object, Authorized(s) PROVE CaughtUpWhenOnline'
  BY <1>8 DEF Authorized
<1>9. ASSUME NEW s \in Object, CaughtUp(s) PROVE CaughtUpWhenOnline'
  BY <1>9 DEF CaughtUp
<1>10. ASSUME NEW s \in Object, NoticesDrop(s) PROVE CaughtUpWhenOnline'
  BY <1>10 DEF NoticesDrop
<1>11. ASSUME NEW s \in Object, Retry(s) PROVE CaughtUpWhenOnline'
  BY <1>11 DEF Retry
<1>12. ASSUME NEW s \in Object, OnReconnect(s) PROVE CaughtUpWhenOnline'
  BY <1>12 DEF OnReconnect
<1>13. ASSUME NEW r \in Request, NEW s \in Object, Made(r, s) PROVE CaughtUpWhenOnline'
  BY <1>13 DEF Made
<1>14. CASE UNCHANGED <<state, connection>>
  BY <1>14
<1> QED
  BY <1>1, <1>2, <1>3, <1>4, <1>5, <1>6, <1>7, <1>8, <1>9, <1>10, <1>11, <1>12, <1>13, <1>14 DEF Next, Supervise, vars, Found, Refuse, Acquire, Wait, TimesOut, Leave, Enter

\* A client goes only with its object, so a budget that was counted on it stays with a
\* stopped object.
LEMMA NextCounted == Structure /\ CountedOnce /\ [Next]_vars => CountedOnce'
<1> SUFFICES ASSUME Structure, CountedOnce, [Next]_vars PROVE CountedOnce'
  OBVIOUS
<1> USE SessionAssumption DEF Structure, SessionTypeOK, OneSessionFile, Retired, InUse, CountedOnce, connection, NoRequest
<1>1. ASSUME Release PROVE CountedOnce'
  BY <1>1 DEF Release
<1>2. ASSUME NEW s \in Object, ConnectFails(s) PROVE CountedOnce'
  BY <1>2 DEF ConnectFails
<1>3. ASSUME NEW s \in Object, LoginLost(s) PROVE CountedOnce'
  BY <1>3 DEF LoginLost
<1>4. ASSUME NEW s \in Object, ShutDown(s) PROVE CountedOnce'
  BY <1>4 DEF ShutDown
<1>5. ASSUME NEW s \in Object, Drop(s) PROVE CountedOnce'
  BY <1>5 DEF Drop
<1>6. ASSUME NEW s \in Object, Reconnected(s) PROVE CountedOnce'
  BY <1>6 DEF Reconnected
<1>7. ASSUME NEW s \in Object, Connected(s) PROVE CountedOnce'
  BY <1>7 DEF Connected
<1>8. ASSUME NEW s \in Object, Authorized(s) PROVE CountedOnce'
  BY <1>8 DEF Authorized
<1>9. ASSUME NEW s \in Object, CaughtUp(s) PROVE CountedOnce'
  BY <1>9 DEF CaughtUp
<1>10. ASSUME NEW s \in Object, NoticesDrop(s) PROVE CountedOnce'
  BY <1>10 DEF NoticesDrop
<1>11. ASSUME NEW s \in Object, Retry(s) PROVE CountedOnce'
  BY <1>11 DEF Retry
<1>12. ASSUME NEW s \in Object, OnReconnect(s) PROVE CountedOnce'
  BY <1>12 DEF OnReconnect
<1>13. ASSUME NEW r \in Request, Found(r) PROVE CountedOnce'
  BY <1>13 DEF Found
<1>14. ASSUME NEW r \in Request, Refuse(r) PROVE CountedOnce'
  BY <1>14 DEF Refuse
<1>15. ASSUME NEW r \in Request, Acquire(r) PROVE CountedOnce'
  BY <1>15 DEF Acquire
<1>16. ASSUME NEW r \in Request, Wait(r) PROVE CountedOnce'
  BY <1>16 DEF Wait
<1>17. ASSUME NEW r \in Request, TimesOut(r) PROVE CountedOnce'
  BY <1>17 DEF TimesOut
<1>18. ASSUME NEW r \in Request, Leave(r) PROVE CountedOnce'
  BY <1>18 DEF Leave
<1>19. ASSUME NEW r \in Request, NEW s \in Object, Made(r, s) PROVE CountedOnce'
  BY <1>19 DEF Made
<1>20. ASSUME NEW r \in Request, NEW b \in Budgets, Enter(r, b) PROVE CountedOnce'
  BY <1>20 DEF Enter
<1>21. CASE UNCHANGED vars
  BY <1>21 DEF vars
<1> QED
  BY <1>1, <1>2, <1>3, <1>4, <1>5, <1>6, <1>7, <1>8, <1>9, <1>10, <1>11, <1>12, <1>13, <1>14, <1>15, <1>16, <1>17, <1>18, <1>19, <1>20, <1>21 DEF Next, Supervise

\* Whoever enters or leaves, the threshold is the smallest budget on the stack.
LEMMA NextBudget == Structure /\ CountedOnce /\ BudgetKept /\ [Next]_vars => BudgetKept'
<1> SUFFICES ASSUME Structure, CountedOnce, BudgetKept, [Next]_vars PROVE BudgetKept'
  OBVIOUS
<1> USE SessionAssumption DEF Structure, SessionTypeOK, Retired, CountedOnce, BudgetKept, connection, NoRequest
<1>1. ASSUME Release PROVE BudgetKept'
  BY <1>1 DEF Release
<1>2. ASSUME NEW s \in Object, ConnectFails(s) PROVE BudgetKept'
  BY <1>2 DEF ConnectFails
<1>3. ASSUME NEW s \in Object, LoginLost(s) PROVE BudgetKept'
  BY <1>3 DEF LoginLost
<1>4. ASSUME NEW s \in Object, ShutDown(s) PROVE BudgetKept'
  BY <1>4 DEF ShutDown
<1>5. ASSUME NEW s \in Object, Drop(s) PROVE BudgetKept'
  BY <1>5 DEF Drop
<1>6. ASSUME NEW s \in Object, Reconnected(s) PROVE BudgetKept'
  BY <1>6 DEF Reconnected
<1>7. ASSUME NEW s \in Object, Connected(s) PROVE BudgetKept'
  BY <1>7 DEF Connected
<1>8. ASSUME NEW s \in Object, Authorized(s) PROVE BudgetKept'
  BY <1>8 DEF Authorized
<1>9. ASSUME NEW s \in Object, CaughtUp(s) PROVE BudgetKept'
  BY <1>9 DEF CaughtUp
<1>10. ASSUME NEW s \in Object, NoticesDrop(s) PROVE BudgetKept'
  BY <1>10 DEF NoticesDrop
<1>11. ASSUME NEW s \in Object, Retry(s) PROVE BudgetKept'
  BY <1>11 DEF Retry
<1>12. ASSUME NEW s \in Object, OnReconnect(s) PROVE BudgetKept'
  BY <1>12 DEF OnReconnect
<1>13. ASSUME NEW r \in Request, Found(r) PROVE BudgetKept'
  BY <1>13 DEF Found
<1>14. ASSUME NEW r \in Request, Refuse(r) PROVE BudgetKept'
  BY <1>14 DEF Refuse
<1>15. ASSUME NEW r \in Request, Acquire(r) PROVE BudgetKept'
  BY <1>15 DEF Acquire
<1>16. ASSUME NEW r \in Request, Wait(r) PROVE BudgetKept'
  BY <1>16 DEF Wait
<1>17. ASSUME NEW r \in Request, TimesOut(r) PROVE BudgetKept'
  BY <1>17 DEF TimesOut
<1>18. ASSUME NEW r \in Request, NEW s \in Object, Made(r, s) PROVE BudgetKept'
  BY <1>18 DEF Made
<1>19. ASSUME NEW r \in Request, Leave(r) PROVE BudgetKept'
  <2>1. req[r].object \in Object
    BY <1>19 DEF Leave
  <2>2. \A q \in Request : req'[q].counted => q \in Stacked(req[q].object, r) /\ req'[q] = req[q]
    BY <1>19 DEF Leave, Stacked
  <2> QED
    BY <1>19, <2>1, <2>2, SmallestOfStack DEF Leave
<1>20. ASSUME NEW r \in Request, NEW b \in Budgets, Enter(r, b) PROVE BudgetKept'
  <2>1. req[r].object \in Object
    BY <1>20 DEF Enter
  <2>2. \A q \in Request \ {r} : req'[q].counted => q \in Stacked(req[q].object, r) /\ req'[q] = req[q]
    BY <1>20 DEF Enter, Stacked
  <2> QED
    BY SMTT(30), <1>20, <2>1, <2>2, SmallestWithNew DEF Enter
<1>21. CASE UNCHANGED vars
  BY <1>21 DEF vars
<1> QED
  BY <1>1, <1>2, <1>3, <1>4, <1>5, <1>6, <1>7, <1>8, <1>9, <1>10, <1>11, <1>12, <1>13, <1>14, <1>15, <1>16, <1>17, <1>18, <1>19, <1>20, <1>21 DEF Next, Supervise

LEMMA InitInv == Init => IInv
BY InitStructure DEF Init, IInv, CaughtUpWhenOnline, CountedOnce, BudgetKept, NoRequest

LEMMA NextInv == IInv /\ [Next]_vars => IInv'
BY NextStructure, NextCaughtUp, NextCounted, NextBudget DEF IInv

LEMMA AlwaysIInv == Spec => []IInv
BY InitInv, NextInv, PTL DEF Spec

\* Every variable of the sessions keeps its type, and the parts of an object agree.
THEOREM SessionTypeCorrect == Spec => []SessionTypeOK
<1>1. IInv => SessionTypeOK
  BY DEF IInv, Structure
<1> QED
  BY <1>1, AlwaysIInv, PTL

\* The session file has one holder: the only object with a client or a supervisor.
THEOREM AlwaysOneSessionFile == Spec => []OneSessionFile
<1>1. IInv => OneSessionFile
  BY DEF IInv, Structure
<1> QED
  BY <1>1, AlwaysIInv, PTL

\* An online account asked for what it missed, however its connection came up.
THEOREM AlwaysCaughtUp == Spec => []CaughtUpWhenOnline
<1>1. IInv => CaughtUpWhenOnline
  BY DEF IInv
<1> QED
  BY <1>1, AlwaysIInv, PTL

\* No request is held longer than its own flood budget.
THEOREM AlwaysBudgetKept == Spec => []BudgetKept
<1>1. IInv => BudgetKept
  BY DEF IInv
<1> QED
  BY <1>1, AlwaysIInv, PTL
=============================================================================
