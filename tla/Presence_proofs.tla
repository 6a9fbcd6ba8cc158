--------------------------- MODULE Presence_proofs ---------------------------
(***************************************************************************)
(* No action runs while the account is believed offline, for every set of  *)
(* workers and every bound.  The flag is only cleared when no hold is      *)
(* left, so the proof rests on holds being at least the workers that are   *)
(* not at rest (PresenceTypeOK), which cancelled calls do not break: they  *)
(* leave a hold too many, never one too few.                               *)
(***************************************************************************)
EXTENDS Presence, FiniteSetTheorems, TLAPS

\* Every hold was paid for with one of the bounded actions.
Paid == holds + left.actions <= Actions
IInv == PresenceTypeOK /\ OnlineWhileActing /\ Paid

\* The busy workers are finitely many, and none or at least one.
LEMMA BusyCount ==
    /\ IsFiniteSet(Busy) /\ Cardinality(Busy) \in Nat
    /\ Cardinality(Busy) = 0 <=> Busy = {}
<1>1. IsFiniteSet(Busy)
  BY PresenceAssumption, FS_Subset DEF Busy
<1> QED
  BY <1>1, FS_CardinalityType, FS_EmptySet

\* A worker that leaves its rest is one more busy worker.
LEMMA OneMoreBusy ==
    ASSUME PresenceTypeOK, NEW w \in Worker, act[w] = "rest", NEW how \in {"raising", "acting"},
           act' = [act EXCEPT ![w] = how]
    PROVE  /\ Busy' = Busy \cup {w}
           /\ Cardinality(Busy') = Cardinality(Busy) + 1
<1>1. Busy' = Busy \cup {w} /\ w \notin Busy
  BY DEF Busy, PresenceTypeOK
<1> QED
  BY <1>1, BusyCount, FS_AddElement

\* A worker that comes to rest is one busy worker less.
LEMMA OneLessBusy ==
    ASSUME PresenceTypeOK, NEW w \in Worker, act[w] # "rest", act' = [act EXCEPT ![w] = "rest"]
    PROVE  /\ Busy' = Busy \ {w} /\ w \in Busy
           /\ Cardinality(Busy') = Cardinality(Busy) - 1
<1>1. Busy' = Busy \ {w} /\ w \in Busy
  BY DEF Busy, PresenceTypeOK
<1> QED
  BY <1>1, BusyCount, FS_RemoveElement

\* What leaves the workers alone leaves the busy ones alone.
LEMMA SameBusy ==
    ASSUME UNCHANGED act
    PROVE  Busy' = Busy
BY DEF Busy

\* Every step preserves the invariant.
LEMMA NextInv == IInv /\ [Next]_vars => IInv'
<1> SUFFICES ASSUME IInv, [Next]_vars PROVE IInv'
  OBVIOUS
<1> USE PresenceAssumption, BusyCount DEF IInv, PresenceTypeOK, OnlineWhileActing, Paid
<1>1. ASSUME NEW w \in Worker, Before(w) PROVE IInv'
  <2>1. PICK how \in {"raising", "acting"} : act' = [act EXCEPT ![w] = how]
    BY <1>1 DEF Before
  <2>2. Cardinality(Busy') = Cardinality(Busy) + 1
    BY <1>1, <2>1, OneMoreBusy DEF Before
  <2> QED
    BY <1>1, <2>1, <2>2 DEF Before
<1>2. ASSUME NEW w \in Worker, Raised(w) PROVE IInv'
  <2>1. Busy' = Busy
    BY <1>2 DEF Raised, Busy
  <2> QED
    BY <1>2, <2>1 DEF Raised
<1>3. ASSUME NEW w \in Worker, After(w) PROVE IInv'
  <2>1. /\ Cardinality(Busy') = Cardinality(Busy) - 1
        /\ Busy' \subseteq Busy /\ Busy # {}
    BY <1>3, OneLessBusy DEF After
  <2>2. holds \in Nat /\ holds > 0 /\ holds' = holds - 1
    BY <1>3, <2>1 DEF After, Released
  <2> QED
    BY <1>3, <2>1, <2>2 DEF After
<1>4. ASSUME NEW w \in Worker, Abandon(w) PROVE IInv'
  <2>1. Cardinality(Busy') = Cardinality(Busy) - 1 /\ Busy' \subseteq Busy
    BY <1>4, OneLessBusy DEF Abandon, Cut
  <2> QED
    BY <1>4, <2>1 DEF Abandon
<1>5. CASE Disconnect
  <2>1. Busy' \subseteq Busy
    BY <1>5 DEF Disconnect, Busy, Cut
  <2>2. Cardinality(Busy') <= Cardinality(Busy) /\ Cardinality(Busy') \in Nat
    BY <2>1, FS_Subset, FS_CardinalityType
  <2> QED
    BY <1>5, <2>1, <2>2 DEF Disconnect
<1>6. CASE Stop
  <2>1. Busy' = Busy
    BY <1>6, SameBusy DEF Stop
  <2> QED
    BY <1>6, <2>1 DEF Stop
<1>7. CASE Lower
  <2>1. Busy = {} /\ Busy' = Busy
    BY <1>7, SameBusy DEF Lower, Free
  <2> QED
    BY <1>7, <2>1 DEF Lower, Free
<1>8. CASE Lowered
  <2>1. Busy' = Busy
    BY <1>8, SameBusy DEF Lowered
  <2> QED
    BY <1>8, <2>1 DEF Lowered, Free
<1>9. CASE LingerEnds \/ GiveUp \/ LingerOn \/ Restored \/ Close \/ UNCHANGED vars
  <2>1. Busy' = Busy
    BY <1>9, SameBusy DEF LingerEnds, GiveUp, LingerOn, Restored, Close, vars
  <2> QED
    BY <1>9, <2>1 DEF LingerEnds, GiveUp, LingerOn, Restored, Close, vars
<1> QED
  BY <1>1, <1>2, <1>3, <1>4, <1>5, <1>6, <1>7, <1>8, <1>9 DEF Next

\* The invariant holds of every behaviour.
LEMMA Inductive == Spec => []IInv
<1>1. ASSUME Init PROVE IInv
  <2>1. Busy = {} /\ Cardinality(Busy) = 0
    BY <1>1, FS_EmptySet DEF Init, Busy
  <2>2. Actions \in Nat /\ Disconnects \in Nat
    BY PresenceAssumption
  <2>3. holds \in Cardinality(Busy) .. Actions
    BY <1>1, <2>1, <2>2 DEF Init
  <2>4. left \in [actions : 0 .. Actions, disconnects : 0 .. Disconnects] /\ Paid
    BY <1>1, <2>2 DEF Init, Paid
  <2> QED
    BY <1>1, <2>1, <2>3, <2>4 DEF Init, IInv, PresenceTypeOK, OnlineWhileActing
<1> QED
  BY <1>1, NextInv, PTL DEF Spec

\* PresenceManager's counters keep their types, and holds never falls below the
\* workers that rely on the status.
THEOREM PresenceTypeCorrect == Spec => []PresenceTypeOK
<1>1. IInv => PresenceTypeOK
  BY DEF IInv
<1> QED
  BY <1>1, Inductive, PTL

\* While a worker is between before() and after(), the account is believed online.
THEOREM AlwaysOnlineWhileActing == Spec => []OnlineWhileActing
<1>1. IInv => OnlineWhileActing
  BY DEF IInv
<1> QED
  BY <1>1, Inductive, PTL
=============================================================================
