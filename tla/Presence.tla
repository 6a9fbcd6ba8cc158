------------------------------ MODULE Presence ------------------------------
(***************************************************************************)
(* Online status around job actions (src/tlgr/gateway/presence.py): the    *)
(* workers of one account whose actions ask for `blip` or `session` turn   *)
(* it on, one countdown task turns it off.  `leave` actions and an account *)
(* whose [presence] mode is not `off` never get here.                      *)
(*                                                                         *)
(* `_set` writes the flag before it awaits the call, and suppresses the    *)
(* call's failure: an answer and a failure are one action here, and the    *)
(* callers wait in "raising", "lowering" and "restoring".                  *)
(***************************************************************************)
EXTENDS Integers, FiniteSets

CONSTANTS
    Worker,      \* the workers (one per action kind) that run such actions
    Actions,     \* bound: actions the workers run between them
    Disconnects  \* bound: reconnects; each cancels every call in flight

ASSUME PresenceAssumption == IsFiniteSet(Worker) /\ {Actions, Disconnects} \subseteq Nat

VARIABLES
    act,      \* each worker: at rest, in before() raising the status, or acting
    online,   \* self.online
    holds,    \* self._holds
    task,     \* the countdown: none, waiting, lowering or restoring
    linger,   \* _linger_until lies ahead
    life,     \* "up"; "stopping": the scheduler is closed; "stopped"
    left      \* what remains of the bounds

vars == <<act, online, holds, task, linger, life, left>>

Busy == {w \in Worker : act[w] # "rest"}

\* Types; and a hold for every worker that is not at rest, or more: a hold of an
\* action cancelled in before() is never given back.
PresenceTypeOK ==
    /\ act \in [Worker -> {"rest", "raising", "acting"}]
    /\ online \in BOOLEAN /\ linger \in BOOLEAN
    /\ holds \in Cardinality(Busy) .. Actions
    /\ task \in {"none", "waiting", "lowering", "restoring"}
    /\ life \in {"up", "stopping", "stopped"}
    /\ left \in [actions : 0 .. Actions, disconnects : 0 .. Disconnects]

Init ==
    /\ act = [w \in Worker |-> "rest"]
    /\ online = FALSE /\ holds = 0
    /\ task = "none" /\ linger = FALSE
    /\ life = "up"
    /\ left = [actions |-> Actions, disconnects |-> Disconnects]

-----------------------------------------------------------------------------
(* The workers.                                                            *)

\* before(): a hold, and the status is raised unless it is believed to be up.
Before(w) ==
    /\ life = "up" /\ act[w] = "rest" /\ left.actions > 0
    /\ left' = [left EXCEPT !.actions = @ - 1]
    /\ holds' = holds + 1
    /\ online' = TRUE
    /\ act' = [act EXCEPT ![w] = IF online THEN "acting" ELSE "raising"]
    /\ UNCHANGED <<task, linger, life>>

Raised(w) ==
    /\ act[w] = "raising"
    /\ act' = [act EXCEPT ![w] = "acting"]
    /\ UNCHANGED <<online, holds, task, linger, life, left>>

\* after(), however the action ended: a countdown that is not done is not started
\* again.  Mutant: the holds are reset, as if the last action had ended.
ReleasedAll(n) == 0
Released(n) == IF n > 0 THEN n - 1 ELSE 0
After(w) ==
    /\ act[w] = "acting"
    /\ act' = [act EXCEPT ![w] = "rest"]
    /\ holds' = Released(holds)
    /\ linger' = TRUE
    /\ task' = IF task = "none" THEN "waiting" ELSE task
    /\ UNCHANGED <<online, life, left>>

-----------------------------------------------------------------------------
(* The countdown, _go_offline_later.                                       *)

LingerEnds ==
    /\ linger
    /\ linger' = FALSE
    /\ UNCHANGED <<act, online, holds, task, life, left>>

\* Mutant: who still acts is not asked.
AlwaysFree == TRUE
Free == holds = 0

\* The status is down already, or an action still holds it: the task ends.
GiveUp ==
    /\ task = "waiting" /\ (~online \/ (~linger /\ ~Free))
    /\ task' = "none"
    /\ UNCHANGED <<act, online, holds, linger, life, left>>

\* A `session` action is due soon.
LingerOn ==
    /\ task = "waiting" /\ online /\ ~linger /\ Free /\ left.actions > 0
    /\ linger' = TRUE
    /\ UNCHANGED <<act, online, holds, task, life, left>>

Lower ==
    /\ task = "waiting" /\ online /\ ~linger /\ Free
    /\ task' = "lowering" /\ online' = FALSE
    /\ UNCHANGED <<act, holds, linger, life, left>>

\* An action that began while the offline call was in flight gets the status back;
\* else the loop looks at the flag again.
Lowered ==
    /\ task = "lowering"
    /\ task' = IF Free THEN "waiting" ELSE "restoring"
    /\ online' = (online \/ ~Free)
    /\ UNCHANGED <<act, holds, linger, life, left>>

Restored ==
    /\ task = "restoring"
    /\ task' = "none"
    /\ UNCHANGED <<act, online, holds, linger, life, left>>

-----------------------------------------------------------------------------
(* Disconnects and the end.                                                *)

\* Telethon cancels every call in flight: before() and the countdown end in it, an
\* action that is carried out ends through after().
Cut(w) == act[w] = "raising"
Disconnect ==
    /\ left.disconnects > 0
    /\ left' = [left EXCEPT !.disconnects = @ - 1]
    /\ act' = [w \in Worker |-> IF Cut(w) THEN "rest" ELSE act[w]]
    /\ task' = IF task \in {"lowering", "restoring"} THEN "none" ELSE task
    /\ UNCHANGED <<online, holds, linger, life>>

\* ActionScheduler.close, then stop, which cancels the workers.
Close ==
    /\ life = "up"
    /\ life' = "stopping"
    /\ UNCHANGED <<act, online, holds, task, linger, left>>

Abandon(w) ==
    /\ life = "stopping" /\ Cut(w)
    /\ act' = [act EXCEPT ![w] = "rest"]
    /\ UNCHANGED <<online, holds, task, linger, life, left>>

Stop ==
    /\ life = "stopping" /\ Busy = {}
    /\ life' = "stopped"
    /\ task' = "none" /\ online' = FALSE
    /\ UNCHANGED <<act, holds, linger, left>>

Next ==
    \/ \E w \in Worker : Before(w) \/ Raised(w) \/ After(w) \/ Abandon(w)
    \/ LingerEnds \/ GiveUp \/ LingerOn \/ Lower \/ Lowered \/ Restored
    \/ Disconnect \/ Close \/ Stop

Spec == Init /\ [][Next]_vars

\* Calls are answered, actions end, the countdown is a task of the event loop, and
\* what is due soon is not due soon for ever.  Nothing obliges a job to act.
FairSpec ==
    /\ Spec
    /\ \A w \in Worker : WF_vars(Raised(w)) /\ WF_vars(After(w))
    /\ WF_vars(LingerEnds) /\ WF_vars(GiveUp) /\ SF_vars(Lower)
    /\ WF_vars(Lowered) /\ WF_vars(Restored)
-----------------------------------------------------------------------------
(* Properties.                                                             *)

\* "Offline is only sent once no blip/session action is running" (presence.py): while
\* an action is under way the account is believed online, also when the action began
\* with the offline call of an earlier countdown in flight.
OnlineWhileActing == Busy # {} => online

\* "offline about 5 s after" (gateway/README.md): once nothing acts any more, the
\* account does not stay online.
GoesOffline == online ~> (~online \/ Busy # {} \/ life # "up")
=============================================================================
