------------------------------ MODULE Session ------------------------------
(***************************************************************************)
(* One account's connection: the session file's lock, the supervisor that  *)
(* connects, catches up and reconnects, the requests that wait for a       *)
(* client and bound how long it may sleep off a flood wait, and the        *)
(* release that takes the session away under all of them.                  *)
(*                                                                         *)
(* The manager replaces a released session by a new AccountSession object, *)
(* so objects of the past and the present exist side by side.  What        *)
(* Telethon and the server do is external: a connection comes up, drops,   *)
(* or is made again by Telethon itself behind the supervisor's back.       *)
(***************************************************************************)
EXTENDS Integers, FiniteSets, FiniteSetsExt

CONSTANTS
    Object,       \* bound: AccountSession objects that may be made
    Request,      \* requests that need the account's client
    None,         \* no object
    Budgets,      \* the flood-wait budgets a request may have
    Default,      \* flood_sleep_threshold of a new client
    MaxDrops      \* bound: connections lost

ASSUME SessionAssumption ==
    /\ None \notin Object /\ Budgets \subseteq Nat /\ Default \in Nat /\ MaxDrops \in Nat

VARIABLES
    registered,   \* SessionManager._sessions: the account's object, or None
    lock,         \* who holds the lock of the session file
    state,        \* AccountSession.state
    sup,          \* where the supervisor is
    client,       \* the client: "none", "down" (built, not connected) or "up"
    caught,       \* catch_up was called since the connection came up
    hook,         \* Telethon reconnected and the reconnect hook has not run yet
    threshold,    \* the client's flood_sleep_threshold
    req,          \* where each request is, with the object it was given
    drops         \* bound: connections lost so far

connection == <<client, caught, hook>>
vars == <<registered, lock, state, sup, connection, threshold, req, drops>>

NoRequest == [at |-> "idle", object |-> None, budget |-> 0, original |-> 0, counted |-> FALSE]

Init ==
    /\ registered = None /\ lock = None /\ drops = 0
    /\ state = [s \in Object |-> "new"] /\ sup = [s \in Object |-> "none"]
    /\ client = [s \in Object |-> "none"] /\ caught = [s \in Object |-> FALSE]
    /\ hook = [s \in Object |-> FALSE] /\ threshold = [s \in Object |-> Default]
    /\ req = [r \in Request |-> NoRequest]

-----------------------------------------------------------------------------
(* The manager *)

\* A request finds the account's object ...
Found(r) ==
    /\ req[r].at = "idle" /\ registered # None
    /\ req' = [req EXCEPT ![r].at = "given", ![r].object = registered]
    /\ UNCHANGED <<registered, lock, state, sup, connection, threshold, drops>>

\* ... or makes it: the lock is taken and the supervisor started without an await.
\* While the lock is taken, by an object that is still being stopped, `start` raises.
Made(r, s) ==
    /\ req[r].at = "idle" /\ registered = None /\ lock = None /\ state[s] = "new"
    /\ registered' = s /\ lock' = s
    /\ state' = [state EXCEPT ![s] = "starting"] /\ sup' = [sup EXCEPT ![s] = "connecting"]
    /\ req' = [req EXCEPT ![r].at = "given", ![r].object = s]
    /\ UNCHANGED <<connection, threshold, drops>>

\* Mutant of Release: the lock goes first.
ReleaseUnlocked ==
    /\ registered # None /\ registered' = None /\ lock' = None
    /\ state' = [state EXCEPT ![registered] = "stopping"]
    /\ sup' = [sup EXCEPT ![registered] = "cancelled"]
    /\ UNCHANGED <<connection, threshold, req, drops>>

\* release takes the object out; stop cancels the supervisor and waits for it.
Release ==
    /\ registered # None /\ registered' = None
    /\ state' = [state EXCEPT ![registered] = "stopping"]
    /\ sup' = [sup EXCEPT ![registered] = "cancelled"]
    /\ UNCHANGED <<lock, connection, threshold, req, drops>>

\* Mutant of ShutDown: the object keeps its client.
ShutDownKept(s) ==
    /\ sup[s] = "cancelled"
    /\ hook' = [hook EXCEPT ![s] = FALSE] /\ lock' = None
    /\ state' = [state EXCEPT ![s] = "stopped"] /\ sup' = [sup EXCEPT ![s] = "ended"]
    /\ UNCHANGED <<registered, client, caught, threshold, req, drops>>

\* Presence, update state and disconnect, within a timeout; an object that never built
\* a client has nothing to shut down.  The client is let go, then the lock.
ShutDown(s) ==
    /\ sup[s] = "cancelled"
    /\ client' = [client EXCEPT ![s] = "none"] /\ hook' = [hook EXCEPT ![s] = FALSE]
    /\ lock' = None
    /\ state' = [state EXCEPT ![s] = "stopped"] /\ sup' = [sup EXCEPT ![s] = "ended"]
    /\ UNCHANGED <<registered, caught, threshold, req, drops>>

-----------------------------------------------------------------------------
(* The supervisor *)

\* _connect_once builds the client, once, and connects it; the connection is new.
Connected(s) ==
    /\ sup[s] = "connecting"
    /\ client' = [client EXCEPT ![s] = "up"]
    /\ caught' = [caught EXCEPT ![s] = IF client[s] = "up" THEN @ ELSE FALSE]
    /\ sup' = [sup EXCEPT ![s] = "authorizing"]
    /\ UNCHANGED <<registered, lock, state, hook, threshold, req, drops>>

\* Mutant of ConnectFails: the failure ends the supervisor.
ConnectFailsForGood(s) ==
    /\ sup[s] \in {"connecting", "authorizing"}
    /\ client' = [client EXCEPT ![s] = IF @ = "none" THEN "down" ELSE @]
    /\ state' = [state EXCEPT ![s] = "degraded"] /\ sup' = [sup EXCEPT ![s] = "ended"]
    /\ UNCHANGED <<registered, lock, caught, hook, threshold, req, drops>>

\* connect, the authorisation check or get_me fails: backoff, with the client kept.
ConnectFails(s) ==
    /\ sup[s] \in {"connecting", "authorizing"}
    /\ client' = [client EXCEPT ![s] = IF @ = "none" THEN "down" ELSE @]
    /\ state' = [state EXCEPT ![s] = "degraded"] /\ sup' = [sup EXCEPT ![s] = "backoff"]
    /\ UNCHANGED <<registered, lock, caught, hook, threshold, req, drops>>

\* The server does not know the login, or says so with an error: the supervisor ends.
LoginLost(s) ==
    /\ sup[s] \in {"connecting", "authorizing"}
    /\ client' = [client EXCEPT ![s] = IF @ = "none" THEN "down" ELSE @]
    /\ state' = [state EXCEPT ![s] = "needs_login"] /\ sup' = [sup EXCEPT ![s] = "ended"]
    /\ UNCHANGED <<registered, lock, caught, hook, threshold, req, drops>>

\* Mutant of Authorized: the account is online before it has caught up.
AuthorizedOnline(s) ==
    /\ sup[s] = "authorizing" /\ client[s] = "up" /\ sup' = [sup EXCEPT ![s] = "holding"]
    /\ state' = [state EXCEPT ![s] = "online"]
    /\ UNCHANGED <<registered, lock, connection, threshold, req, drops>>

Authorized(s) ==
    /\ sup[s] = "authorizing" /\ client[s] = "up" /\ sup' = [sup EXCEPT ![s] = "catching"]
    /\ UNCHANGED <<registered, lock, state, connection, threshold, req, drops>>

\* catch_up has been called, with or without success, before the account is online and
\* before the requests that wait for it are woken.
CaughtUp(s) ==
    /\ sup[s] = "catching"
    /\ req' = [r \in Request |-> IF req[r].object = s /\ req[r].at = "waiting"
                                   THEN [req[r] EXCEPT !.at = "woken"] ELSE req[r]]
    /\ caught' = [caught EXCEPT ![s] = TRUE]
    /\ state' = [state EXCEPT ![s] = "online"] /\ sup' = [sup EXCEPT ![s] = "holding"]
    /\ UNCHANGED <<registered, lock, client, hook, threshold, drops>>

\* The client's `disconnected` has resolved.
NoticesDrop(s) ==
    /\ sup[s] = "holding" /\ client[s] = "down"
    /\ state' = [state EXCEPT ![s] = "degraded"] /\ sup' = [sup EXCEPT ![s] = "backoff"]
    /\ UNCHANGED <<registered, lock, connection, threshold, req, drops>>

Retry(s) ==
    /\ sup[s] = "backoff" /\ sup' = [sup EXCEPT ![s] = "connecting"]
    /\ UNCHANGED <<registered, lock, state, connection, threshold, req, drops>>

\* _on_reconnect: the hook Telethon calls after a reconnect of its own catches up.
OnReconnect(s) ==
    /\ hook[s] /\ hook' = [hook EXCEPT ![s] = FALSE]
    /\ caught' = [caught EXCEPT ![s] = @ \/ client[s] = "up"]
    /\ UNCHANGED <<registered, lock, state, sup, client, threshold, req, drops>>

\* External: Telethon gives the connection up, or makes it again and calls the hook.
Drop(s) ==
    /\ client[s] = "up" /\ drops < MaxDrops /\ drops' = drops + 1
    /\ client' = [client EXCEPT ![s] = "down"] /\ caught' = [caught EXCEPT ![s] = FALSE]
    /\ UNCHANGED <<registered, lock, state, sup, hook, threshold, req>>

Reconnected(s) ==
    /\ client[s] = "up" /\ drops < MaxDrops /\ drops' = drops + 1
    /\ caught' = [caught EXCEPT ![s] = FALSE] /\ hook' = [hook EXCEPT ![s] = TRUE]
    /\ UNCHANGED <<registered, lock, state, sup, client, threshold, req>>

-----------------------------------------------------------------------------
(* Requests *)

Refused(s) == state[s] \in {"needs_login", "stopping", "stopped"}

\* acquire: refused at once, given the client at once, or left waiting.
Refuse(r) ==
    /\ req[r].at = "given" /\ Refused(req[r].object)
    /\ req' = [req EXCEPT ![r] = NoRequest]
    /\ UNCHANGED <<registered, lock, state, sup, connection, threshold, drops>>

\* In flight: the rate limiter's bucket comes next.  A woken request takes the client
\* as it is.
Acquire(r) ==
    /\ \/ req[r].at = "given" /\ state[req[r].object] = "online" /\ client[req[r].object] = "up"
       \/ req[r].at = "woken"
    /\ req' = [req EXCEPT ![r].at = "paced"]
    /\ UNCHANGED <<registered, lock, state, sup, connection, threshold, drops>>

\* While the supervisor has not noticed a drop, `_ready` is still set.
Wait(r) ==
    /\ LET s == req[r].object IN
         /\ req[r].at = "given" /\ ~Refused(s) /\ (state[s] = "online" => client[s] # "up")
         /\ req' = [req EXCEPT ![r].at = IF state[s] = "online" THEN "woken" ELSE "waiting"]
    /\ UNCHANGED <<registered, lock, state, sup, connection, threshold, drops>>

TimesOut(r) ==
    /\ req[r].at = "waiting"
    /\ req' = [req EXCEPT ![r] = NoRequest]
    /\ UNCHANGED <<registered, lock, state, sup, connection, threshold, drops>>

\* _flood_budgets, without the request r.
Stacked(s, r) == {q \in Request \ {r} : req[q].object = s /\ req[q].counted}
Smallest(s, r) == Min({req[q].budget : q \in Stacked(s, r)})

\* The token was there and the operation starts, within its budget.  An object that
\* was stopped meanwhile has no client left to set it on.
Enter(r, b) ==
    /\ req[r].at = "paced"
    /\ LET s == req[r].object
           smallest == Min({b} \cup {req[q].budget : q \in Stacked(s, r)}) IN
         IF client[s] = "none"
           THEN /\ req' = [req EXCEPT ![r].at = "inside", ![r].budget = b]
                /\ UNCHANGED threshold
           ELSE /\ req' = [req EXCEPT ![r].at = "inside", ![r].budget = b, ![r].counted = TRUE,
                                      ![r].original = threshold[s]]
                /\ threshold' = [threshold EXCEPT ![s] = smallest]
    /\ UNCHANGED <<registered, lock, state, sup, connection, drops>>

\* Mutant of Leave: every request restores what it found, also while others are inside.
LeaveRestored(r) ==
    /\ req[r].at = "inside"
    /\ threshold' = IF req[r].counted
                      THEN [threshold EXCEPT ![req[r].object] = req[r].original] ELSE threshold
    /\ req' = [req EXCEPT ![r] = NoRequest]
    /\ UNCHANGED <<registered, lock, state, sup, connection, drops>>

\* The operation is over: the others' smallest budget, or the threshold this request
\* found when it came.
Leave(r) ==
    /\ req[r].at = "inside"
    /\ LET s == req[r].object IN
         threshold' = IF req[r].counted /\ client[s] # "none"
                        THEN [threshold EXCEPT ![s] = IF Stacked(s, r) # {} THEN Smallest(s, r)
                                                      ELSE req[r].original]
                        ELSE threshold
    /\ req' = [req EXCEPT ![r] = NoRequest]
    /\ UNCHANGED <<registered, lock, state, sup, connection, drops>>

Supervise(s) ==
    \/ Connected(s) \/ Authorized(s) \/ CaughtUp(s)
    \/ NoticesDrop(s) \/ Retry(s) \/ OnReconnect(s)

Next ==
    \/ Release
    \/ \E s \in Object :
         \/ Supervise(s) \/ ConnectFails(s) \/ LoginLost(s)
         \/ ShutDown(s) \/ Drop(s) \/ Reconnected(s)
    \/ \E r \in Request :
         \/ Found(r) \/ Refuse(r) \/ Acquire(r) \/ Wait(r) \/ TimesOut(r) \/ Leave(r)
         \/ \E s \in Object : Made(r, s)
         \/ \E b \in Budgets : Enter(r, b)

Spec == Init /\ [][Next]_vars

\* The supervisor goes on when it can; for what depends on the network the assumption
\* is that an attempt that is made again and again works at some time.
FairSpec ==
    /\ Spec
    /\ \A s \in Object :
         /\ WF_vars(NoticesDrop(s)) /\ WF_vars(Retry(s)) /\ WF_vars(CaughtUp(s)) /\ WF_vars(OnReconnect(s))
         /\ SF_vars(Connected(s)) /\ SF_vars(Authorized(s))
         /\ WF_vars(sup[s] = "authorizing" /\ client[s] = "down" /\ ConnectFails(s))
    /\ \A r \in Request : WF_vars(Refuse(r) \/ Acquire(r) \/ Wait(r)) /\ WF_vars(TimesOut(r))

-----------------------------------------------------------------------------
(* Properties *)

\* The variables have their types, and the parts of an object agree with each other:
\* only a started object has a client, only one with a supervisor in its place is
\* online, and only a request inside an operation has a budget on the stack.
SessionTypeOK ==
    /\ registered \in Object \cup {None} /\ lock \in Object \cup {None}
    /\ state \in [Object -> {"new", "starting", "online", "degraded", "needs_login", "stopping", "stopped"}]
    /\ sup \in [Object -> {"none", "connecting", "authorizing", "catching", "holding", "backoff",
                           "cancelled", "ended"}]
    /\ client \in [Object -> {"none", "down", "up"}] /\ caught \in [Object -> BOOLEAN]
    /\ hook \in [Object -> BOOLEAN] /\ threshold \in [Object -> Nat]
    /\ \A s \in Object :
         /\ state[s] \in {"new", "stopped"} => client[s] = "none"
         /\ state[s] = "online" <=> sup[s] = "holding"
         /\ state[s] = "stopping" <=> sup[s] = "cancelled"
    /\ req \in [Request -> [at : {"idle", "given", "waiting", "woken", "paced", "inside"},
                            object : Object \cup {None}, budget : Nat, original : Nat, counted : BOOLEAN]]
    /\ \A r \in Request :
         /\ req[r].at = "idle" <=> req[r].object = None
         /\ req[r].counted => req[r].at = "inside"
    /\ drops \in 0..MaxDrops

\* One process, and in it one object, has a session file at a time: whoever has a
\* client, or has a supervisor that may connect it, holds the lock, and the
\* account's object is the holder.  (A client whose disconnect took longer than the
\* shutdown waits is let go as it is, and the object has none from then on.)
OneSessionFile ==
    /\ \A s \in Object : client[s] # "none" \/ sup[s] \notin {"none", "ended"} => lock = s
    /\ registered # None => lock = registered

\* An account that is online has asked for what it missed since its connection came
\* up, whichever way it came up, or the reconnect hook is about to ask.
CaughtUpWhenOnline ==
    \A s \in Object : state[s] = "online" /\ client[s] = "up" => caught[s] \/ hook[s]

\* A request is never held longer than its own flood budget allows, whoever entered
\* or left meanwhile with whatever budget and in whatever order.
BudgetKept ==
    \A r \in Request :
      req[r].counted /\ client[req[r].object] # "none" => threshold[req[r].object] <= req[r].budget

\* A degraded account comes back, unless it is released or its login is gone; and a
\* request that waits for it gets an answer.
Recovers ==
    /\ \A s \in Object :
         state[s] = "degraded" ~> state[s] \in {"online", "needs_login", "stopping", "stopped"}
    /\ \A r \in Request : req[r].at = "waiting" ~> req[r].at # "waiting"
=============================================================================
