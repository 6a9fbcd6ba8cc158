--------------------------- MODULE ActionScheduler ---------------------------
(***************************************************************************)
(* The job-action scheduler of one account, in memory                      *)
(* (src/tlgr/gateway/scheduler.py): the queue the jobs plan into, the one  *)
(* worker per action kind that empties it, retries, expiry, quiet hours,   *)
(* cancellation and manual takeover.  DurableScheduler adds the file.      *)
(*                                                                         *)
(* The code runs on one event loop, so every stretch between two awaits is *)
(* one action here.  Clock readings are abstracted to what the code        *)
(* compares them for: whether an item is due, whether it is past its       *)
(* expiry, whether the pacer's slot is open, whether quiet hours are on.   *)
(* A heap entry that no longer matches its item is skipped by `_peek`, so  *)
(* only matching entries are kept.                                         *)
(***************************************************************************)
EXTENDS Integers, FiniteSets

CONSTANTS
    Item,            \* ids of planned actions; a replayed update plans a new id
    Attr,            \* Attr[i]: what PendingItem i carries and never changes
    Kinds,           \* the action kinds of the instance: one worker, one pacer each
    Job, Key, Chat, Topic, Msg, Album,
    None,            \* Python's None
    CancelRequests,  \* the selector combinations `job queue cancel` may be given
    MaxPending, RecentKeys, BatchMax,      \* 10000, 5000, 100 in the code
    Retries, PatientRetries, MaxFloods,    \* 3, 12, 10 in the code
    QuietWindows     \* bound: quiet windows begin at most this often

AllKinds  == {"react", "read", "view", "forward", "reply"}
Modes     == {"cancel", "cancel_read", "ignore"}
Attributes ==
    [job : Job, kind : AllKinds, key : Key, chat : Chat, topic : Topic \cup {None},
     msg : Msg, caption : BOOLEAN, album : Album \cup {None}, takeover : Modes,
     quiet : BOOLEAN, dry : BOOLEAN, typing : BOOLEAN, marks : BOOLEAN]

(* The action classes: class attributes of tlgr/actions/*.py.              *)

Expires(k)    == k \in {"react", "view", "reply"}      \* default_expiry is not None
QuietHold(k)  == k # "forward"
AlbumOnce(k)  == k \in {"react", "reply"}
CancelledBy(k) ==
    CASE k \in {"react", "reply"} -> {"cancel"}
      [] k \in {"read", "view"}   -> {"cancel", "cancel_read"}
      [] k = "forward"            -> {}

ASSUME ConstantsAssumption ==
    /\ Kinds \subseteq AllKinds
    /\ Attr \in [Item -> Attributes]
    /\ \A i \in Item : /\ Attr[i].kind \in Kinds
                       /\ Attr[i].album # None => AlbumOnce(Attr[i].kind)
    /\ Msg \subseteq Nat
    /\ None \notin Item /\ None \notin Topic /\ None \notin Album
    /\ {MaxPending, RecentKeys, BatchMax} \subseteq Nat \ {0}
    /\ {Retries, PatientRetries, MaxFloods, QuietWindows} \subseteq Nat

JobOf(i) == Attr[i].job
Kind(i)  == Attr[i].kind
KeyOf(i) == Attr[i].key
AlbumOf(i) == Attr[i].album

\* Items that are due together and share a batch key go out as one call.
SameBatch(i, j) ==
    /\ Kind(i) = Kind(j) /\ Kind(i) \in {"read", "view"}
    /\ Attr[i].chat = Attr[j].chat /\ Attr[i].dry = Attr[j].dry
    /\ Kind(i) = "read" => Attr[i].topic = Attr[j].topic

-----------------------------------------------------------------------------
VARIABLES
    status,    \* where each item is: new, live (pending, running), or how it ended
    due,       \* the live items whose due_at has come
    late,      \* the live items past their expires_at
    heap,      \* the items with a heap entry at their present due_at
    worker,    \* what the worker of a kind is doing
    wake,      \* the kinds whose wake event is set
    slot,      \* the kinds whose pacer has its next slot open
    msg,       \* the message an item will act on (an album's moves to its caption)
    body,      \* what an item gains as it runs: its phase, failures, FLOOD_WAITs
    keys,      \* _keys: the live item of each key
    recent,    \* _recent: keys of items that finished
    albums,    \* _albums: the roll, the item and the caption flag of each album
    cancelled, \* _cancelled: running items that must not be requeued
    quiet,     \* quiet hours: on or off, and how many windows are left
    closed     \* close() was called

queueVars == <<status, due, late, heap, wake, body, keys, recent, cancelled>>
vars == <<queueVars, worker, slot, msg, albums, quiet, closed>>

Outcomes == {"done", "skipped", "superseded", "expired", "errors"}   \* COUNTERS
Refused  == {"duplicate", "album", "full"}                           \* what submit returns
Ended    == Outcomes \cup Refused \cup {"dropped"}

\* "held" and "lost" items are not in memory: see DurableScheduler.
Status   == {"new", "pending", "running", "held", "lost"} \cup Ended

Live     == {i \in Item : status[i] \in {"pending", "running"}}      \* self.items
Pending  == {i \in Item : status[i] = "pending"}
Running(k) == {i \in Item : status[i] = "running" /\ Kind(i) = k}
AlbumMemo == [roll : {"none", "in", "out"}, item : Item \cup {None}, caption : BOOLEAN]
\* "acting": a reaction has read the chat and now makes its own call.
WorkerState == {"step", "idle", "timed", "busy", "acting", "off"}
Body     == [phase : {"", "send"}, fails : Nat, floods : Nat]
Fresh    == [phase |-> "", fails |-> 0, floods |-> 0]

TypeOK ==
    /\ status \in [Item -> Status]
    /\ due \subseteq Item /\ late \subseteq Item /\ heap \subseteq Item
    /\ worker \in [Kinds -> WorkerState]
    /\ wake \subseteq Kinds /\ slot \subseteq Kinds
    /\ msg \in [Item -> Msg]
    /\ body \in [Item -> Body]
    /\ keys \in [Key -> Item \cup {None}]
    /\ recent \subseteq Key
    /\ albums \in [Album -> AlbumMemo]
    /\ cancelled \subseteq Item
    /\ quiet \in [on : BOOLEAN, left : Nat]
    /\ closed \in BOOLEAN

Init ==
    /\ status = [i \in Item |-> "new"]
    /\ due = {} /\ late = {} /\ heap = {}
    /\ worker = [k \in Kinds |-> "step"]
    /\ wake = {}
    /\ slot = Kinds
    /\ msg = [i \in Item |-> Attr[i].msg]
    /\ body = [i \in Item |-> Fresh]
    /\ keys = [k \in Key |-> None]
    /\ recent = {}
    /\ albums = [a \in Album |-> [roll |-> "none", item |-> None, caption |-> FALSE]]
    /\ cancelled = {}
    /\ quiet = [on |-> FALSE, left |-> QuietWindows]
    /\ closed = FALSE

-----------------------------------------------------------------------------
(* _push: a heap entry at the item's due_at, and the wake event of its kind. *)

\* Mutant: the item is not pushed.
Unpushed(h, S) == h
Pushed(h, S) == h \cup S
\* Mutant: the event is not set.
Unalarmed(w, S) == w
Alarmed(w, S) == w \cup {Kind(i) : i \in S}

-----------------------------------------------------------------------------
(* Planning: the bus handler rolls, plans and submits without awaiting.    *)

Recorded(i, memo) ==
    IF AlbumOf(i) = None THEN albums ELSE [albums EXCEPT ![AlbumOf(i)] = memo]
Memo(i) == albums[AlbumOf(i)]

\* The job has nothing to queue for this message; its album remembers the roll.
Skip(i, said) ==
    /\ status[i] = "new"
    /\ AlbumOf(i) # None => Memo(i).roll \in {"none", said}
    /\ albums' = Recorded(i, [Memo(i) EXCEPT !.roll = said])
    /\ status' = [status EXCEPT ![i] = "skipped"]
    /\ UNCHANGED <<due, late, heap, wake, body, keys, recent, cancelled,
                   worker, slot, msg, quiet, closed>>

\* The percent roll, one per album, said no.
RollOut(i) == Skip(i, "out")
\* It said yes, and the action planned nothing (a reply whose text came out empty).
PlanNothing(i) == Kind(i) # "read" /\ Skip(i, "in")

RolledIn(i) ==
    /\ status[i] = "new"
    /\ AlbumOf(i) # None => Memo(i).roll # "out"

\* Mutants: finished work is forgotten; queued work is not looked at.
KeyRecent(i) == KeyOf(i) \in recent
KeyLive(i) == keys[KeyOf(i)] # None
KeyKnown(i) == keys[KeyOf(i)] # None \/ KeyOf(i) \in recent
\* Mutant: only a sibling that is still queued counts.
HasLiveSibling(i) == AlbumOf(i) # None /\ Memo(i).item \in Live
HasSibling(i) == AlbumOf(i) # None /\ Memo(i).item # None

\* submit() refuses the item: nothing is queued.
Refuse(i, why) ==
    /\ status' = [status EXCEPT ![i] = why]
    /\ UNCHANGED <<due, late, heap, wake, body, keys, recent, cancelled,
                   worker, slot, quiet, closed>>

Duplicate(i) ==
    /\ KeyKnown(i)
    /\ albums' = Recorded(i, [Memo(i) EXCEPT !.roll = "in"])
    /\ UNCHANGED msg
    /\ Refuse(i, "duplicate")

\* The caption message is where the album's reaction lives: a pending item
\* moves to it, once.  Mutants: a running item moves too; any message takes it.
MovesRunning(i) ==
    status[Memo(i).item] \in {"pending", "running"} /\ Attr[i].caption /\ ~Memo(i).caption
MovesAnywhere(i) == status[Memo(i).item] = "pending" /\ ~Memo(i).caption
Moves(i) == status[Memo(i).item] = "pending" /\ Attr[i].caption /\ ~Memo(i).caption

Sibling(i) ==
    /\ ~KeyKnown(i) /\ HasSibling(i)
    /\ IF Moves(i)
       THEN /\ msg' = [msg EXCEPT ![Memo(i).item] = Attr[i].msg]
            /\ albums' = Recorded(i, [Memo(i) EXCEPT !.caption = TRUE])
       ELSE UNCHANGED <<msg, albums>>
    /\ Refuse(i, "album")

Full(i) ==
    /\ ~KeyKnown(i) /\ ~HasSibling(i)
    /\ Cardinality(Live) >= MaxPending
    /\ albums' = Recorded(i, [Memo(i) EXCEPT !.roll = "in"])
    /\ UNCHANGED msg
    /\ Refuse(i, "full")

Insert(i) ==
    /\ ~KeyKnown(i) /\ ~HasSibling(i)
    /\ Cardinality(Live) < MaxPending
    /\ albums' = Recorded(i, [roll |-> "in", item |-> i, caption |-> Attr[i].caption])
    /\ status' = [status EXCEPT ![i] = "pending"]
    /\ due' \in {due, due \cup {i}}
    /\ keys' = [keys EXCEPT ![KeyOf(i)] = i]
    /\ heap' = Pushed(heap, {i})
    /\ wake' = Alarmed(wake, {i})
    /\ UNCHANGED <<late, body, recent, cancelled, worker, slot, msg, quiet, closed>>

Submit(i) == RolledIn(i) /\ (Duplicate(i) \/ Sibling(i) \/ Full(i) \/ Insert(i))

-----------------------------------------------------------------------------
(* Finishing and requeueing.  `fate` gives every item a call decides about *)
(* the outcome it ends in, or "pending" when it is rescheduled.            *)

\* _recent keeps the newest RecentKeys keys; only _finish trims it.
Remember(new) ==
    IF new = {} \/ Cardinality(recent \cup new) <= RecentKeys THEN {recent \cup new}
    ELSE {s \in SUBSET (recent \cup new) :
            /\ Cardinality(s) = RecentKeys
            /\ new \subseteq s \/ s \subseteq new}

\* _finish or _remove for those that end, _reschedule for those that do not.
Resolve(fate, awake, doomed) ==
    LET S    == DOMAIN fate
        back == {i \in S : fate[i] = "pending"}
        gone == S \ back
    IN  /\ status' = [i \in Item |-> IF i \in S THEN fate[i] ELSE status[i]]
        /\ due' = due \ S
        /\ late' = late \ gone
        /\ heap' = Pushed(heap \ S, back)
        /\ wake' = Alarmed(awake, back)
        /\ keys' = [k \in Key |-> IF keys[k] \in gone THEN None ELSE keys[k]]
        /\ recent' \in Remember({KeyOf(i) : i \in {j \in gone : fate[j] # "dropped"}})
        /\ cancelled' = doomed \ gone

\* Those that end take their progress with them; the others gain `more`.
Progress(fate, more) ==
    body' = [i \in Item |-> IF i \notin DOMAIN fate THEN body[i]
                            ELSE IF fate[i] = "pending" THEN more[i] ELSE Fresh]

-----------------------------------------------------------------------------
(* The workers.                                                            *)

Queued(k) == {i \in heap : Kind(i) = k /\ status[i] = "pending"}
Held(i)   == quiet.on /\ Attr[i].quiet /\ QuietHold(Kind(i))
\* _peek drops entries whose item is not pending; _step clears the wake event.
StaleEntries(k) == {i \in heap : Kind(i) = k /\ status[i] # "pending"}

\* What may run now together with the peeked item: due, not late, not held.
\* Mutants: quiet hours, or the conversation and the dry-run mode, are not compared.
LoudCompanions(i) == {j \in Pending \cap due : SameBatch(i, j) /\ j \notin late}
KindCompanions(i) == {j \in Pending \cap due : Kind(i) = Kind(j) /\ j \notin late /\ ~Held(j)}
Companions(i) ==
    {j \in Pending \cap due : SameBatch(i, j) /\ j \notin late /\ ~Held(j)}
\* At most BatchMax of them, the peeked item always among them.  Mutant: one more.
LargeBatches(i) ==
    LET all == Companions(i) \cup {i}
    IN  IF Cardinality(all) <= BatchMax + 1 THEN {all}
        ELSE {b \in SUBSET all : i \in b /\ Cardinality(b) = BatchMax + 1}
Batches(i) ==
    LET all == Companions(i) \cup {i}
    IN  IF Cardinality(all) <= BatchMax THEN {all}
        ELSE {b \in SUBSET all : i \in b /\ Cardinality(b) = BatchMax}

Sleep(k, how) ==
    /\ worker' = [worker EXCEPT ![k] = how]
    /\ wake' = wake \ {k}
    /\ heap' = heap \ StaleEntries(k)
    /\ UNCHANGED <<status, due, late, body, keys, recent, cancelled,
                   slot, msg, albums, quiet, closed>>

\* Nothing is queued: wait for the event alone.
Idle(k) == Queued(k) = {} /\ Sleep(k, "idle")
\* The earliest item is not due yet, or the pacer is closed: wait with a timeout.
WaitDue(k) == Queued(k) # {} /\ Queued(k) \cap due = {} /\ Sleep(k, "timed")
WaitSlot(k, i) ==
    /\ i \notin late /\ ~Held(i) /\ ~Attr[i].dry /\ k \notin slot
    /\ Sleep(k, "timed")

Drop(k, i) ==
    /\ i \in late
    /\ Resolve([j \in {i} |-> "expired"], wake \ {k}, cancelled)
    /\ Progress([j \in {i} |-> "expired"], body)
    /\ UNCHANGED <<worker, slot, msg, albums, quiet, closed>>

Hold(k, i) ==
    /\ i \notin late /\ Held(i)
    /\ Resolve([j \in {i} |-> "pending"], wake \ {k}, cancelled)
    /\ UNCHANGED body
    /\ UNCHANGED <<worker, slot, msg, albums, quiet, closed>>

Start(k, i) ==
    /\ i \notin late /\ ~Held(i) /\ (Attr[i].dry \/ k \in slot)
    /\ \E b \in Batches(i) : status' = [j \in Item |-> IF j \in b THEN "running" ELSE status[j]]
    /\ slot' = IF Attr[i].dry THEN slot ELSE slot \ {k}
    /\ worker' = [worker EXCEPT ![k] = "busy"]
    /\ wake' = wake \ {k}
    /\ heap' = heap \ StaleEntries(k)
    /\ UNCHANGED <<due, late, body, keys, recent, cancelled, msg, albums, quiet, closed>>

Step(k) ==
    /\ worker[k] = "step" /\ ~closed
    /\ \/ Idle(k)
       \/ WaitDue(k)
       \/ \E i \in Queued(k) \cap due : WaitSlot(k, i) \/ Drop(k, i) \/ Hold(k, i) \/ Start(k, i)

\* The wait ends: the event was set, or the timeout (a minute at most) ran out.
Woken(k) ==
    /\ worker[k] = "timed" \/ (worker[k] = "idle" /\ k \in wake)
    /\ worker' = [worker EXCEPT ![k] = "step"]
    /\ UNCHANGED <<queueVars, slot, msg, albums, quiet, closed>>

\* The loop condition is checked between steps.
Leave(k) ==
    /\ worker[k] = "step" /\ closed
    /\ worker' = [worker EXCEPT ![k] = "off"]
    /\ UNCHANGED <<queueVars, slot, msg, albums, quiet, closed>>

-----------------------------------------------------------------------------
(* Executing a batch: Start marked it running, one of these ends it.       *)

\* _doomed: an item cancelled while it ran is finished, never requeued.
\* Mutants: the mark is ignored; the outcome is no counter.
UnmarkedFate(k, fate) == [i \in Running(k) |-> fate[i]]
UncountedFate(k, fate) == [i \in Running(k) |-> IF i \in cancelled THEN "cancelled" ELSE fate[i]]
Fate(k, fate) == [i \in Running(k) |-> IF i \in cancelled THEN "superseded" ELSE fate[i]]
All(k, o)     == [i \in Running(k) |-> o]

End(k, fate, more) ==
    /\ worker[k] \in {"busy", "acting"}
    /\ Resolve(Fate(k, fate), wake, cancelled)
    /\ Progress(Fate(k, fate), more)
    /\ worker' = [worker EXCEPT ![k] = "step"]
    /\ UNCHANGED <<msg, albums, quiet, closed>>

\* reply.execute shows typing first and comes back later to send.
Types(i) == Kind(i) = "reply" /\ Attr[i].typing /\ ~Attr[i].dry /\ body[i].phase = ""

Succeed(k) ==
    /\ \A i \in Running(k) : /\ ~Types(i)
                             /\ Kind(i) = "react" /\ ~Attr[i].dry => worker[k] = "acting"
    /\ End(k, All(k, "done"), body)
    /\ UNCHANGED slot

TypeFirst(k) ==
    /\ \A i \in Running(k) : Types(i)
    /\ End(k, All(k, "pending"), [i \in Item |-> [body[i] EXCEPT !.phase = "send"]])
    /\ UNCHANGED slot

\* _failed: only a call to Telegram fails, a dry run makes none.
Flood(k) ==
    /\ \A i \in Running(k) : ~Attr[i].dry
    /\ End(k, [i \in Running(k) |-> IF body[i].floods + 1 > MaxFloods THEN "errors" ELSE "pending"],
           [i \in Item |-> [body[i] EXCEPT !.floods = @ + 1]])
    /\ slot' = slot \ {k}

\* _failed: transient failures back off and come back until the limit; the others end.
Limit(k) == IF Expires(k) THEN Retries ELSE PatientRetries
\* Mutant: the limit is not enforced.
FailForever(k, retryable) ==
    /\ \A i \in Running(k) : ~Attr[i].dry
    /\ End(k, All(k, IF retryable THEN "pending" ELSE "errors"),
           [i \in Item |-> [body[i] EXCEPT !.fails = @ + 1]])
    /\ UNCHANGED slot
Fail(k, retryable) ==
    /\ \A i \in Running(k) : ~Attr[i].dry
    /\ End(k, [i \in Running(k) |-> IF retryable /\ body[i].fails + 1 <= Limit(k)
                                     THEN "pending" ELSE "errors"],
           [i \in Item |-> [body[i] EXCEPT !.fails = @ + 1]])
    /\ UNCHANGED slot

\* ensure_read: a reaction reads the chat first, on the read queue's pacer
\* unless the chat is known read that far; pending reads it covers are done.
CoveredReads(i) ==
    {j \in Pending : /\ Kind(j) = "read" /\ ~Attr[j].dry /\ ~Attr[j].marks
                     /\ Attr[j].chat = Attr[i].chat /\ Attr[j].topic = Attr[i].topic
                     /\ msg[j] <= msg[i]}
ReadFirst(i) ==
    /\ Kind(i) = "react" /\ status[i] = "running" /\ ~Attr[i].dry /\ worker["react"] = "busy"
    /\ worker' = [worker EXCEPT !["react"] = "acting"]
    /\ Resolve([j \in CoveredReads(i) |-> "done"], wake, cancelled)
    /\ Progress([j \in CoveredReads(i) |-> "done"], body)
    /\ slot' \in {slot} \cup (IF "read" \in slot THEN {slot \ {"read"}} ELSE {})
    /\ UNCHANGED <<msg, albums, quiet, closed>>

-----------------------------------------------------------------------------
(* Commands and updates that reach the queue from outside the workers.     *)

Matches(r, i) ==
    \/ r.all
    \/ /\ r.ids = {} \/ i \in r.ids
       /\ r.chat = None \/ Attr[i].chat = r.chat
       /\ r.job = None \/ JobOf(i) = r.job
       /\ r.ids # {} \/ r.chat # None \/ r.job # None

\* Pending items of S end at once, running items of D are only marked.
Supersede(S, D, outcome) ==
    LET fate == [i \in S |-> outcome]
    IN  /\ S \cup D # {}
        /\ Resolve(fate, wake, cancelled \cup D)
        /\ Progress(fate, body)
        /\ UNCHANGED <<worker, slot, msg, albums, quiet, closed>>

RunningItems == {i \in Item : status[i] = "running"}

\* cancel(): a running item is only marked, and only by --all or --job.
Dooms(r, i) == r.all \/ (r.job # None /\ JobOf(i) = r.job /\ r.ids = {})
Cancel(r) ==
    Supersede({i \in Pending : Matches(r, i)}, {i \in RunningItems : Dooms(r, i)}, "superseded")

\* forget_job(): the job was removed; its items leave no outcome and no key.
ForgetJob(j) ==
    Supersede({i \in Pending : JobOf(i) = j}, {i \in RunningItems : JobOf(i) = j}, "dropped")

\* _takeover(): the user read or wrote in the chat up to message m.
TakenOver(c, t, m) ==
    {i \in Pending : /\ Attr[i].chat = c /\ msg[i] <= m
                     /\ t = None \/ Attr[i].topic = t
                     /\ Attr[i].takeover \in CancelledBy(Kind(i))}
Takeover(c, t, m) == Supersede(TakenOver(c, t, m), {}, "superseded")

Close ==
    /\ ~closed
    /\ closed' = TRUE
    /\ wake' = Kinds
    /\ UNCHANGED <<status, due, late, heap, body, keys, recent, cancelled,
                   worker, slot, msg, albums, quiet>>

\* stop() ran out of patience: the worker is cancelled, its batch goes back to
\* pending as it was (it will be saved, and run again after a restart).
Abort(k) ==
    /\ closed /\ worker[k] # "off"
    /\ status' = [i \in Item |-> IF i \in Running(k) THEN "pending" ELSE status[i]]
    /\ worker' = [worker EXCEPT ![k] = "off"]
    /\ UNCHANGED <<due, late, heap, wake, body, keys, recent, cancelled,
                   slot, msg, albums, quiet, closed>>

-----------------------------------------------------------------------------
(* The passing of time.                                                    *)

ComesDue(i) ==
    /\ i \in Pending \ due
    /\ due' = due \cup {i}
    /\ UNCHANGED <<status, late, heap, wake, body, keys, recent, cancelled,
                   worker, slot, msg, albums, quiet, closed>>

GoesLate(i) ==
    /\ i \in Live \ late /\ Expires(Kind(i))
    /\ late' = late \cup {i}
    /\ UNCHANGED <<status, due, heap, wake, body, keys, recent, cancelled,
                   worker, slot, msg, albums, quiet, closed>>

SlotOpens(k) ==
    /\ k \notin slot
    /\ slot' = slot \cup {k}
    /\ UNCHANGED <<queueVars, worker, msg, albums, quiet, closed>>

QuietBegins ==
    /\ ~quiet.on /\ quiet.left > 0
    /\ quiet' = [on |-> TRUE, left |-> quiet.left - 1]
    /\ UNCHANGED <<queueVars, worker, slot, msg, albums, closed>>

QuietEnds ==
    /\ quiet.on
    /\ quiet' = [quiet EXCEPT !.on = FALSE]
    /\ UNCHANGED <<queueVars, worker, slot, msg, albums, closed>>

-----------------------------------------------------------------------------
EndOfBatch(k) ==
    Succeed(k) \/ TypeFirst(k) \/ Flood(k) \/ \E retryable \in BOOLEAN : Fail(k, retryable)

Next ==
    \/ \E i \in Item : \/ RollOut(i) \/ PlanNothing(i) \/ Submit(i)
                    \/ ReadFirst(i) \/ ComesDue(i) \/ GoesLate(i)
    \/ \E k \in Kinds : Step(k) \/ Woken(k) \/ Leave(k) \/ EndOfBatch(k) \/ Abort(k) \/ SlotOpens(k)
    \/ \E r \in CancelRequests : Cancel(r)
    \/ \E j \in Job : ForgetJob(j)
    \/ \E c \in Chat, t \in Topic \cup {None}, m \in Msg : Takeover(c, t, m)
    \/ Close \/ QuietBegins \/ QuietEnds

Spec == Init /\ [][Next]_vars

\* Workers and timers are served, every call to Telegram returns or times out,
\* every quiet window ends.  Nothing obliges a job to plan or a user to act.
Fairness ==
    /\ \A k \in Kinds : /\ WF_vars(Step(k)) /\ WF_vars(Woken(k))
                         /\ WF_vars(EndOfBatch(k)) /\ WF_vars(SlotOpens(k))
    /\ \A i \in Item : WF_vars(ComesDue(i))
    /\ WF_vars(QuietEnds)
FairSpec == Spec /\ Fairness
-----------------------------------------------------------------------------
(* Properties.                                                             *)

\* No pending action is invisible to its worker: due_at changes only where the
\* item is pushed again, and _peek never drops an entry that is still needed.
Scheduled == \A i \in Pending : i \in heap

\* A worker that waits without a timeout is told of whatever is queued: clearing
\* the wake event in _step loses no push.
NoLostWakeup == \A k \in Kinds : worker[k] = "idle" /\ Queued(k) # {} => k \in wake

\* One piece of work is queued once: _keys names exactly the live item of a key,
\* and no live key is also remembered as finished.
OneItemPerKey ==
    /\ \A i \in Live : keys[KeyOf(i)] = i /\ KeyOf(i) \notin recent
    /\ \A k \in Key : keys[k] # None => keys[k] \in Live /\ KeyOf(keys[k]) = k

\* What runs together belongs together: one batch per kind, and only while its
\* worker is in it, never a dry run beside a real one or two conversations in one call.
SoundBatches ==
    \A k \in Kinds :
        /\ Running(k) # {} => worker[k] \in {"busy", "acting"}
        /\ \A i, j \in Running(k) : i = j \/ SameBatch(i, j)

\* A batch never outgrows what one call takes: view.execute sends the first 100 ids
\* and still finishes every item it was given.
BatchesFit == \A k \in Kinds : Cardinality(Running(k)) <= BatchMax

\* An album is acted on at most once, and one roll decides for all its messages.
Accepted(i) == status[i] \notin {"new", "skipped"} \cup Refused
AlbumActsOnce ==
    \A i \in Item : AlbumOf(i) # None =>
        /\ Accepted(i) => \A j \in Item \ {i} : AlbumOf(j) = AlbumOf(i) => ~Accepted(j)
        /\ Memo(i).roll = "out" => status[i] \in {"new", "skipped"}

\* The caption flag of an album says whether its item sits on a captioned message.
CaptionFlagAgrees ==
    \A a \in Album :
        albums[a].item # None =>
            (albums[a].caption <=>
                \E j \in Item : AlbumOf(j) = a /\ Attr[j].caption /\ msg[albums[a].item] = Attr[j].msg)

\* The message an action is running on is never replaced under it: reading, acting
\* and reporting are about one message although a caption may arrive in between.
RunningKeepsTarget == [][\A i \in Item : status[i] = "running" => msg'[i] = msg[i]]_vars

\* A retry never outlives its budget: transient failures and FLOOD_WAITs are
\* counted apart, and survive every requeue.
BoundedRetries ==
    \A i \in Live : body[i].fails <= Limit(Kind(i)) /\ body[i].floods <= MaxFloods

\* No item starts early, past its expiry or inside its quiet hours, also not as
\* another item's companion in a batch.
StartsWhenAllowed ==
    [][\A i \in Pending : status'[i] = "running" => i \in due \ late /\ ~Held(i)]_vars

\* "Cancelled while it was running: finish it, never requeue it" (_doomed), as
\* long as the scheduler is not being stopped.
DoomedNeverRequeued ==
    [][\A i \in cancelled : status[i] = "running" /\ status'[i] = "pending" => closed]_vars

\* The contract of the queue (ActionPromise): what is accepted is in hand once,
\* is settled only once, and is not put back once it was withdrawn.
Stage(s) ==
    CASE s = "new"                       -> "offered"
      [] s \in Refused \cup {"skipped"}  -> "refused"
      [] s = "pending"                   -> "waiting"
      [] s = "running"                   -> "acting"
      [] OTHER                           -> "settled"
Promise == INSTANCE ActionPromise
    WITH WorkOf <- [i \in Item |-> KeyOf(i)], stage <- [i \in Item |-> Stage(status[i])],
         withdrawn <- cancelled, stopping <- closed
PromiseKept == Promise!Spec

\* Every action the scheduler accepted is finished, one way or another.
EveryActionEnds == \A i \in Item : status[i] = "pending" ~> (status[i] \in Ended \/ closed)
=============================================================================
