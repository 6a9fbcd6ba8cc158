-------------------------- MODULE DurableScheduler --------------------------
(***************************************************************************)
(* ActionScheduler with its file, accounts/<alias>/pending.json            *)
(* (src/tlgr/gateway/pending.py and the persistence part of scheduler.py): *)
(* the debounced save, the chained thread writes, the clean stop, the      *)
(* crash, and the restart that preloads the file and later resumes it.     *)
(* Every action of ActionScheduler is taken with what it does to the save  *)
(* timer: those that call `_dirty` arm it, the others leave it alone.      *)
(***************************************************************************)
EXTENDS ActionScheduler, Sequences

CONSTANTS
    MaxBoots,     \* bound: the daemon restarts at most this often
    MaxWrites     \* bound: so many saves at most wait for a slow disk

VARIABLES
    timer,    \* _save_handle is armed
    writes,   \* the snapshots whose thread writes are chained and not done
    disk,     \* the content of pending.json
    life,     \* "up"; "saving": stop() awaits the save; "flushed": stop() is done
    resumed,  \* _resumed: the items the file held came back
    awaited,  \* how many of the writes stop() still waits for
    boots,    \* how often the daemon was started again, after a crash or a stop
    sent,     \* history: how often the work of a key was carried out
    doomed    \* history: what was cancelled while it ran and has not ended since

saveVars    == <<timer, writes, disk>>
durableVars == <<saveVars, life, resumed, awaited, boots, sent, doomed>>
allVars     == <<vars, durableVars>>

-----------------------------------------------------------------------------
(* The file.                                                               *)

HeldItems == {i \in Item : status[i] = "held"}

\* save_raw keeps MAX_PENDING items, the queue's own before the held ones, and
\* the newest RECENT_KEYS keys, the held items' being the newest of a fresh boot.
FirstOf(S, T, n) ==
    IF Cardinality(S \cup T) <= n THEN S \cup T
    ELSE CHOOSE u \in SUBSET (S \cup T) : Cardinality(u) = n /\ (S \subseteq u \/ u \subseteq S)

\* Mutant: the held items are not written back.
OwnItems == FirstOf(Live, {}, MaxPending)
SavedItems == FirstOf(Live, HeldItems, MaxPending)
Snapshot ==
    [items  |-> SavedItems,
     body   |-> [i \in SavedItems |-> body[i]],
     msg    |-> [i \in SavedItems |-> msg[i]],
     recent |-> FirstOf({KeyOf(i) : i \in HeldItems} \cap recent, recent, RecentKeys)]

Latest == IF writes = <<>> THEN disk ELSE writes[Len(writes)]

NoFile == [items |-> {}, body |-> [i \in {} |-> Fresh], msg |-> [i \in {} |-> 0], recent |-> {}]

\* _save_soon: serialise now, write in a thread after the previous write.
SaveSoon ==
    /\ timer /\ Len(writes) < MaxWrites
    /\ timer' = FALSE
    /\ writes' = Append(writes, Snapshot)
    /\ UNCHANGED <<vars, disk, life, resumed, awaited, boots, sent, doomed>>

\* Mutant: the wait is not over when the awaited write is.
WriteLandsUnseen ==
    /\ writes # <<>>
    /\ disk' = Head(writes)
    /\ writes' = Tail(writes)
    /\ UNCHANGED <<vars, timer, life, resumed, awaited, boots, sent, doomed>>
WriteLands ==
    /\ writes # <<>>
    /\ disk' = Head(writes)
    /\ writes' = Tail(writes)
    /\ awaited' = IF awaited > 0 THEN awaited - 1 ELSE 0
    /\ UNCHANGED <<vars, timer, life, resumed, boots, sent, doomed>>

-----------------------------------------------------------------------------
(* The scheduler's actions, with the save timer.                           *)

History(done) ==
    /\ sent' = [k \in Key |-> IF \E i \in done : KeyOf(i) = k THEN sent[k] + 1 ELSE sent[k]]
    /\ doomed' = {i \in doomed \cup cancelled' : status'[i] \in {"pending", "running", "held"}}
\* Mutant: the save is not asked for.
NotDirty == UNCHANGED timer
Dirty == timer' = TRUE
DirtyIf(p) == timer' = (timer \/ p)
Clean == UNCHANGED timer

Plans(i) ==
    /\ life = "up"
    /\ \/ (RollOut(i) \/ PlanNothing(i)) /\ Clean
       \/ /\ RolledIn(i)
          /\ \/ Duplicate(i) /\ Clean
             \/ Sibling(i) /\ DirtyIf(msg' # msg)
             \/ Full(i) /\ Clean
             \/ Insert(i) /\ Dirty

Works(k) ==
    \/ Step(k) /\ DirtyIf(due' # due)
    \/ (Woken(k) \/ Leave(k) \/ Abort(k)) /\ Clean

Ends(k) == (TypeFirst(k) \/ Flood(k) \/ \E r \in BOOLEAN : Fail(k, r)) /\ Dirty

Commands ==
    \/ \E r \in CancelRequests : Cancel(r) /\ DirtyIf(status' # status)
    \/ \E j \in Job : ForgetJob(j) /\ Dirty
Overtakes ==
    \E c \in Chat, t \in Topic \cup {None}, m \in Msg : Takeover(c, t, m) /\ Dirty

Passing ==
    /\ \/ \E i \in Item : ComesDue(i) \/ GoesLate(i)
       \/ \E k \in Kinds : SlotOpens(k)
       \/ QuietBegins \/ QuietEnds
    /\ Clean

Steps ==
    /\ \/ \E i \in Item : Plans(i) \/ (ReadFirst(i) /\ DirtyIf(status' # status))
       \/ \E k \in Kinds : Works(k) \/ Ends(k)
       \/ life = "up" /\ (Commands \/ (Close /\ Clean))
       \/ Overtakes
       \/ Passing
    /\ History({})
Finishes(k) == Succeed(k) /\ Dirty /\ History({i \in Running(k) : ~Attr[i].dry})

Schedules ==
    /\ Steps \/ \E k \in Kinds : Finishes(k)
    /\ UNCHANGED <<writes, disk, life, resumed, awaited, boots>>

-----------------------------------------------------------------------------
(* Stop, crash, restart.                                                   *)

\* stop() once the workers are gone: it awaits the save task of that moment, then
\* flush() cancels the timer and writes.  A later save's thread is not awaited.
AwaitSave ==
    /\ life = "up" /\ closed /\ \A k \in Kinds : worker[k] = "off"
    /\ life' = "saving" /\ awaited' = Len(writes)
    /\ UNCHANGED <<vars, saveVars, resumed, boots, sent, doomed>>

Flush ==
    /\ life = "saving" /\ awaited = 0
    /\ timer' = FALSE
    /\ disk' = Snapshot
    /\ life' = "flushed"
    /\ UNCHANGED <<vars, writes, resumed, awaited, boots, sent, doomed>>

\* The keys of the finished items and of the held ones.  Mutants: one of the two.
HeldKeys == {KeyOf(i) : i \in disk.items}
FinishedKeys == disk.recent
PreloadedKeys == disk.recent \cup {KeyOf(i) : i \in disk.items}

\* A new process preloads the file: items are held, their keys count as known.
\* What only the old process knew is gone.
Boot ==
    /\ boots.crashes + boots.restarts < MaxBoots
    /\ life' = "up" /\ resumed' = FALSE /\ awaited' = 0
    /\ status' = [i \in Item |-> CASE i \in disk.items -> "held"
                                   [] i \notin disk.items /\ i \in Live \cup HeldItems -> "lost"
                                   [] OTHER -> status[i]]
    /\ body' = [i \in Item |-> IF i \in disk.items THEN disk.body[i] ELSE Fresh]
    /\ msg' = [i \in Item |-> IF i \in disk.items THEN disk.msg[i] ELSE Attr[i].msg]
    /\ recent' = PreloadedKeys
    /\ keys' = [k \in Key |-> None]
    /\ due' = {} /\ late' = {} /\ heap' = {} /\ wake' = {} /\ cancelled' = {}
    /\ worker' = [k \in Kinds |-> "step"]
    /\ slot' = Kinds
    /\ albums' = [a \in Album |-> [roll |-> "none", item |-> None, caption |-> FALSE]]
    /\ closed' = FALSE
    /\ timer' = FALSE /\ writes' = <<>>
    /\ UNCHANGED <<quiet, disk, sent, doomed>>

Crash == Boot /\ boots' = [boots EXCEPT !.crashes = @ + 1]
Restart == life = "flushed" /\ Boot /\ boots' = [boots EXCEPT !.restarts = @ + 1]

\* resume(): the items of jobs that run again come back, once; of two with one key,
\* or of one whose key is live again, the later is passed over.
Resume(active) ==
    LET known == {i \in HeldItems : JobOf(i) \in active}
        free  == {i \in known : keys[KeyOf(i)] = None}
    IN  /\ ~resumed /\ life = "up" /\ resumed' = TRUE
        /\ \E back \in SUBSET free :
              /\ \A i \in free : \E j \in back : KeyOf(j) = KeyOf(i)
              /\ \A i, j \in back : KeyOf(i) = KeyOf(j) => i = j
              /\ status' = [i \in Item |-> IF i \in back THEN "pending"
                                           ELSE IF i \in HeldItems THEN "dropped" ELSE status[i]]
              /\ recent' = recent \ {KeyOf(i) : i \in back}
              /\ keys' = [k \in Key |-> IF \E i \in back : KeyOf(i) = k
                                        THEN CHOOSE i \in back : KeyOf(i) = k ELSE keys[k]]
              /\ heap' = Pushed(heap, back)
              /\ \E d \in SUBSET back : due' = due \cup d
              /\ \E l \in SUBSET {i \in back : Expires(Kind(i))} : late' = late \cup l
              /\ wake' = Alarmed(wake, back)
              /\ timer' = (timer \/ back # {} \/ HeldItems \ known # {})
        /\ UNCHANGED <<body, cancelled, worker, slot, msg, albums, quiet, closed,
                       writes, disk, life, awaited, boots, sent, doomed>>

DurableInit ==
    /\ Init
    /\ timer = FALSE /\ writes = <<>> /\ disk = NoFile
    /\ life = "up" /\ resumed = FALSE /\ awaited = 0
    /\ boots = [crashes |-> 0, restarts |-> 0]
    /\ sent = [k \in Key |-> 0] /\ doomed = {}

DurableNext ==
    \/ Schedules \/ SaveSoon \/ WriteLands \/ AwaitSave \/ Flush \/ Crash \/ Restart
    \/ \E active \in SUBSET Job : Resume(active)

DurableSpec == DurableInit /\ [][DurableNext]_allVars
-----------------------------------------------------------------------------
(* Properties.                                                             *)

IsSnapshot(s) ==
    /\ DOMAIN s = {"items", "body", "msg", "recent"}
    /\ s.items \subseteq Item /\ s.recent \subseteq Key
    /\ s.body \in [s.items -> Body] /\ s.msg \in [s.items -> Nat]

\* Types, and stop() waits for no more writes than there are.
DurableTypeOK ==
    /\ timer \in BOOLEAN /\ resumed \in BOOLEAN
    /\ IsSnapshot(disk) /\ \A n \in 1 .. Len(writes) : IsSnapshot(writes[n])
    /\ life \in {"up", "saving", "flushed"}
    /\ awaited \in 0 .. Len(writes)
    /\ boots \in [crashes : Nat, restarts : Nat]
    /\ sent \in [Key -> Nat] /\ doomed \subseteq Item

\* What a boot makes of a file: the keys of its items are known anyway.
Restores(s) == [s EXCEPT !.recent = @ \cup {KeyOf(i) : i \in s.items}]

\* Every change is written: with no save pending, the file (or the write on its way
\* to it) restores what is in memory.
EveryChangeSaved == life # "flushed" /\ ~timer => Restores(Latest) = Restores(Snapshot)

\* What is on disk and not finished stays on disk: no save drops the items a boot
\* has read and not resumed yet, and no older write lands over a newer one.
DurableUntilSettled ==
    [][\A i \in disk.items \cap (Live \cup HeldItems) : i \in disk'.items]_allVars

\* A clean restart repeats nothing; a crash repeats a piece of work once at most.
RepeatsOnlyAfterCrash == \A k \in Key : sent[k] <= 1 + boots.crashes

\* "Held keys count as pending: a replay must not schedule a copy" (preload).
HeldNotCopied == \A i \in HeldItems, j \in Live : KeyOf(i) # KeyOf(j)

\* "Cancelled while it was running: finish it, never requeue it" (_doomed), also
\* when the daemon stops or dies before it is finished.
DoomedStaysDoomed ==
    [][\A i \in doomed : status[i] # "running" => status'[i] # "running"]_allVars
=============================================================================
