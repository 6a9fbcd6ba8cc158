# tlgr: TLA+ models and proofs

tlgr keeps a daemon beside a Telegram account: clients send it operations, and jobs
(`jobs.yaml`) react to messages by themselves. These modules model the part of it that
decides *when and how often* a job acts on the account, where a mistake is visible to other
people (a second reaction, a reply nobody wants any more, an account that stays online), and
that runs unattended for weeks through reconnects, FLOOD_WAITs, restarts and crashes.

Paths below are relative to `src/tlgr/`.

## 1. The system

| component | state it keeps | operations | modelled in |
|---|---|---|---|
| job-action scheduler, `gateway/scheduler.py` | `items`, a heap and a wake event per kind, `_keys`, `_recent`, `_albums`, `_running`, `_cancelled`, read marks | `album_roll`, `submit`, one worker per action kind, `_execute`, `_failed`, `ensure_read`, `cancel`, `forget_job`, takeover, `close`, `stop` | ActionScheduler, without the read marks |
| pending store, `gateway/pending.py` | `accounts/<alias>/pending.json` | `load`, `save_raw`; the scheduler's `_dirty`, `_save_soon`, `flush`, `preload`, `resume` | DurableScheduler |
| presence, `gateway/presence.py` | `online`, `_holds`, `_linger_until`, the countdown task | `before`, `after`, `_go_offline_later`, `stop` | Presence |
| pacer and knobs, `gateway/pacer.py`, `knobs.py` | time of the next slot, calls of the last hour, slowdown | `delay`, `consume`, `hold_until` | ActionScheduler (`slot`) |
| actions, `actions/*.py` | class attributes | `plan`, `execute`, `batch_key` | ActionScheduler |
| gateway engine, `gateway/engine.py` | jobs, their filters and rate windows | `_schedule`, `on_event` | ActionScheduler (`_schedule`), JobControl (`on_event` at its awaits) |
| event bus and `events.watch`, `daemon/events.py`, `ops/events.py` | sequence numbers, ring buffer, lanes, subscriber queues | `emit`, `publish`, `replay`, `flush_state`, `stop`, the lane workers, `watch` | EventStream, Delivery |
| webhook pusher, `daemon/webhook.py`, dead-letter commands of `ops/daemon.py` | queue, workers, dead letters | `enqueue`, `_deliver`, `stop`; send and delete dead letters | Delivery |
| sessions, `daemon/session.py`, `sessions.py` | the account's object, its lock, supervisor, client, flood threshold | `start`, `acquire`, `flood_budget`, reconnect, `release` | Session |
| limits and dispatch, `daemon/ratelimit.py`, `dispatch.py` | buckets, breaker | `check`, `execute` | Session (the steps of a request) |
| job runner, `jobs/*.py`, `daemon/jobs.py`, `daemon/app.py` | `jobs.yaml`, running jobs, their tasks and handlers | `create_job`, `reload_jobs`, enable, disable, remove | JobControl |
| daemon lifecycle, `daemon/app.py`, `main.py`, `singleton.py`, `idle.py` | the parts above, requests in flight | boot, reload, idle stop, shutdown | where the parts meet: DurableScheduler (boot, stop), JobControl (reload), Delivery and EventStream (order of the shutdown), Session (`release`, as in `stop_all`) |
| client autostart, `transport/autostart.py` | spawn lock, socket file | connect, spawn, remove a stale socket | planned |
| transfers, login, filters, processors, operations, CLI | small or none | | see section 6 |

Everything in the daemon is one asyncio event loop (the file writes are the one thing that
runs in threads). So two pieces of code interleave exactly at their `await`s, and a stretch
between two awaits is one action in the modules.

How the parts meet. The bus hands a message to the engine on a lane; the engine filters it and
calls `_schedule`, which rolls the job's percentage, lets the action plan, and submits to the
account's scheduler, without awaiting. A worker per action kind takes the earliest item when
it is due and the pacer's slot is open, asks presence for `before`, lets the action execute
its requests, and finishes, requeues or counts the item. Updates that show the user reading or
writing in a chat reach the scheduler through the same bus and withdraw what is pending there.
`job queue cancel`, `job remove` and `job disable` come in through client requests. Each
change arms a one-second timer that writes the queue to disk.

What is hard in it, and what makes each part correct:

* **Scheduler.** A wake event is cleared before the heap is read and awaited later; heap
  entries are left stale and recognised by their time; a running item cannot be removed, so
  cancelling it leaves a mark that has to be obeyed on every way out of `_execute`; one album
  arrives as several updates; a batch pulls in items the step was not made for; four kinds of
  requeueing share an item. Correct means: no accepted action is forgotten, none runs twice,
  early, late, in quiet hours or after it was withdrawn, and each is finished in the end.
* **Pending store.** Snapshots are taken on the loop and written in threads; between boot and
  `resume` the old queue is held aside while updates are already replayed; a crash loses the
  last second. Correct means: every change is on its way to disk, no save drops what has not
  been resumed yet, a clean restart repeats nothing.
* **Presence.** A call in flight may turn the status off while an action relies on it, and a
  reconnect cancels calls. Correct means: online while an action runs, offline after it.
* **Event stream.** The ring and the watcher's queue overflow independently; the watcher waits
  on several queues at once and cancels the tasks that lost; numbers are saved every five
  seconds. Correct means: up to where a watcher is, each number was seen, announced as lost, or
  lost in a way that has a name; and the cursor it keeps is good for the next daemon.
* **Delivery.** Lanes, queue and workers each drop or hold on to events; a dead-letter command
  rewrites the whole store; the pusher is stopped before the bus. Correct means: the order of a
  chat is kept, an event is not delivered from two places, and gets lost in known ways only.
* **Sessions and requests.** A released object is stopped while its successor could be made;
  Telethon reconnects behind the supervisor's back; overlapping requests share one flood
  threshold. Correct means: one holder of the session file, nothing missed while offline, no
  request slept on beyond its own budget, and an account that comes back.
* **Jobs.** Reloads and commands wait for tasks and accounts and meet there; a handler that was
  called goes on when its job is gone. Correct means: no handler out of reach of the commands,
  off means off, and a typo in the file takes nothing down.

`PROJECT.json` lists the hazards line by line, with the property that covers each or the
reason none does yet.

## 2. The modules

```
ActionPromise            what the queue promises: offered, refused, waiting, acting, settled
   ^ refined by
ActionScheduler          the queue in memory, all its workers         <- MCScheduler
   ^ EXTENDS
DurableScheduler         + the file, stop, crash, restart, resume     <- MCDurable
Presence                 the online status around actions
EventStream              numbers, ring, watcher, through restarts     <- MCStream
Delivery                 lanes, webhook, dead letters, shutdown       <- MCDelivery
Session                  session objects, supervisor, requests        <- MCSession
JobControl               jobs.yaml, reloads, commands, handlers       <- MCJobs
<Module>_proofs          the theorems about each of these modules; ActionScheduler_proofs
                         has the refinement of ActionPromise too
```

The last four modules stop where another one begins: JobControl reduces the scheduler to the
jobs that have something queued and the bus to a handler that may be called; Delivery takes
the events EventStream numbers without their numbers; Session has requests, not what they ask.

### ActionScheduler

| variable | code |
|---|---|
| `status` | whether an item is in `items`, and in `_running`; for the others the counter it ended in, or why `submit` refused it |
| `due`, `late` | `due_at` has come, `expires_at` has passed |
| `heap` | the items with an entry in `_heaps[kind]` that matches their `due_at` |
| `worker` | where the worker task of a kind is: about to `_step`, in `_wait` without or with a timeout, in `_execute`, in `_execute` after `ensure_read`, gone |
| `wake`, `slot` | `_wake[kind].is_set()`; `Pacer.delay` is 0 |
| `msg`, `body` | `msg_id`; `phase`, `attempts`, `floods` |
| `keys`, `recent`, `albums`, `cancelled`, `closed` | `_keys`, `_recent`, `_albums`, `_cancelled`, `_closed` |
| `quiet` | the quiet hours are on |

`RollOut`, `PlanNothing`, `Submit` are what one message does through `_schedule`. `Step` is
one pass of `_step` up to its next await: sleep (`Idle`, `WaitDue`, `WaitSlot`), `Drop` an
expired item, `Hold` one for quiet hours, or `Start` a batch. `Succeed`, `TypeFirst`, `Flood`
and `Fail` are the ends of `_execute`; all go through `Fate` (`_doomed`) and `Resolve`
(`_finish`, `_remove`, `_reschedule`). `ReadFirst` is `ensure_read`; `Cancel`, `ForgetJob`,
`Takeover`, `Close` and `Abort` come from outside the workers. `Abort` is what `stop` does to
a worker that does not end in time.

Abstractions. Clock readings are reduced to the comparisons made with them: an item comes due,
goes late, a slot opens, quiet hours begin and end, each as an action of its own. A stale heap
entry is invisible to `_peek`, so only matching ones are kept. `default_expiry` is the class
default; the override `pacing.expire` is not modelled. The eviction of album memories
(`_ALBUM_MEMORY`) is not modelled. Whether an update is a takeover at all (the read marks,
the own-send window) is not modelled: `Takeover` may happen at any time. None of the action
classes returns "skipped" from `execute`, so a running item never ends so.

### DurableScheduler

Takes every action of ActionScheduler with what it does to the save timer (`Dirty`, `Clean`,
`DirtyIf`), and adds `SaveSoon` (the timer fires: serialise, chain a thread write),
`WriteLands` (the thread wrote), `AwaitSave` and `Flush` (`stop`), `Boot` (`preload`, after a
`Crash` at any point or a `Restart` after a clean stop) and `Resume` (with any set of running
jobs; of held items with one key the first comes back, and one whose key is queued again is
passed over, neither restored nor counted as dropped). A `held` item is in `_held`; a `lost` one was in the memory of a process that died.
`sent` and `doomed` are history variables. Takeovers are allowed also while the scheduler is
stopping, because a bus lane iterates over a copy of its handlers. An unreadable file (logged)
and a failing write (suppressed) are left out.

### Presence

Two or more workers, one countdown. `before` counts a hold and raises the status;
`after` gives the hold back and starts the countdown unless one is running; the countdown
lowers the status when nothing holds it, and restores it when an action began while the call
was in flight. A `Disconnect` cancels the calls in flight, which ends `before` and the
countdown in it, as Telethon does.

### EventStream

| variable | code |
|---|---|
| `seq`, `file`, `dirty` | `_seq`, the number in `events.state`, `_dirty` |
| `ring` | the numbers in `_buffers[account]` |
| `queue`, `dropped` | `Subscriber.queue` and `Subscriber.dropped` |
| `stream` | the await at which `watch` is; `getting`, `done`, `later` are its get tasks that run, that finished, and that are still to be cancelled; `hand` what a finished one took |
| `gap`, `rest` | the frames of `replay` still to be sent |
| `cursor` | the last number the watcher was shown, its next `--since` |
| `tally` | what the present stream accounts for (history) |

`Emit` is `emit` with `publish` and `offer`; `Flush` a round of `_flush_loop`, in which writes
may fail; `Stop` is `EventBus.stop`, after which sessions still emit until `Exit`. `Subscribe`
is `watch` up to its first frame, which has no await; `Take`, `Wake`, `CancelNext`, `TakeLag`
and `Show` are its loop over several queues, where a get task may finish while another is
being cancelled. All events are of types the watcher asked for; what its selection passes over
is looked at as well, so that choice is free. Left out: the conversion of updates to events,
heartbeats as frames, ending a stream whose client does not read.

### Delivery

| variable | code |
|---|---|
| `emitted` | events published; an event is its place in that order |
| `lane`, `handling` | `EventBus._lanes`, and the event whose handlers a lane's worker calls |
| `queue`, `post` | `WebhookPusher._queue`, and what each worker delivers with its failed attempts |
| `letters`, `command` | `dead_letter.jsonl`; `dead_letter_send` between reading it and writing it back |
| `pusher`, `process` | whether `stop` waits or has ended; whether the daemon lives |
| `settled` | acknowledged, not wanted, or deleted by the user (history) |

One action per await: a lane hands over (`Handle`), `on_event` passes an event over or calls
`enqueue`; a worker takes, posts, tries again or writes a dead letter; `Resend`, `ResendOne`,
`WriteBack` are the command, which the daemon's end or its timeout may interrupt; `Drain`,
`CutOff`, `Exit` are the shutdown in the order of `daemon/app.py`. A crash is left out: it
loses what is in memory, which `LostOnlyWhen` would have to allow in full. Left out too:
signing and encoding, the rotation of the dead-letter file at 16 MB, the purge by age,
`webhook push`, two dead-letter sends at once.

### Session

`registered` is the table of the manager, `lock` the lock of the session file. Of each
AccountSession object there are `state`, `sup` (the await its supervisor is at), `client`
("none", "down", "up") with `caught` and `hook`, and `threshold`, the client's
`flood_sleep_threshold`. `req` holds each request's step: given an object, waiting in
`acquire`, woken, waiting for the bucket (`paced`), inside its operation with its budget.
A request that finds no object makes one (`Made`) with no await between the lookup, the lock
and the supervisor's start; `Release` and `ShutDown` are the two halves of `release`, apart
because `stop` awaits. `Drop` and `Reconnected` are Telethon's (external). Left out: the state
saver, the clock watcher, the resync after a difference that is too long, presence at connect,
`daemon reconnect` without `--reset-proxy`.

### JobControl

A *run* is one Gateway object, so the old and the new object of a job exist side by side.
`runner` is `JobRunner._jobs`; `jobOf`, `enabled`, `task`, `bus` are an object's job, flag, task
and handler registration; `calls` the handlers that were called and await; `queued` the jobs
with pending actions; `reload` where each `reload_jobs` is, what it read and what is left to
do; `command` and `what` the command on a job and the task it waits for. `Load`, `Compare`,
`TakeOut`, `TakenOut`, `Replace`, `Stopped`, `NoClient`, `Create`, `Loaded` are a reload cut at
its awaits (the file is read in a thread; a task is awaited; an account connects). `off` and
`overlapped` are history. Left out: a job that fails in its setup, two commands on one job.

## 3. The runs

| run | instance | checks | distinct states |
|---|---|---|---|
| MCCoalesce | four reads of a chat, one under quiet hours, one dry; batches of two | Scheduled, NoLostWakeup, SoundBatches, BatchesFit, StartsWhenAllowed | 544,796 |
| MCRetry | a reply that types first, its replay, another job's dry run; queue of two, one remembered key | TypeOK, OneItemPerKey, BoundedRetries, DoomedNeverRequeued, PromiseKept | 76,750 |
| MCAlbum | three messages of an album, the second captioned, and a read; queue of one | AlbumActsOnce, CaptionFlagAgrees, RunningKeepsTarget | 262,182 |
| MCDrain | a read under quiet hours and a reaction that reads first, fair | EveryActionEnds | 27,117 |
| MCDurable | a forward, its replay, another job's dry run; one crash or restart | DurableTypeOK, EveryChangeSaved, RepeatsOnlyAfterCrash, HeldNotCopied, DurableUntilSettled | 2,097,184 |
| MCPresence | two workers, four actions, one reconnect | PresenceTypeOK, OnlineWhileActing | 844 |
| MCStream | four events of a busy account and one of a quiet one, two streams, one restart, one crash or failed write | StreamTypeOK, NoSilentLoss, CursorSurvives, OnceInOrder | 4,473,424 |
| MCDelivery | four events of two chats, two workers, two dead-letter commands, a shutdown at any point, fair | DeliveryTypeOK, LaneOrderKept, OnePlace, LostOnlyWhen, NeverStuck | 199,366 |
| MCSession | an object and its successor, two requests, two lost connections, fair | SessionTypeOK, OneSessionFile, CaughtUpWhenOnline, BudgetKept, Recovers | 229,975 |
| MCJobs | one job, two reloads, three objects, two edits | JobTypeOK, NoOrphan, OffMeansOff, TypoTakesNothingDown, DroppedStaysDropped | 1,126,062 |
| MCDoomed | a forward cancelled while it runs, one crash or restart | DoomedStaysDoomed, violated | |
| MCPresenceOffline | as MCPresence, no reconnect, fair | GoesOffline, violated | |

**Bounds.** `MaxPending`, `RecentKeys`, `BatchMax`, `Retries`, `PatientRetries` and
`MaxFloods` are parameters of the code (10000, 5000, 100, 3, 12, 10) that the instances set so
low that the limit is reached: a full queue, a forgotten key, a batch that is cut, an item at
its last retry. Bounds of the model only are `QuietWindows` (how often quiet hours begin),
`MaxBoots`, `MaxWrites` (waiting thread writes; the timer waits at the bound, as if the disk
were quicker), and in Presence `Actions` and `Disconnects`. One window shows both edges of
quiet hours; one boot separates two lives of a process, and the properties relate at most
two; one waiting write is what it takes for `flush` to come before an older write, and MCDoomed
has two. Three or four items
are needed for a batch, its cut-off companion and one that must stay out; an album needs a
message before and after the captioned one. The conditions compare ids and keys only, and each
instance keeps to the actions it is about.

HeldNotCopied and RepeatsOnlyAfterCrash hold as long as `_recent` was never trimmed. The
instance has fewer keys than `RecentKeys`, so it never is. The code trims it at 5000 keys while
`preload` enters up to 10000 held ones: with a long queue a finished key can push a held one
out, and a replayed update would queue a copy. EveryChangeSaved and DurableUntilSettled hold as
long as the file is not cut at `MaxPending` items. Section 4 has both bounds as hypotheses.

In EventStream `RingSize` and `QueueSize` (4096 and 2048 in the code) are 2 and 1, so that
four events overflow both, apart and together; the quiet account is there for the task that
`watch` cancels, and has one event, which is what can be discarded. Two streams and one restart
are a cursor that was kept and used, before and after. In Delivery lanes of one
(512 in the code) and a queue of two overflow with three events of one chat on their way; the other chat's event shows that
order is kept per chat only. Two attempts are one that is repeated and the last; two commands
are a send and a delete meanwhile. In Session two objects are the one being stopped and the one
a request would make; two budgets and a larger default tell the stack's three outcomes apart.
In JobControl three objects are one a reload replaces, its successor, and a second reload's;
commands count as edits, and two of them let a reload be met by a command after the file changed. The
properties are about one job each and jobs meet only in the reload's loops; the theorems are
about any number. `Run` and `Reload` are symmetric there, which is sound: no property of the
run is about liveness and no object or reload is singled out.

Deadlock is checked in MCJobs, where a reload can always begin and end. It is not checked
elsewhere: a scheduler that is stopped, an account whose objects are used up, or a daemon that
has shut down is done.

**Fairness.** `FairSpec` of ActionScheduler is weak fairness of the workers (tasks of the
loop, `_wait` has a timeout of a minute at most), of the end of a batch (a call returns, fails
or times out), of an item's coming due, of the pacer's slot and of the end of quiet hours
(clock). Nothing obliges a job to plan, the user to act, or quiet hours to begin, and none is
assumed of `Fail` against `Succeed`: retries are bounded. In Presence the countdown's `Lower`
has strong fairness: a `session` action that is due soon makes it linger again, and what is
due soon does not stay due soon for ever.

In Delivery the lanes' and the pusher's workers are tasks, a post has a timeout, and a shutdown
that began goes on; nobody is obliged to begin one, nor to send dead letters. In Session the
supervisor and the requests go on (weak fairness); of an attempt to connect and to authorize
the assumption is strong fairness: the backoff has no last attempt, so a network that works
again and again lets one through at last. Nothing is assumed of drops, releases or logins.
EventStream and JobControl are checked for safety only.

**What the violated runs show.**

* *MCDoomed.* The mark of an item cancelled while it runs is not saved: after a stop that
  interrupts it, or a crash, the item runs again, against "finish it, never requeue it".
* *MCPresenceOffline.* The countdown restores the status and returns; an action that ends
  during that call sees a task that is not done and starts no other. The account stays online
  until the next action ends; `gateway/README.md` says about five seconds.

**What the passing runs allow on purpose.** Some properties name a loss the code accepts or
overlooks, so that they say there is no other: NoSilentLoss counts numbers hidden by an empty
ring after a restart (`replay` sends no gap frame then) and events discarded with a get task
that finished while `watch` awaited another's cancellation; LostOnlyWhen allows posts that a
shutdown cuts off and dead letters written while a command holds an older copy of the store;
CursorSurvives and OnceInOrder are silent after a crash or failed write; NoOrphan and OffMeansOff
end where two reloads overlap, or a reload meets the command: there the code does leave an
object running that no command reaches.

**Seen while modelling, without a run.** `job queue cancel --job --chat` also marks running
items of other chats (`ops/job.py:883`: "Selectors combine"). The album memory is lost at
restart, so that an album whose first message was acted on can get a second action
(`actions/README.md` promises one). The breaker never opens, because nothing calls `trip`,
`strike` or `note_flood`. `job enable` starts nothing for a job that was disabled when the file
was loaded, until the next reload. `acquire` may return a client whose drop the supervisor has
not noticed. `DurableScheduler` reaches a write that lands after `flush` with older contents.

## 4. The proofs

For every value of the constants (`ConstantsAssumption`, `PresenceAssumption`: the types of
the parameters, and that only actions that are done once per album have one):

| theorem | states |
|---|---|
| `TypeCorrect` | `Spec => []TypeOK` |
| `AlwaysScheduled` | every pending item has a heap entry at its present time |
| `NeverLostWakeup` | a worker asleep without a timeout has its event set if it has work |
| `OneItemForEachKey` | `_keys` names exactly the live item of each key |
| `BatchesAreSound` | what runs together belongs together, and its worker is in it |
| `BatchesAlwaysFit`, `RetriesAreBounded` | a batch within `BatchMax`; two budgets of retries that every requeue respects |
| `AlbumsActOnce`, `CaptionFlagsAgree` | one action and one roll for an album; its flag says where the action sits |
| `RunningKeepsItsTarget`, `StartsOnlyWhenAllowed`, `CancelledIsNotRequeued` | the action properties RunningKeepsTarget, StartsWhenAllowed, DoomedNeverRequeued |
| `SchedulerKeepsPromise` | ActionScheduler implements ActionPromise |
| `NeverTwiceInHand` | ActionPromise never has a piece of work in hand twice |
| `DurableTypeCorrect`, `QueueSurvivesRestarts` | files are well formed, and the queue's own invariants hold through crashes and restarts |
| `SmallWorkload` | with no more items than `MaxPending` and fewer keys than `RecentKeys`, ItemsFit and KeysFit always hold |
| `HeldNeverCopied`, `RepeatsAreCrashes` | given KeysFit: no copy of a held item is queued; nothing is repeated but once for each crash |
| `DiskKeepsUntilSettled`, `CleanRestartKeepsAll` | given ItemsFit: no unfinished item leaves the file; a clean stop and start loses nothing |
| `ChangesAreSaved` | given both: no change of what the file holds goes without a save |
| `PresenceTypeCorrect`, `AlwaysOnlineWhileActing` | the two invariants of Presence |
| `StreamTypeCorrect`, `NothingLostSilently` | up to where a stream is, each number was looked at, announced, or lost in one of two named ways |
| `CursorAlwaysSurvives`, `AlwaysOnceInOrder` | without crash or failed write no daemon counts below a watcher's cursor, and it sees events in order and once |
| `DeliveryTypeCorrect`, `AlwaysInOrder`, `AlwaysOnePlace` | queues within their sizes, order within a lane, one place for an event |
| `LostNoOtherWay` | the action property LostOnlyWhen |
| `SessionTypeCorrect`, `AlwaysOneSessionFile` | the holder of the lock is the only one with a client or a supervisor that may connect one |
| `AlwaysCaughtUp`, `AlwaysBudgetKept` | no online account that missed updates; no request under a larger threshold than its budget |
| `JobTypeCorrect`, `AlwaysListed`, `AlwaysOff` | no task out of reach while reloads do not overlap; off means off |
| `NoTypoTakesDown`, `AlwaysDropped` | the action properties TypoTakesNothingDown and DroppedStaysDropped |

The assumptions of the other modules are in the same way the types of their parameters:
sizes and attempts of at least one, numbers for bounds and budgets, `None` outside the sets it
is used with. They hold with the bounds too, whatever the bounds are.

**ActionScheduler.** The inductive invariant is `TypeOK /\ LiveQueued /\ NoLostWakeup /\
OneItemPerKey /\ SoundBatches`. Scheduled alone is not inductive: `Abort` makes running items
pending without pushing them, which is right only because they kept their entries. So
LiveQueued says that *running* items have entries too; that holds although `_peek` drops the
entries of running items, because no item of a kind runs while its worker looks at the heap,
and this is SoundBatches. OneItemPerKey gives `submit` its guarantee that a free key has no
live item. What `Resolve` does is proved once, for any fate, and each action is one of its
uses. The refinement maps `status` to a stage; the one guard that needs the invariant is that
of `Accept`, which asks that no other live item stands for the same work.

The other properties rest on `Shape`: a step either moves no item, plans one, starts a batch,
settles live items by a fate, or aborts a worker. BatchesFit needs the finiteness of what runs
(`FittingBatches`), because the size of an infinite set says nothing. `Budgets` strengthens
BoundedRetries to all items, so that one which is planned brings no failures along. For
AlbumActsOnce, `AlbumsRemember` says that an accepted item is the one its album remembers, and
that an album rolled "yes" as soon as one of its messages came further than the roll;
`CaptionsRemember` says the same of the message the item sits on. CaptionFlagsAgree has one
hypothesis about the input, `CaptionIsOfMessage`: two updates about one message of an album
agree on whether it has the caption. (An update replayed after the caption was edited away
would differ, and the flag with it.)

**DurableScheduler.** `DInv` is the queue's invariant, with finite sets and well-formed files;
it survives a boot because a boot starts an empty queue, and `Resume` because a resumed item
takes a key nobody has. The file and `_recent` are cut at a size, so what is promised about
their content has a hypothesis, `[]ItemsFit` (no more items in memory than `MaxPending`) or
`[]KeysFit` (fewer remembered keys than `RecentKeys`): the state before a cut, whatever led to
it. SmallWorkload shows when both are certain; MCDurable is such an instance. Then:

* HeldNotCopied follows from `HeldKnown` (the key of a held item is in `_recent`), since no
  live key is there.
* RepeatsOnlyAfterCrash needs `FewSends`: what may still be sent, its key being unknown or
  held, was sent at most once for each crash. A restart takes that over from the file, so
  `RestfulStop` says it of the files: of what `flush` wrote and of the older writes that may
  still land after it. Those are right because nothing is sent any more once `stop` waits for
  its save (`Stopped`: all workers are gone).
* DurableUntilSettled needs `WritesKeep` (each write keeps what the file and the writes before
  it hold), which needs `FilesOld` (no file has an item that was never planned) for the items
  that come in, and `StopKeeps` for the writes that land after `flush`. The late write that
  section 3 mentions therefore loses nothing; it may bring back what was settled meanwhile.
* EveryChangeSaved is inductive with these: an action that arms no timer leaves everything the
  file would hold as it was (`CleanStep`), one by one for each place in the code that does not
  call `_dirty`. That `resume` asks for no save when it only passed items over is right
  because of HeldKnown: there is then nothing held.

**Presence.** `OnlineWhileActing` needs `Paid`: while the countdown is lowering or has lowered
the status, who acts holds it, so the countdown sees it and restores it. The types give
`holds >= busy workers`: holds may leak (an action cancelled in `before`) and never run short.

**EventStream.** `Structure` ties the tasks of `watch` to what they hold, and says that a ring
is an interval that ends at `seq`: without that, the gap frame's arithmetic (oldest less
`since`) proves nothing. NoSilentLoss is only about the event the stream is at; `Accounted`
extends it to everything still under way. It bounds each number that is replayed, in hand or
queued, and the next one to be emitted, by what the tally has, plus the gap frame still to be
sent, plus what is ahead of it and will be counted first, plus what the queue has dropped.
`Ordered` holds while nothing failed: what a stream has handled, what is in its replay, in hand
and queued goes up, and stays below what the daemon counts on from, which is `file` as soon as
it is down; that needs a number that differs from the file to be in `dirty`.

**Delivery.** LaneOrderKept speaks of the queue and not of two workers that post two events of
a lane at once, which the code allows. It follows from `Order`: a lane and the queue are in the
order of publication, and what is further on is older than what is behind (`Ahead`). OnePlace
adds `Gone`: what a dead letter or a command holds, and what is settled, is not on its way.
LostOnlyWhen needs the same for the events behind a `Head` or a dropped one.

**Session.** OneSessionFile needs `Retired` (a stopped object has no supervisor) and `InUse`
(the registered object is not being stopped), which together make the lock's holder the only
object that can connect; this is what `Made` gains from taking lock and place with no await
between them. BudgetKept needs `CountedOnce`: an object whose client went while a request was
on its budget stack never builds another, so no later request finds a stack without a client.
That a finite set of budgets has a least one is proved by well-founded induction over numbers.

**JobControl.** `Base` has the types, that an object that is disabled is ending, and that a
cancelled task has somebody who waits for it (`Awaited`). NoOrphan needs `Vacant`: a reload
that is alone enters objects only under names that are free, since it took out what was there.
OffMeansOff follows from NoOrphan and `Quiet`: a job that is off has no task in setup or running
when its command returns, and nobody to start one until a reload begins or `job enable`.

**Only model-checked.** Liveness under fairness (EveryActionEnds, GoesOffline, NeverStuck,
Recovers), which is out of the prover's reach. DoomedStaysDoomed is violated, so there is
nothing to prove. Every safety property that a passing run checks is a theorem.

## 5. The plan

Modules that could still be added, the first the most important:

1. **ReadMarks**: `_read_marks`, `_own_read`, the own-send window and the echoes, composed with
   `Takeover`; checks that the user's own reading is not taken for an echo, nor an echo for it.
2. **Pacer** with a clock: spacing, hourly cap, slowdown after a FLOOD_WAIT, one pacer used by
   a worker and by `ensure_read`.
3. **Autostart**: two clients, spawn lock, stale socket, with the singleton lock and the idle
   stop of the daemon they start.
4. **Transfers**: records of running transfers through a restart.

Theorems still to come: that DurableScheduler, with the items a crash lost set aside,
implements a contract of its own, as ActionScheduler does ActionPromise; HeldNotCopied under a
hypothesis about the number of keys that finish before `resume` instead of KeysFit.

## 6. Not modelled

Most of the repository has no state for a model to be about, and the models cover a small share
of its lines for that reason. `ops/` is about seven tenths of the code: some four hundred
commands, each of which checks its arguments, sends one or a few requests to Telegram, waits
for the answers and converts them. What is hard about them (Telegram's answers, wording, field
by field conversion) is data, and a module for each would only repeat its text. Those that act on
the state of the daemon (`job`, `events watch`, dead letters, reload, reconnect) are actions of
the modules above. In detail:

* **Operations, CLI, models, core helpers**: requests, generated command line, data classes,
  parsing, formatting, paths.
* **Filters and processors**: pure functions of one message. They decide whether an action is
  planned and with which text; the models leave both free.
* **Login**: a short sequential exchange with Telegram on behalf of one user.
* **Transfers**: progress records and partial files; in the plan.
* **Client autostart, singleton, idle stop**: in the plan.
* **Breaker and flood memory** of the rate limiter: no caller in the source.
* Parts of modelled components that are left out are named with their module in section 2.
