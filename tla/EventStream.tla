---------------------------- MODULE EventStream ----------------------------
(***************************************************************************)
(* The numbering of the event bus and one `events.watch` stream over it.   *)
(* The bus gives every event of an account the account's next number,      *)
(* keeps the newest ones in a ring, and offers each to the watcher's       *)
(* bounded queue; the numbers are saved every few seconds and when the bus *)
(* stops.  The watcher subscribes, replays what the ring has after         *)
(* `--since`, then follows its queues; when the stream or the daemon ends  *)
(* it comes back with the last number it was shown.                        *)
(*                                                                         *)
(* An event is its number, and of a type the watcher asked its subscriber  *)
(* for.  What the watcher's selection passes over is looked at like what   *)
(* it shows, so both are `handled`.                                        *)
(***************************************************************************)
EXTENDS Integers, Sequences, FiniteSets

CONSTANTS
    Account,      \* the accounts of the daemon
    None,         \* no number
    RingSize,     \* EventBus.buffer_size
    QueueSize,    \* Subscriber.maxsize
    MaxSeq,       \* bound: numbers of each account
    MaxBoots,     \* bound: starts of the daemon after the first
    MaxFaults,    \* bound: crashes and failed writes of a number
    MaxStreams    \* bound: streams the watcher opens

ASSUME StreamAssumption ==
    /\ None \notin Nat /\ None \notin Account
    /\ RingSize \in Nat \ {0} /\ QueueSize \in Nat \ {0}
    /\ MaxSeq \in [Account -> Nat] /\ MaxBoots \in Nat /\ MaxFaults \in Nat /\ MaxStreams \in Nat

VARIABLES
    daemon,       \* "up", "stopping" (the bus is stopped, sessions are not yet), "down"
    seq,          \* _seq
    file,         \* the number in accounts/<alias>/events.state
    dirty,        \* _dirty
    ring,         \* the numbers in _buffers[account]
    queue,        \* Subscriber.queue
    dropped,      \* Subscriber.dropped
    watched,      \* the accounts the present stream follows, one or `--account all`
    stream,       \* where watch is: "closed", "replay", "wait", "cancel", "serve"
    gap,          \* what the gap frame still to be sent says is lost, or None
    rest,         \* the numbers replay returned that are still to be sent
    getting,      \* the accounts whose queue.get task has not finished
    hand,         \* what a finished get task took, or None
    later,        \* get tasks not done when watch woke, to be cancelled after the one it is at
    done,         \* get tasks that were done when watch woke, not served yet
    looked,       \* the account whose lag was taken for the event in hand, or None
    cursor,       \* the last number the watcher was shown, kept between streams
    tally,        \* what the present stream accounts for
    spent         \* how much of the bounds is used

bus == <<daemon, seq, file, dirty, ring>>
watcher == <<watched, stream, gap, rest, getting, hand, later, done, looked>>
vars == <<bus, queue, dropped, watcher, cursor, tally, spent>>

Empty == [a \in Account |-> <<>>]
Zero == [a \in Account |-> 0]
Nothing == [a \in Account |-> None]
Clear == [from |-> 0, at |-> 0, handled |-> 0, told |-> 0, hidden |-> 0, discarded |-> 0]

Open == stream # "closed"
Oldest(r) == CHOOSE n \in r : \A m \in r : n <= m

Init ==
    /\ daemon = "up" /\ seq = Zero /\ file = Zero /\ dirty = {} /\ ring = [a \in Account |-> {}]
    /\ queue = Empty /\ dropped = Zero
    /\ watched = {} /\ stream = "closed" /\ gap = Nothing /\ rest = [a \in Account |-> {}]
    /\ getting = {} /\ hand = Nothing /\ later = {} /\ done = {} /\ looked = None
    /\ cursor = Zero /\ tally = [a \in Account |-> Clear]
    /\ spent = [boots |-> 0, faults |-> 0, streams |-> 0]

-----------------------------------------------------------------------------
(* The bus *)

\* Mutant of Offer: what is dropped is not counted.
OfferUncounted(a, n) ==
    IF a \in watched /\ daemon = "up"
      THEN /\ queue' = [queue EXCEPT ![a] = Append(IF Len(@) = QueueSize THEN Tail(@) ELSE @, n)]
           /\ UNCHANGED dropped
      ELSE UNCHANGED <<queue, dropped>>

\* Subscriber.offer: drop the oldest when full, and count it.
Offer(a, n) ==
    IF a \in watched /\ daemon = "up"
      THEN /\ queue' = [queue EXCEPT ![a] = Append(IF Len(@) = QueueSize THEN Tail(@) ELSE @, n)]
           /\ dropped' = [dropped EXCEPT ![a] = IF Len(queue[a]) = QueueSize THEN @ + 1 ELSE @]
      ELSE UNCHANGED <<queue, dropped>>

\* emit and publish; sessions are stopped after the bus, so they may still emit then.
Emit(a) ==
    /\ daemon # "down" /\ seq[a] < MaxSeq[a]
    /\ seq' = [seq EXCEPT ![a] = @ + 1]
    /\ dirty' = dirty \cup {a}
    /\ ring' = [ring EXCEPT ![a] =
         (IF Cardinality(@) = RingSize THEN @ \ {Oldest(@)} ELSE @) \cup {seq[a] + 1}]
    /\ Offer(a, seq[a] + 1)
    /\ UNCHANGED <<daemon, file, watcher, cursor, tally, spent>>

\* flush_state: each dirty account's number is written; a write that fails is not repeated.
Flushed(failed) ==
    /\ failed \subseteq dirty
    /\ failed # {} => spent.faults < MaxFaults
    /\ file' = [a \in Account |-> IF a \in dirty \ failed THEN seq[a] ELSE file[a]]
    /\ dirty' = {}
    /\ spent' = [spent EXCEPT !.faults = IF failed = {} THEN @ ELSE @ + 1]

\* One round of _flush_loop.
Flush ==
    /\ daemon = "up" /\ dirty # {}
    /\ \E failed \in SUBSET dirty : Flushed(failed)
    /\ UNCHANGED <<daemon, seq, ring, queue, dropped, watcher, cursor, tally>>

\* Mutant of Stop: the last numbers are left to the flush loop, which is gone.
StopUnsaved ==
    /\ daemon = "up" /\ daemon' = "stopping"
    /\ UNCHANGED <<seq, file, dirty, ring, queue, dropped, watcher, cursor, tally, spent>>

\* EventBus.stop: the subscribers are closed and what is dirty is flushed.
Stop ==
    /\ daemon = "up" /\ daemon' = "stopping"
    /\ \E failed \in SUBSET dirty : Flushed(failed)
    /\ UNCHANGED <<seq, ring, queue, dropped, watcher, cursor, tally>>

\* The stream's queue and tasks go with it; the watcher keeps its cursor.
EndStream ==
    /\ watched' = {} /\ stream' = "closed" /\ gap' = Nothing /\ rest' = [a \in Account |-> {}]
    /\ getting' = {} /\ hand' = Nothing /\ later' = {} /\ done' = {} /\ looked' = None
    /\ queue' = Empty /\ dropped' = Zero /\ tally' = [a \in Account |-> Clear]

\* The rest of shutdown: sessions stop, connections are closed, the process ends.
Exit ==
    /\ daemon = "stopping" /\ daemon' = "down"
    /\ EndStream
    /\ UNCHANGED <<seq, file, dirty, ring, cursor, spent>>

Crash ==
    /\ daemon # "down" /\ daemon' = "down"
    /\ spent.faults < MaxFaults /\ spent' = [spent EXCEPT !.faults = @ + 1]
    /\ EndStream
    /\ UNCHANGED <<seq, file, dirty, ring, cursor>>

\* A new process: load_seq reads the file at the first event of an account.
Boot ==
    /\ daemon = "down" /\ daemon' = "up"
    /\ spent.boots < MaxBoots /\ spent' = [spent EXCEPT !.boots = @ + 1]
    /\ seq' = file /\ dirty' = {} /\ ring' = [a \in Account |-> {}]
    /\ UNCHANGED <<file, queue, dropped, watcher, cursor, tally>>

-----------------------------------------------------------------------------
(* The stream *)

\* Mutant of Replayed: the event the watcher has is sent again.
ReplayedFrom(a, since) == IF since = None THEN {} ELSE {n \in ring[a] : n >= since}

\* EventBus.replay: the numbers after `since` that the ring has.
Replayed(a, since) == IF since = None THEN {} ELSE {n \in ring[a] : n > since}

\* ... and how many the gap frame says are lost; no gap frame for an empty ring.
Lost(a, since) ==
    IF since = None \/ ring[a] = {} \/ since + 1 >= Oldest(ring[a])
      THEN None ELSE Oldest(ring[a]) - since - 1

\* What an empty ring hides: numbers after `since` of a daemon that is gone.
Hidden(a, since) ==
    IF since # None /\ ring[a] = {} /\ since < seq[a] THEN seq[a] - since ELSE 0

\* watch up to the first frame of its replay: subscribe and replay, with no await between.
\* One number is no cursor for several accounts: --since is used with one.  A daemon that is
\* shutting down refuses the request.
Subscribe(accounts, resume) ==
    /\ daemon = "up" /\ ~Open /\ accounts # {}
    /\ resume => Cardinality(accounts) = 1
    /\ spent.streams < MaxStreams /\ spent' = [spent EXCEPT !.streams = @ + 1]
    /\ stream' = "replay" /\ watched' = accounts
    /\ LET since == [a \in Account |-> IF resume /\ a \in accounts THEN cursor[a] ELSE None]
       IN /\ gap' = [a \in Account |-> Lost(a, since[a])]
          /\ rest' = [a \in Account |-> Replayed(a, since[a])]
          /\ tally' = [a \in Account |->
               LET from == IF since[a] = None THEN seq[a] ELSE since[a]
               IN [Clear EXCEPT !.from = from, !.at = from, !.hidden = Hidden(a, since[a])]]
    /\ UNCHANGED <<bus, queue, dropped, getting, hand, later, done, looked, cursor>>

TellGap(a) ==
    /\ stream = "replay" /\ gap[a] # None
    /\ tally' = [tally EXCEPT ![a].told = @ + gap[a]]
    /\ gap' = [gap EXCEPT ![a] = None]
    /\ UNCHANGED <<bus, watched, queue, dropped, stream, rest, getting, hand, later, done, looked, cursor, spent>>

\* An event has been looked at: shown, which moves the watcher's cursor, or passed over.
Handle(a, n, shown) ==
    /\ tally' = [tally EXCEPT ![a].handled = @ + 1, ![a].at = n]
    /\ cursor' = IF shown THEN [cursor EXCEPT ![a] = n] ELSE cursor

ReplayOne(a) ==
    /\ stream = "replay" /\ gap[a] = None /\ rest[a] # {}
    /\ \E shown \in BOOLEAN : Handle(a, Oldest(rest[a]), shown)
    /\ rest' = [rest EXCEPT ![a] = @ \ {Oldest(@)}]
    /\ UNCHANGED <<bus, watched, queue, dropped, stream, gap, getting, hand, later, done, looked, spent>>

\* The top of the loop: a get task for every queue.
Wait ==
    /\ \/ stream = "replay" /\ \A a \in Account : gap[a] = None /\ rest[a] = {}
       \/ stream = "cancel" /\ later = {} /\ done = {}
       \/ stream = "serve" /\ done = {}
    /\ stream' = "wait" /\ getting' = watched
    /\ UNCHANGED <<bus, watched, queue, dropped, gap, rest, hand, later, done, looked, cursor, tally, spent>>

\* A get task runs to its end.
Take(a) ==
    /\ stream \in {"wait", "cancel"} /\ a \in getting /\ queue[a] # <<>>
    /\ hand' = [hand EXCEPT ![a] = Head(queue[a])]
    /\ queue' = [queue EXCEPT ![a] = Tail(@)]
    /\ getting' = getting \ {a}
    /\ UNCHANGED <<bus, watched, dropped, stream, gap, rest, later, done, looked, cursor, tally, spent>>

\* Mutant of Wake: only the first of the tasks that are not done is cancelled.
WakeOne ==
    /\ stream = "wait"
    /\ done' = watched \ getting
    /\ IF getting = {}
         THEN stream' = "serve" /\ UNCHANGED <<getting, later>>
         ELSE \E a \in getting : stream' = "cancel" /\ getting' = getting \ {a} /\ later' = {}
    /\ UNCHANGED <<bus, watched, queue, dropped, gap, rest, hand, looked, cursor, tally, spent>>

\* asyncio.wait returns, with the tasks done by now or on the heartbeat; the first of the
\* others is cancelled at once and awaited.
Wake ==
    /\ stream = "wait"
    /\ done' = watched \ getting
    /\ IF getting = {}
         THEN stream' = "serve" /\ UNCHANGED <<getting, later>>
         ELSE \E a \in getting : /\ stream' = "cancel"
                                 /\ getting' = getting \ {a} /\ later' = getting \ {a}
    /\ UNCHANGED <<bus, watched, queue, dropped, gap, rest, hand, looked, cursor, tally, spent>>

\* The next task that was not done is cancelled, unless it finished while watch awaited the
\* one before: then its result is dropped.
CancelNext(a) ==
    /\ stream = "cancel" /\ a \in later
    /\ later' = later \ {a} /\ getting' = getting \ {a}
    /\ hand' = [hand EXCEPT ![a] = None]
    /\ tally' = [tally EXCEPT ![a].discarded = IF a \in getting THEN @ ELSE @ + 1]
    /\ UNCHANGED <<bus, watched, queue, dropped, stream, gap, rest, done, looked, cursor, spent>>

Serve ==
    /\ stream = "cancel" /\ later = {} /\ done # {}
    /\ stream' = "serve"
    /\ UNCHANGED <<bus, watched, queue, dropped, gap, rest, getting, hand, later, done, looked, cursor, tally, spent>>

\* take_lag: what the queue dropped is told before the event in hand is shown.
TakeLag(a) ==
    /\ stream = "serve" /\ a \in done /\ looked = None
    /\ looked' = a
    /\ tally' = [tally EXCEPT ![a].told = @ + dropped[a]]
    /\ dropped' = [dropped EXCEPT ![a] = 0]
    /\ UNCHANGED <<bus, watched, queue, stream, gap, rest, getting, hand, later, done, cursor, spent>>

\* The event in hand is shown or passed over.
Show(a) ==
    /\ stream = "serve" /\ looked = a
    /\ \E shown \in BOOLEAN : Handle(a, hand[a], shown)
    /\ hand' = [hand EXCEPT ![a] = None] /\ done' = done \ {a} /\ looked' = None
    /\ UNCHANGED <<bus, watched, queue, dropped, stream, gap, rest, getting, later, spent>>

\* The stream ends: the client leaves, the time or the limit is reached, `--on-lag fail`.
Close ==
    /\ Open /\ EndStream
    /\ UNCHANGED <<bus, cursor, spent>>

Next ==
    \/ \E a \in Account : \/ Emit(a) \/ TellGap(a) \/ ReplayOne(a) \/ Take(a)
                          \/ CancelNext(a) \/ TakeLag(a) \/ Show(a)
    \/ \E accounts \in SUBSET Account, resume \in BOOLEAN : Subscribe(accounts, resume)
    \/ Flush \/ Stop \/ Exit \/ Crash \/ Boot \/ Wait \/ Wake \/ Serve \/ Close

Spec == Init /\ [][Next]_vars

-----------------------------------------------------------------------------
(* Properties *)

Tally == [from : Nat, at : Nat, handled : Nat, told : Nat, hidden : Nat, discarded : Nat]

\* The types of the variables; an event is in hand exactly for the tasks that finished.
StreamTypeOK ==
    /\ daemon \in {"up", "stopping", "down"}
    /\ seq \in [Account -> Nat] /\ file \in [Account -> Nat] /\ dirty \subseteq Account
    /\ ring \in [Account -> SUBSET Nat]
    /\ queue \in [Account -> Seq(Nat)] /\ dropped \in [Account -> Nat]
    /\ watched \subseteq Account
    /\ stream \in {"closed", "replay", "wait", "cancel", "serve"}
    /\ gap \in [Account -> Nat \cup {None}] /\ rest \in [Account -> SUBSET Nat]
    /\ getting \subseteq watched /\ later \subseteq watched /\ done \subseteq watched
    /\ hand \in [Account -> Nat \cup {None}]
    /\ looked \in {None} \cup done
    /\ \A a \in Account : hand[a] # None <=>
         \/ stream = "wait" /\ a \in watched \ getting
         \/ stream \in {"cancel", "serve"} /\ a \in done \cup (later \ getting)
    /\ cursor \in [Account -> Nat] /\ tally \in [Account -> Tally]
    /\ spent \in [boots : Nat, faults : Nat, streams : Nat]

\* "A consumer that fell behind is told exactly how many events it lost rather than silently
\* skipping them": up to the event a stream is at, every number was looked at, or counted in
\* a gap or lag frame - or hidden by an empty ring after a restart, or thrown away with the
\* result of a get task that finished while another was being cancelled.
NoSilentLoss ==
    \A a \in Account :
        LET t == tally[a] IN t.at - t.from <= t.handled + t.told + t.hidden + t.discarded

\* `--since` survives a restart: as long as nothing crashed and no write failed, the daemon
\* never counts below what a watcher was shown, so its next event has a number it has not seen.
CursorSurvives ==
    spent.faults = 0 =>
        \A a \in Account : cursor[a] <= IF daemon = "down" THEN file[a] ELSE seq[a]

\* A watcher of one account sees its events in order and none twice, through every way a
\* stream ends and begins again with the cursor it kept; a stream begun without a cursor
\* shows what comes after its beginning.
OnceInOrder ==
    [][\A a \in Account :
         (tally'[a].handled > tally[a].handled /\ spent.faults = 0) => tally'[a].at > tally[a].at]_vars
=============================================================================
