------------------------------ MODULE Delivery ------------------------------
(***************************************************************************)
(* From the bus to the webhook's receiver: the lanes, the pusher's queue   *)
(* and workers, the dead letters and the command that sends them again,    *)
(* and the shutdown that stops the pusher before the bus.                  *)
(*                                                                         *)
(* An event is its place in the order in which the bus published them.     *)
(* Every event is followed to where it ends: acknowledged, not wanted,     *)
(* deleted by the user, a dead letter, or gone.                            *)
(***************************************************************************)
EXTENDS Integers, Sequences, FiniteSets

CONSTANTS
    Lane,         \* the bus's worker lanes
    Worker,       \* the pusher's workers
    LaneOf,       \* the lane of each event's chat; its domain are the events 1..N
    LaneSize,     \* EventBus.lane_queue_size
    QueueSize,    \* [webhook] queue_size
    Attempts,     \* [webhook.retry] max_attempts, 1 when retries are off
    MaxCommands   \* bound: dead-letter commands

Event == DOMAIN LaneOf

ASSUME DeliveryAssumption ==
    /\ Event = 1..Cardinality(Event) /\ Cardinality(Event) \in Nat
    /\ LaneOf \in [Event -> Lane]
    /\ LaneSize \in Nat \ {0} /\ QueueSize \in Nat \ {0}
    /\ Attempts \in Nat \ {0} /\ MaxCommands \in Nat

VARIABLES
    emitted,      \* how many events were published
    lane,         \* EventBus._lanes
    handling,     \* the event whose on_event awaits its chat or filters; 0 for none
    queue,        \* WebhookPusher._queue
    post,         \* what a worker is delivering and its failed attempts; event 0 for none
    letters,      \* dead_letter.jsonl
    command,      \* dead_letter_send: whether it runs, the entries to send, those to write back
    pusher,       \* "running", "draining" (in stop), "stopped"
    process,      \* "up", "down"
    settled,      \* acknowledged, not wanted, or deleted by the user
    commands      \* bound: dead-letter commands so far

flow == <<lane, handling, queue, post>>
vars == <<emitted, flow, letters, command, pusher, process, settled, commands>>

Idle == [event |-> 0, failed |-> 0]
NoCommand == [on |-> FALSE, todo |-> {}, keep |-> {}]

Init ==
    /\ emitted = 0
    /\ lane = [l \in Lane |-> <<>>] /\ handling = [l \in Lane |-> 0]
    /\ queue = <<>> /\ post = [w \in Worker |-> Idle]
    /\ letters = {} /\ command = NoCommand /\ commands = 0
    /\ pusher = "running" /\ process = "up"
    /\ settled = {}

-----------------------------------------------------------------------------
(* The bus *)

\* Mutant of Publish: the lane is not the chat's.
PublishAnywhere ==
    /\ process = "up" /\ emitted + 1 \in Event
    /\ emitted' = emitted + 1
    /\ \E l \in Lane : lane' = [lane EXCEPT ![l] =
         Append(IF Len(@) = LaneSize THEN Tail(@) ELSE @, emitted + 1)]
    /\ UNCHANGED <<handling, queue, post, letters, command, pusher, process, settled, commands>>

\* publish, into the lane of the chat: a full lane drops its oldest event.
Publish ==
    /\ process = "up" /\ emitted + 1 \in Event
    /\ emitted' = emitted + 1
    /\ lane' = [lane EXCEPT ![LaneOf[emitted + 1]] =
         Append(IF Len(@) = LaneSize THEN Tail(@) ELSE @, emitted + 1)]
    /\ UNCHANGED <<handling, queue, post, letters, command, pusher, process, settled, commands>>

\* A lane's worker gets an event and calls the handlers, one after the other.
Handle(l) ==
    /\ process = "up" /\ handling[l] = 0 /\ lane[l] # <<>>
    /\ handling' = [handling EXCEPT ![l] = Head(lane[l])]
    /\ lane' = [lane EXCEPT ![l] = Tail(@)]
    /\ UNCHANGED <<emitted, queue, post, letters, command, pusher, process, settled, commands>>

\* on_event: the event's type, chat or filters are not the webhook's, or it has no encoding.
PassOver(l) ==
    /\ handling[l] # 0
    /\ settled' = settled \cup {handling[l]}
    /\ handling' = [handling EXCEPT ![l] = 0]
    /\ UNCHANGED <<emitted, lane, queue, post, letters, command, pusher, process, commands>>

\* Mutant of Enqueue: the queue takes one more than its size.
EnqueueOver(l) ==
    /\ handling[l] # 0
    /\ IF Len(queue) <= QueueSize
         THEN queue' = Append(queue, handling[l]) /\ UNCHANGED letters
         ELSE letters' = letters \cup {handling[l]} /\ UNCHANGED queue
    /\ handling' = [handling EXCEPT ![l] = 0]
    /\ UNCHANGED <<emitted, lane, post, command, pusher, process, settled, commands>>

\* enqueue: a full queue makes a dead letter; the queue of a pusher that was stopped still takes.
Enqueue(l) ==
    /\ handling[l] # 0
    /\ IF Len(queue) < QueueSize
         THEN queue' = Append(queue, handling[l]) /\ UNCHANGED letters
         ELSE letters' = letters \cup {handling[l]} /\ UNCHANGED queue
    /\ handling' = [handling EXCEPT ![l] = 0]
    /\ UNCHANGED <<emitted, lane, post, command, pusher, process, settled, commands>>

-----------------------------------------------------------------------------
(* The pusher's workers *)

\* Mutant of Get: the event is looked at and left in the queue.
GetKept(w) ==
    /\ pusher # "stopped" /\ post[w].event = 0 /\ queue # <<>>
    /\ post' = [post EXCEPT ![w] = [event |-> Head(queue), failed |-> 0]]
    /\ UNCHANGED <<emitted, lane, handling, queue, letters, command, pusher, process, settled, commands>>

Get(w) ==
    /\ pusher # "stopped" /\ post[w].event = 0 /\ queue # <<>>
    /\ post' = [post EXCEPT ![w] = [event |-> Head(queue), failed |-> 0]]
    /\ queue' = Tail(queue)
    /\ UNCHANGED <<emitted, lane, handling, letters, command, pusher, process, settled, commands>>

\* The receiver answers below 400.
Acknowledged(w) ==
    /\ post[w].event # 0
    /\ settled' = settled \cup {post[w].event}
    /\ post' = [post EXCEPT ![w] = Idle]
    /\ UNCHANGED <<emitted, lane, handling, queue, letters, command, pusher, process, commands>>

\* Mutants of Failed: the last failure leaves no dead letter; or attempts are counted anew.
FailedSilently(w) ==
    /\ post[w].event # 0
    /\ post' = [post EXCEPT ![w] = IF post[w].failed + 1 < Attempts
                                     THEN [@ EXCEPT !.failed = @ + 1] ELSE Idle]
    /\ UNCHANGED <<emitted, lane, handling, queue, letters, command, pusher, process, settled, commands>>

FailedForEver(w) ==
    /\ post[w].event # 0
    /\ post' = [post EXCEPT ![w].failed = IF @ + 1 < Attempts THEN @ + 1 ELSE 0]
    /\ UNCHANGED <<emitted, lane, handling, queue, letters, command, pusher, process, settled, commands>>

\* Any other answer or none in time: try again after a pause, or give up with a dead letter.
Failed(w) ==
    /\ post[w].event # 0
    /\ IF post[w].failed + 1 < Attempts
         THEN post' = [post EXCEPT ![w].failed = @ + 1] /\ UNCHANGED letters
         ELSE post' = [post EXCEPT ![w] = Idle] /\ letters' = letters \cup {post[w].event}
    /\ UNCHANGED <<emitted, lane, handling, queue, command, pusher, process, settled, commands>>

-----------------------------------------------------------------------------
(* The dead letters; a command runs as long as the process does *)

\* dead_letter_send reads the store; entries it was not asked for are kept.
Resend(chosen) ==
    /\ process = "up" /\ ~command.on /\ commands < MaxCommands
    /\ chosen \subseteq letters
    /\ command' = [on |-> TRUE, todo |-> chosen, keep |-> letters \ chosen]
    /\ commands' = commands + 1
    /\ UNCHANGED <<emitted, flow, letters, pusher, process, settled>>

\* deliver_once: an entry that fails is kept, and with --keep-on-success every one is.
ResendOne(e) ==
    /\ e \in command.todo
    /\ \E delivered, kept \in BOOLEAN :
         /\ delivered \/ kept
         /\ command' = [command EXCEPT !.todo = @ \ {e}, !.keep = IF kept THEN @ \cup {e} ELSE @]
         /\ settled' = IF delivered THEN settled \cup {e} ELSE settled
    /\ UNCHANGED <<emitted, flow, letters, pusher, process, commands>>

\* write_dead_letters replaces the store by what is kept.
WriteBack ==
    /\ command.on /\ command.todo = {}
    /\ letters' = command.keep
    /\ command' = NoCommand
    /\ UNCHANGED <<emitted, flow, pusher, process, settled, commands>>

\* The operation's time is up, or its client or the daemon goes: nothing is written back.
Interrupt ==
    /\ command.on /\ command' = NoCommand
    /\ UNCHANGED <<emitted, flow, letters, pusher, process, settled, commands>>

\* dead_letter_delete reads and writes the store without an await.
Delete(chosen) ==
    /\ process = "up" /\ commands < MaxCommands
    /\ chosen \subseteq letters
    /\ letters' = letters \ chosen /\ settled' = settled \cup chosen
    /\ commands' = commands + 1
    /\ UNCHANGED <<emitted, flow, command, pusher, process>>

-----------------------------------------------------------------------------
(* Shutdown *)

\* WebhookPusher.stop begins to wait for the queue.
Drain ==
    /\ process = "up" /\ pusher = "running" /\ pusher' = "draining"
    /\ UNCHANGED <<emitted, flow, letters, command, process, settled, commands>>

\* The queue is empty or the time is up: what is queued becomes dead letters, and the workers
\* are cancelled with what they are delivering.
CutOff ==
    /\ pusher = "draining" /\ pusher' = "stopped"
    /\ letters' = letters \cup {queue[i] : i \in DOMAIN queue}
    /\ queue' = <<>> /\ post' = [w \in Worker |-> Idle]
    /\ UNCHANGED <<emitted, lane, handling, command, process, settled, commands>>

\* EventBus.stop cancels the lanes, and the process ends.
Exit ==
    /\ process = "up" /\ pusher = "stopped" /\ process' = "down"
    /\ lane' = [l \in Lane |-> <<>>] /\ handling' = [l \in Lane |-> 0]
    /\ queue' = <<>> /\ post' = [w \in Worker |-> Idle]
    /\ command' = NoCommand
    /\ UNCHANGED <<emitted, letters, pusher, settled, commands>>

LaneStep(l) == Handle(l) \/ PassOver(l) \/ Enqueue(l)
WorkerStep(w) == Get(w) \/ Acknowledged(w) \/ Failed(w)
Shutdown == Drain \/ CutOff \/ Exit

Next ==
    \/ Publish
    \/ \E l \in Lane : LaneStep(l)
    \/ \E w \in Worker : WorkerStep(w)
    \/ \E chosen \in SUBSET letters : Resend(chosen) \/ Delete(chosen)
    \/ \E e \in Event : ResendOne(e)
    \/ WriteBack \/ Interrupt
    \/ Shutdown

Spec == Init /\ [][Next]_vars

\* Lanes and workers are tasks of the loop, a delivery has a timeout, and a shutdown that
\* began goes on; nobody is obliged to begin one.
FairSpec ==
    /\ Spec
    /\ \A l \in Lane : WF_vars(LaneStep(l))
    /\ \A w \in Worker : WF_vars(WorkerStep(w))
    /\ WF_vars(CutOff) /\ WF_vars(Exit)

-----------------------------------------------------------------------------
(* Properties *)

Queued(e) == \E i \in DOMAIN queue : queue[i] = e
InLane(e) == \E l \in Lane : \E i \in DOMAIN lane[l] : lane[l][i] = e
Posted(e) == \E w \in Worker : post[w].event = e
Handled(e) == \E l \in Lane : handling[l] = e
Waiting(e) == InLane(e) \/ Handled(e) \/ Queued(e) \/ Posted(e)

DeliveryTypeOK ==
    /\ emitted \in 0..Cardinality(Event)
    /\ lane \in [Lane -> Seq(1..emitted)] /\ handling \in [Lane -> 0..emitted]
    /\ queue \in Seq(1..emitted) /\ Len(queue) <= QueueSize
    /\ \A l \in Lane : Len(lane[l]) <= LaneSize
    /\ post \in [Worker -> [event : 0..emitted, failed : 0..(Attempts - 1)]]
    /\ letters \subseteq 1..emitted /\ settled \subseteq 1..emitted
    /\ command \in [on : BOOLEAN, todo : SUBSET (1..emitted), keep : SUBSET (1..emitted)]
    /\ ~command.on => command = NoCommand
    /\ pusher \in {"running", "draining", "stopped"} /\ process \in {"up", "down"}
    /\ commands \in 0..MaxCommands

\* An event on its way disappears, without having been acknowledged, passed over or put in
\* the dead letters, only if it was the oldest of a full lane or the pusher had been asked to
\* stop; and a dead letter only if a command read the store before the letter was in it.
LostOnlyWhen ==
    [][\A e \in Event :
         /\ Waiting(e) /\ ~(Waiting(e) \/ e \in letters \/ e \in settled)' =>
              \/ \E l \in Lane : Len(lane[l]) = LaneSize /\ e = Head(lane[l]) /\ emitted' # emitted
              \/ pusher = "draining" /\ Posted(e)
              \/ pusher = "stopped"
         /\ e \in letters /\ e \notin (letters \cup settled)' =>
              command.on /\ e \notin command.keep]_vars

\* "Lanes are chosen by chat_id, so per-chat order is preserved (a message and its edit cannot
\* be processed out of order)": the pusher's queue has the events of a lane in their order,
\* before all that the lane still has.
LaneOrderKept ==
    \A e, f \in Event : e < f /\ LaneOf[e] = LaneOf[f] =>
        /\ \A i, j \in DOMAIN queue : queue[i] = e /\ queue[j] = f => i < j
        /\ Queued(f) \/ Posted(f) => ~(Handled(e) \/ InLane(e))

\* An event is in one place: never queued and posted at once, nor twice in a queue, nor a dead
\* letter while it may still be delivered.
OnePlace ==
    \A e \in Event :
        /\ \A i, j \in DOMAIN queue : queue[i] = e /\ queue[j] = e => i = j
        /\ \A v, w \in Worker : post[v].event = e /\ post[w].event = e => v = w
        /\ Posted(e) => ~Queued(e)
        /\ Queued(e) \/ Posted(e) => e \notin letters \cup settled

\* No event waits for ever: it is acknowledged, passed over, becomes a dead letter or is gone
\* with the process.
NeverStuck == \A e \in Event : Waiting(e) ~> ~Waiting(e)
=============================================================================
